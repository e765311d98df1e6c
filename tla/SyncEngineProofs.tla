--------------------------- MODULE SyncEngineProofs ---------------------------
(****************************************************************************)
(* Proofs about module SyncEngine, for any folder, configuration and bounds *)
(* on the environment: the types; the journal never pairs an etag with a    *)
(* body the server did not hold under it; the statuses shown follow the     *)
(* tasks. When lengths tell versions apart, nobody edits during a run and   *)
(* no transfer touches the files of another, what run_sync leaves alone is  *)
(* in sync, through failures and crashes. When nothing fails and nobody     *)
(* deletes, KeepBoth loses no version.                                      *)
(****************************************************************************)
EXTENDS SyncEngine, TLAPS

\* Leaves that name no prover are Zenon's.
USE Zenon

(****************************************************************************)
(* Types of the data.                                                       *)
(****************************************************************************)

\* The values a run writes for directories and for a new task are typed.
LEMMA DataTypes ==
  /\ DirBody \in Body /\ DirEntry \in RemoteEntry /\ DirRow \in Row
  /\ \A op \in Instructions \ {"Ignore"} : Queued(op) \in Task
<1>1. DirBody \in Body
  BY DEF DirBody, Empty, Body
<1> QED
  BY <1>1 DEF DirEntry, RemoteEntry, DirEtag, DirRow, Row, NoEtag, Queued, Task, Points

\* The bounds, one by one.
LEMMA BoundTypes ==
  MaxEdits \in Nat /\ MaxFaults \in Nat /\ MaxCrashes \in Nat
BY ConfigAssumption

\* Reading and updating a partial map.
LEMMA MapTypes ==
  ASSUME NEW S, NEW m \in Maps(S)
  PROVE  /\ \A p \in Path : m[p] \in S \cup {None}
         /\ \A p \in Path : Exists(m, p) => m[p] \in S
         /\ \A p \in Path, v \in S \cup {None} : [m EXCEPT ![p] = v] \in Maps(S)
         /\ \A p \in Path : Without(m, p) \in Maps(S)
         /\ \A ds : \A v \in S : WithDirs(m, ds, v) \in Maps(S)
BY DEF Maps, Exists, Without, WithDirs

\* reconcile answers with an instruction, whatever it is given.
LEMMA ReconcileType ==
  ASSUME NEW loc, NEW rem, NEW row, NEW strategy \in Strategies
  PROVE  Reconcile(loc, rem, row, strategy) \in Instructions
<1>1. Resolution(strategy) \in Instructions
  BY DEF Resolution, Strategies, Instructions
<1> HIDE DEF Resolution
<1> QED
  BY <1>1 DEF Reconcile, Instructions

\* A map with no entries is typed.
LEMMA NothingType == ASSUME NEW S PROVE Nothing \in Maps(S)
BY DEF Nothing, Maps

\* A folder before its first run is in a typed state.
LEMMA InitType == Init => TypeOK
<1> SUFFICES ASSUME Init PROVE TypeOK
  OBVIOUS
<1>1. /\ local \in Maps(Body) /\ remote \in Maps(RemoteEntry) /\ journal \in Maps(Row)
      /\ task \in Maps(Task) /\ file_statuses \in Maps({"Ok", "Syncing", "Error"})
  BY NothingType DEF Init
<1>2. found \in [loc : Maps(Body) \cup {None}, rem : Maps(RemoteEntry) \cup {None}]
  BY DEF Init, NotFound
<1>3. edits \in 0..MaxEdits /\ faults \in 0..MaxFaults /\ crashes \in 0..MaxCrashes
  BY BoundTypes, SMT DEF Init
<1>4. phase \in {"idle", "discovering", "propagating"}
  BY DEF Init
<1>5. status \in {"Idle", "Syncing", "Error"}
  BY DEF Init
<1>6. had_error \in BOOLEAN
  BY ZenonT(60) DEF Init
<1>7. nextEtag \in Nat /\ stamp \in Nat
  BY SMT DEF Init, DirEtag
<1>8. wanted \subseteq Nat /\ created \subseteq Nat
  BY DEF Init
<1> QED
  BY <1>1, <1>2, <1>3, <1>4, <1>5, <1>6, <1>7, <1>8 DEF TypeOK

(****************************************************************************)
(* The parts of a step keep the types of the variables they set.            *)
(****************************************************************************)

\* Ends and Goes: the task of a path, its status and had_error.
LEMMA TaskTypes ==
  ASSUME TypeOK, NEW p \in Path
  PROVE  /\ \A st \in {"Ok", "Error", None} : Ends(p, st) =>
              /\ task' \in Maps(Task) /\ had_error' \in BOOLEAN
              /\ file_statuses' \in Maps({"Ok", "Syncing", "Error"})
         /\ \A t \in Task : Goes(p, t) =>
              /\ task' \in Maps(Task) /\ had_error' \in BOOLEAN
              /\ file_statuses' \in Maps({"Ok", "Syncing", "Error"})
<1>1. ASSUME NEW st \in {"Ok", "Error", None}, Ends(p, st)
      PROVE  /\ task' \in Maps(Task) /\ had_error' \in BOOLEAN
             /\ file_statuses' \in Maps({"Ok", "Syncing", "Error"})
  <2>1. task' \in Maps(Task)
    BY <1>1, MapTypes, ZenonT(60) DEF Ends, TypeOK
  <2>2. file_statuses' \in Maps({"Ok", "Syncing", "Error"})
    BY <1>1, MapTypes, ZenonT(60) DEF Ends, TypeOK
  <2>3. had_error' \in BOOLEAN
    BY <1>1 DEF Ends
  <2> QED
    BY <2>1, <2>2, <2>3
<1>2. ASSUME NEW t \in Task, Goes(p, t)
      PROVE  /\ task' \in Maps(Task) /\ had_error' \in BOOLEAN
             /\ file_statuses' \in Maps({"Ok", "Syncing", "Error"})
  <2>1. task' \in Maps(Task)
    BY <1>2, MapTypes, ZenonT(60) DEF Goes, TypeOK
  <2>2. file_statuses' \in Maps({"Ok", "Syncing", "Error"})
    BY <1>2, MapTypes, ZenonT(60) DEF Goes, TypeOK
  <2>3. had_error' \in BOOLEAN
    BY <1>2 DEF Goes, TypeOK
  <2> QED
    BY <2>1, <2>2, <2>3
<1> QED
  BY <1>1, <1>2

\* A fault within its bound.
LEMMA FaultTypes == TypeOK /\ (Fault \/ NoFault) => faults' \in 0..MaxFaults
BY BoundTypes, SMT DEF TypeOK, Fault, NoFault

\* Records and Fails: the journal.
LEMMA JournalTypes ==
  ASSUME TypeOK, NEW p \in Path
  PROVE  /\ \A row \in Row \cup {None} : Records(p, row) =>
              journal' \in Maps(Row) /\ faults' \in 0..MaxFaults
         /\ Fails(p) => /\ task' \in Maps(Task) /\ had_error' \in BOOLEAN
                        /\ file_statuses' \in Maps({"Ok", "Syncing", "Error"})
                        /\ journal' \in Maps(Row)
<1>1. ASSUME NEW row \in Row \cup {None}, Records(p, row)
      PROVE  journal' \in Maps(Row) /\ faults' \in 0..MaxFaults
  <2>1. journal' \in Maps(Row)
    BY <1>1, MapTypes, SMT DEF Records, TypeOK
  <2>2. faults' \in 0..MaxFaults
    BY <1>1, FaultTypes DEF Records
  <2> QED
    BY <2>1, <2>2
<1>2. ASSUME Fails(p)
      PROVE  /\ task' \in Maps(Task) /\ had_error' \in BOOLEAN
             /\ file_statuses' \in Maps({"Ok", "Syncing", "Error"})
             /\ journal' \in Maps(Row)
  BY <1>2, TaskTypes DEF Fails, TypeOK
<1> QED
  BY <1>1, <1>2

\* What no propagation step changes.
LEMMA PropagatingTypes ==
  ASSUME TypeOK, Propagating
  PROVE  /\ phase' \in {"idle", "discovering", "propagating"}
         /\ found' \in [loc : Maps(Body) \cup {None}, rem : Maps(RemoteEntry) \cup {None}]
         /\ status' \in {"Idle", "Syncing", "Error"}
         /\ wanted' \subseteq Nat /\ created' \subseteq Nat
         /\ edits' \in 0..MaxEdits /\ crashes' \in 0..MaxCrashes
BY DEF TypeOK, Propagating, history

\* It is enough that a propagation step keeps the types of the rest.
LEMMA StepTypes ==
  ASSUME TypeOK, Propagating,
         local' \in Maps(Body), remote' \in Maps(RemoteEntry), journal' \in Maps(Row),
         task' \in Maps(Task), had_error' \in BOOLEAN,
         file_statuses' \in Maps({"Ok", "Syncing", "Error"}),
         nextEtag' \in Nat, stamp' \in Nat, faults' \in 0..MaxFaults
  PROVE  TypeOK'
BY PropagatingTypes DEF TypeOK

\* A task that got past its start.
Moved == {t \in Task : t.pc # "queued"}

\* The updates a task goes through.
LEMMA TaskUpdates ==
  ASSUME NEW t \in Task, NEW pc \in Points \ {"queued"},
         NEW b \in Body, NEW e \in Nat, NEW n \in Nat
  PROVE  /\ [t EXCEPT !.pc = pc] \in Moved
         /\ [t EXCEPT !.pc = pc, !.body = b] \in Moved
         /\ [t EXCEPT !.pc = pc, !.body = b, !.etag = e] \in Moved
         /\ [t EXCEPT !.pc = pc, !.size = n] \in Moved
BY ZenonT(60) DEF Task, Moved

\* What a directory instruction does keeps the types.
LEMMA DirTypes ==
  ASSUME TypeOK, NEW d \in Dirs, DirPropagation(d)
  PROVE  TypeOK'
<1>d. d \in Path
  BY PathAssumption
<1>t. /\ local \in Maps(Body) /\ remote \in Maps(RemoteEntry) /\ journal \in Maps(Row)
      /\ task \in Maps(Task) /\ had_error \in BOOLEAN /\ nextEtag \in Nat /\ stamp \in Nat
      /\ file_statuses \in Maps({"Ok", "Syncing", "Error"})
      /\ faults \in 0..MaxFaults
  BY DEF TypeOK
<1>s. ASSUME NEW op, DirStep(d, op) PROVE Propagating /\ nextEtag' \in Nat /\ stamp' \in Nat
  BY <1>s, <1>t DEF DirStep
<1>m. /\ WithDirs(remote, {d}, DirEntry) \in Maps(RemoteEntry)
      /\ WithDirs(local, Above(d) \cup {d}, DirBody) \in Maps(Body)
      /\ Without(remote, d) \in Maps(RemoteEntry) /\ Without(local, d) \in Maps(Body)
  BY <1>d, <1>t, MapTypes, DataTypes
<1>1. CASE DirUpload(d)
  <2>1. local' \in Maps(Body) /\ remote' \in Maps(RemoteEntry)
    BY <1>1, <1>t, <1>m DEF DirUpload
  <2>2. /\ journal' \in Maps(Row) /\ faults' \in 0..MaxFaults
        /\ task' \in Maps(Task) /\ had_error' \in BOOLEAN
        /\ file_statuses' \in Maps({"Ok", "Syncing", "Error"})
    BY <1>1, <1>d, TaskTypes, JournalTypes, FaultTypes, DataTypes DEF DirUpload
  <2> QED
    BY <1>1, <1>s, <2>1, <2>2, StepTypes DEF DirUpload
<1>2. CASE DirDownload(d)
  <2>1. local' \in Maps(Body) /\ remote' \in Maps(RemoteEntry)
    BY <1>2, <1>t, <1>m DEF DirDownload
  <2>2. /\ journal' \in Maps(Row) /\ faults' \in 0..MaxFaults
        /\ task' \in Maps(Task) /\ had_error' \in BOOLEAN
        /\ file_statuses' \in Maps({"Ok", "Syncing", "Error"})
    BY <1>2, <1>d, TaskTypes, JournalTypes, FaultTypes, DataTypes DEF DirDownload
  <2> QED
    BY <1>2, <1>s, <2>1, <2>2, StepTypes DEF DirDownload
<1>3. CASE DirDeleteRemote(d)
  <2>1. local' \in Maps(Body) /\ remote' \in Maps(RemoteEntry)
    BY <1>3, <1>t, <1>m DEF DirDeleteRemote
  <2>2. /\ journal' \in Maps(Row) /\ faults' \in 0..MaxFaults
        /\ task' \in Maps(Task) /\ had_error' \in BOOLEAN
        /\ file_statuses' \in Maps({"Ok", "Syncing", "Error"})
    BY <1>3, <1>d, TaskTypes, JournalTypes, FaultTypes DEF DirDeleteRemote
  <2> QED
    BY <1>3, <1>s, <2>1, <2>2, StepTypes DEF DirDeleteRemote
<1>4. CASE DirDeleteLocal(d)
  <2>1. local' \in Maps(Body) /\ remote' \in Maps(RemoteEntry)
    BY <1>4, <1>t, <1>m DEF DirDeleteLocal
  <2>2. /\ journal' \in Maps(Row) /\ faults' \in 0..MaxFaults
        /\ task' \in Maps(Task) /\ had_error' \in BOOLEAN
        /\ file_statuses' \in Maps({"Ok", "Syncing", "Error"})
    BY <1>4, <1>d, TaskTypes, JournalTypes, FaultTypes DEF DirDeleteLocal
  <2> QED
    BY <1>4, <1>s, <2>1, <2>2, StepTypes DEF DirDeleteLocal
<1>5. CASE DirConflict(d)
  <2>1. /\ task' \in Maps(Task) /\ had_error' \in BOOLEAN /\ faults' \in 0..MaxFaults
        /\ file_statuses' \in Maps({"Ok", "Syncing", "Error"})
        /\ local' \in Maps(Body) /\ remote' \in Maps(RemoteEntry) /\ journal' \in Maps(Row)
    BY <1>5, <1>d, <1>t, MapTypes, ZenonT(60) DEF DirConflict, trees
  <2> QED
    BY <1>5, <1>s, <2>1, StepTypes DEF DirConflict
<1> QED
  BY <1>1, <1>2, <1>3, <1>4, <1>5 DEF DirPropagation

\* A step of a file task ends the task or moves it on.
LEMMA FileMoves ==
  ASSUME TypeOK, NEW p \in Files, FilePropagation(p)
  PROVE  /\ Propagating
         /\ \/ \E st \in {"Ok", "Error", None} : Ends(p, st)
            \/ \E t \in Moved : Goes(p, t)
<1>p. p \in Path
  BY DEF Files
<1>k. /\ task[p] # None => task[p] \in Task
      /\ Exists(local, p) => local[p] \in Body
      /\ Exists(remote, p) => remote[p] \in RemoteEntry
  BY <1>p, MapTypes DEF Exists, TypeOK
<1>s. /\ \A op : FileStart(p, op) => Propagating /\ task[p] \in Task
      /\ \A op : \A pc \in Points \ {"queued"} : FileStep(p, op, pc) =>
           Propagating /\ task[p] \in Task
  BY <1>k DEF FileStart, FileStep, At
<1>f. Fails(p) => \E st \in {"Ok", "Error", None} : Ends(p, st)
  BY DEF Fails
<1>1. CASE ConflictRename(p)
  <2>1. [task[p] EXCEPT !.pc = "renamed"] \in Moved
    BY <1>1, <1>s, TaskUpdates, DataTypes, ZenonT(60) DEF ConflictRename, Points
  <2> QED
    BY <1>1, <1>s, <1>f, <2>1 DEF ConflictRename
<1>2. CASE Get(p)
  <2>1. Propagating /\ task[p] \in Task
    BY <1>2, <1>s DEF Get, Points
  <2>2. Exists(remote, p) => remote[p].body \in Body /\ remote[p].etag \in Nat
    BY <1>k, SMTT(60), Z3T(60) DEF RemoteEntry
  <2>3. Exists(remote, p) =>
          /\ [task[p] EXCEPT !.pc = "got", !.body = remote[p].body,
                             !.etag = remote[p].etag] \in Moved
          /\ [task[p] EXCEPT !.pc = "got", !.body = remote[p].body] \in Moved
    BY <2>1, <2>2, TaskUpdates, ZenonT(60) DEF Points
  <2> QED
    BY <1>2, <1>f, <2>1, <2>3 DEF Get
<1>3. CASE WriteTmp(p)
  <2>1. Propagating /\ task[p] \in Task
    BY <1>3, <1>s, SMTT(60), Z3T(60) DEF WriteTmp, Points
  <2>2. [task[p] EXCEPT !.pc = "written"] \in Moved
    BY <2>1, TaskUpdates, DataTypes, ZenonT(60) DEF Points
  <2> QED
    BY <1>3, <1>f, <2>1, <2>2 DEF WriteTmp
<1>4. CASE Install(p)
  <2>1. Propagating /\ task[p] \in Task
    BY <1>4, <1>s, SMTT(60), Z3T(60) DEF Install, Points
  <2>2. [task[p] EXCEPT !.pc = "installed"] \in Moved
    BY <2>1, TaskUpdates, DataTypes, ZenonT(60) DEF Points
  <2> QED
    BY <1>4, <1>f, <2>1, <2>2 DEF Install
<1>5. CASE RecordDownload(p)
  BY <1>5, <1>s DEF RecordDownload, Points
<1>6. CASE Stat(p)
  <2> DEFINE size == IF Exists(local, p) THEN local[p].size ELSE 0
  <2>1. size \in Nat
    BY <1>k, SMTT(60), Z3T(60) DEF Body
  <2>2. [task[p] EXCEPT !.pc = "stated", !.size = size] \in Moved
    <3> HIDE DEF size
    <3> QED
      BY <1>6, <1>s, <2>1, TaskUpdates, DataTypes, ZenonT(60) DEF Stat, Points
  <2> QED
    BY <1>6, <1>s, <2>2 DEF Stat
<1>7. CASE Put(p)
  <2> DEFINE body == [ver |-> local[p].ver, size |-> task[p].size]
  <2>1. Propagating /\ task[p] \in Task
    BY <1>7, <1>s DEF Put, Points
  <2>2. Exists(local, p) => body \in Body
    BY <1>k, <2>1, SMTT(60), Z3T(60) DEF Body, Task
  <2>3. Exists(local, p) =>
          /\ [task[p] EXCEPT !.pc = "stored", !.body = body, !.etag = nextEtag] \in Moved
          /\ [task[p] EXCEPT !.pc = "stored", !.body = body] \in Moved
    <3>1. nextEtag \in Nat
      BY DEF TypeOK
    <3> HIDE DEF body
    <3> QED
      BY <2>1, <2>2, <3>1, TaskUpdates, ZenonT(60) DEF Points
  <2> QED
    BY <1>7, <1>f, <2>1, <2>3 DEF Put
<1>8. CASE RecordUpload(p)
  BY <1>8, <1>s DEF RecordUpload, Points
<1>9. CASE delete_local(p)
  BY <1>9, <1>s, <1>f DEF delete_local
<1>10. CASE delete_remote(p)
  BY <1>10, <1>s, <1>f DEF delete_remote
<1> QED
  BY <1>1, <1>2, <1>3, <1>4, <1>5, <1>6, <1>7, <1>8, <1>9, <1>10 DEF FilePropagation

\* What a step of a file task does keeps the types.
LEMMA FileTypes ==
  ASSUME TypeOK, NEW p \in Files, FilePropagation(p)
  PROVE  TypeOK'
<1>p. p \in Path /\ TmpPath(p) \in Path
  BY PathAssumption DEF Files
<1>t. /\ local \in Maps(Body) /\ remote \in Maps(RemoteEntry) /\ journal \in Maps(Row)
      /\ task \in Maps(Task) /\ had_error \in BOOLEAN /\ nextEtag \in Nat /\ stamp \in Nat
      /\ file_statuses \in Maps({"Ok", "Syncing", "Error"})
      /\ faults \in 0..MaxFaults
  BY DEF TypeOK
<1>s. /\ \A op : FileStart(p, op) => Propagating /\ task[p] # None
      /\ \A op, pc : FileStep(p, op, pc) => Propagating /\ task[p] # None
  BY DEF FileStart, FileStep, At
<1>k. /\ task[p] # None => task[p] \in Task
      /\ Exists(local, p) => local[p] \in Body
      /\ Exists(remote, p) => remote[p] \in RemoteEntry
  BY <1>p, <1>t, MapTypes DEF Exists
<1>m. /\ WithDirs(local, Above(p), DirBody) \in Maps(Body)
      /\ \A ds : WithDirs(remote, ds, DirEntry) \in Maps(RemoteEntry)
      /\ Without(remote, p) \in Maps(RemoteEntry) /\ Without(local, p) \in Maps(Body)
  BY <1>p, <1>t, MapTypes, DataTypes
<1>b. \A b \in Body : b.ver \in Nat /\ b.size \in Nat
  BY DEF Body
<1> DEFINE tasked == /\ task' \in Maps(Task) /\ had_error' \in BOOLEAN
                     /\ file_statuses' \in Maps({"Ok", "Syncing", "Error"})
<1>e. tasked
  BY <1>p, TaskTypes, FileMoves DEF Moved
<1>f. Fails(p) => journal' \in Maps(Row)
  BY <1>p, JournalTypes
<1>1. CASE ConflictRename(p)
  <2>1. local' \in Maps(Body) /\ stamp' \in Nat
    <3>1. \A c \in Path : Exists(local, p) =>
            [local EXCEPT ![p] = None, ![c] = local[p]] \in Maps(Body)
      BY <1>p, <1>t, <1>k DEF Maps
    <3> QED
      BY <1>1, <1>p, <1>t, <3>1, SMT DEF ConflictRename, Files
  <2>2. journal' \in Maps(Row) /\ faults' \in 0..MaxFaults
    BY <1>1, <1>t, FaultTypes DEF ConflictRename
  <2> QED
    BY <1>1, <1>s, <1>e, <1>t, <2>1, <2>2, StepTypes DEF ConflictRename
<1>2. CASE Get(p)
  <2>1. local' \in Maps(Body)
    BY <1>2, <1>t, <1>m DEF Get
  <2>2. journal' \in Maps(Row) /\ faults' \in 0..MaxFaults
    BY <1>2, <1>t, FaultTypes DEF Get
  <2> QED
    BY <1>2, <1>s, <1>e, <1>t, <2>1, <2>2, StepTypes DEF Get
<1>3. CASE WriteTmp(p)
  <2>1. task[p] \in Task /\ task[p].body \in Body
    BY <1>3, <1>s, <1>k DEF WriteTmp, Task
  <2>2. \A n \in 0..task[p].body.size : Beginning(task[p].body, n) \in Body
    BY <2>1, SMT DEF Beginning, Empty, Body
  <2>3. local' \in Maps(Body)
    BY <1>3, <1>p, <1>t, <2>1, <2>2, MapTypes, SMT DEF WriteTmp
  <2>4. journal' \in Maps(Row) /\ faults' \in 0..MaxFaults
    BY <1>3, <1>t, FaultTypes DEF WriteTmp
  <2> QED
    BY <1>3, <1>s, <1>e, <1>t, <2>3, <2>4, StepTypes DEF WriteTmp
<1>4. CASE Install(p)
  <2>1. local' \in Maps(Body)
    BY <1>4, <1>p, <1>t, MapTypes DEF Install, Maps
  <2>2. journal' \in Maps(Row) /\ faults' \in 0..MaxFaults
    BY <1>4, <1>t, FaultTypes, SMTT(60), Z3T(60) DEF Install
  <2> QED
    BY <1>4, <1>s, <1>e, <1>t, <2>1, <2>2, StepTypes DEF Install
<1>5. CASE RecordDownload(p)
  <2> DEFINE row == [etag |-> task[p].etag, body |-> task[p].body,
                     size |-> IF Exists(local, p) THEN local[p].size ELSE 0]
  <2>1. task[p] \in Task /\ task[p].body \in Body /\ task[p].etag \in Nat
    BY <1>5, <1>s, <1>k, SMTT(60), Z3T(60) DEF RecordDownload, Task
  <2>2. row \in Row
    BY <1>k, <1>b, <2>1 DEF Row
  <2>3. journal' \in Maps(Row) /\ faults' \in 0..MaxFaults
    BY <1>5, <1>p, <2>2, JournalTypes DEF RecordDownload
  <2> QED
    BY <1>5, <1>s, <1>e, <1>t, <2>3, StepTypes, SMTT(60), Z3T(60) DEF RecordDownload, trees
<1>6. CASE Stat(p)
  BY <1>6, <1>s, <1>e, <1>t, StepTypes DEF Stat, trees
<1>7. CASE Put(p)
  <2> DEFINE body == [ver |-> local[p].ver, size |-> task[p].size]
             stored == [WithDirs(remote, Above(p), DirEntry) EXCEPT
                          ![p] = [body |-> body, etag |-> nextEtag]]
  <2>1. task[p] \in Task /\ task[p].size \in Nat
    BY <1>7, <1>s, <1>k DEF Put, Task
  <2>2. Exists(local, p) => body \in Body
    BY <1>k, <1>b, <2>1 DEF Body
  <2>3. Exists(local, p) => [body |-> body, etag |-> nextEtag] \in RemoteEntry
    <3> HIDE DEF body
    <3> QED
      BY <1>t, <2>2 DEF RemoteEntry
  <2>4. Exists(local, p) => stored \in Maps(RemoteEntry)
    <3> HIDE DEF body
    <3> QED
      BY <1>p, <1>m, <2>3, MapTypes
  <2>5. remote' \in Maps(RemoteEntry) /\ nextEtag' \in Nat
    BY <1>7, <1>t, <1>m, <2>4, SMT DEF Put
  <2>6. journal' \in Maps(Row) /\ faults' \in 0..MaxFaults
    BY <1>7, <1>t, FaultTypes DEF Put
  <2> QED
    BY <1>7, <1>s, <1>e, <1>t, <2>5, <2>6, StepTypes DEF Put
<1>8. CASE RecordUpload(p)
  <2> DEFINE row == [etag |-> task[p].etag, size |-> task[p].size, body |-> task[p].body]
  <2>1. task[p] \in Task
    BY <1>8, <1>s, <1>k DEF RecordUpload
  <2>2. row \in Row
    BY <2>1 DEF Row, Task
  <2>3. journal' \in Maps(Row) /\ faults' \in 0..MaxFaults
    BY <1>8, <1>p, <2>2, JournalTypes DEF RecordUpload
  <2> QED
    BY <1>8, <1>s, <1>e, <1>t, <2>3, StepTypes, SMTT(60), Z3T(60) DEF RecordUpload, trees
<1>9. CASE delete_local(p)
  <2>1. journal' \in Maps(Row) /\ faults' \in 0..MaxFaults
    BY <1>9, <1>f, <1>p, JournalTypes, FaultTypes DEF delete_local
  <2>2. local' \in Maps(Body)
    BY <1>9, <1>t, <1>m DEF delete_local
  <2> QED
    BY <1>9, <1>s, <1>e, <1>t, <2>1, <2>2, StepTypes DEF delete_local
<1>10. CASE delete_remote(p)
  <2>1. journal' \in Maps(Row) /\ faults' \in 0..MaxFaults
    BY <1>10, <1>f, <1>p, JournalTypes, FaultTypes DEF delete_remote
  <2>2. remote' \in Maps(RemoteEntry)
    BY <1>10, <1>t, <1>m DEF delete_remote
  <2> QED
    BY <1>10, <1>s, <1>e, <1>t, <2>1, <2>2, StepTypes DEF delete_remote
<1> QED
  BY <1>1, <1>2, <1>3, <1>4, <1>5, <1>6, <1>7, <1>8, <1>9, <1>10 DEF FilePropagation

\* An edit by the user or by another client keeps the types.
LEMMA EnvironmentTypes == ASSUME TypeOK, Environment PROVE TypeOK'
<1>p. PICK p \in UserPaths : UserWrite(p) \/ UserDelete(p) \/ RemoteWrite(p) \/ RemoteDelete(p)
  BY DEF Environment
<1>q. p \in Path
  BY PathAssumption
<1>e. /\ Edit /\ edits' \in 1..MaxEdits /\ edits' \in 0..MaxEdits
      /\ Written(edits') \in Body
  <2>1. Edit
    BY <1>p DEF UserWrite, UserDelete, RemoteWrite, RemoteDelete
  <2>2. edits' \in 1..MaxEdits /\ edits' \in 0..MaxEdits
    <3>1. edits \in 0..MaxEdits
      BY DEF TypeOK
    <3> QED
      BY <2>1, <3>1, BoundTypes, SMT DEF Edit
  <2>3. SizeOf(edits') \in Nat
    BY <2>2, ConfigAssumption
  <2> QED
    BY <2>1, <2>2, <2>3, SMT DEF Written, Body
<1>s. /\ journal' \in Maps(Row) /\ task' \in Maps(Task) /\ had_error' \in BOOLEAN
      /\ phase' \in {"idle", "discovering", "propagating"}
      /\ found' \in [loc : Maps(Body) \cup {None}, rem : Maps(RemoteEntry) \cup {None}]
      /\ status' \in {"Idle", "Syncing", "Error"}
      /\ file_statuses' \in Maps({"Ok", "Syncing", "Error"})
      /\ stamp' \in Nat /\ faults' \in 0..MaxFaults /\ crashes' \in 0..MaxCrashes
  BY <1>e DEF Edit, TypeOK, run, shown
<1>w. wanted' \subseteq Nat /\ created' \subseteq Nat
  <2>1. ASSUME NEW rs, Wants(p, rs) PROVE wanted' \subseteq Nat /\ created' \subseteq Nat
    <3>1. wanted \subseteq Nat /\ created \subseteq Nat /\ {edits'} \subseteq Nat
      BY <1>e, BoundTypes, SMT DEF TypeOK
    <3> QED
      BY <2>1, <3>1, ZenonT(60) DEF Wants
  <2> QED
    BY <1>p, <2>1 DEF UserWrite, UserDelete, RemoteWrite, RemoteDelete, TypeOK
<1>t. local \in Maps(Body) /\ remote \in Maps(RemoteEntry) /\ nextEtag \in Nat
  BY DEF TypeOK
<1>l. local' \in Maps(Body)
  BY <1>p, <1>q, <1>e, <1>t, MapTypes, DataTypes, SMT
     DEF UserWrite, UserDelete, RemoteWrite, RemoteDelete
<1>r. remote' \in Maps(RemoteEntry) /\ nextEtag' \in Nat
  <2>1. [body |-> Written(edits'), etag |-> nextEtag] \in RemoteEntry
    BY <1>e, <1>t DEF RemoteEntry
  <2>2. CASE RemoteWrite(p)
    <3> DEFINE new == IF p \in Dirs THEN DirEntry
                      ELSE [body |-> Written(edits'), etag |-> nextEtag]
    <3>1. new \in RemoteEntry
      BY <2>1, DataTypes
    <3>2. remote' = [remote EXCEPT ![p] = new] /\ nextEtag' = nextEtag + 1
      BY <2>2 DEF RemoteWrite
    <3>3. \A v \in RemoteEntry : [remote EXCEPT ![p] = v] \in Maps(RemoteEntry)
      BY <1>q, <1>t, MapTypes
    <3>4. [remote EXCEPT ![p] = new] \in Maps(RemoteEntry)
      BY <3>1, <3>3
    <3> QED
      BY <1>t, <3>2, <3>4, SMT
  <2>3. CASE RemoteDelete(p)
    BY <1>q, <1>t, <2>3, MapTypes DEF RemoteDelete
  <2> QED
    BY <1>p, <1>t, <2>2, <2>3 DEF UserWrite, UserDelete
<1> QED
  BY <1>e, <1>s, <1>w, <1>l, <1>r DEF TypeOK

\* reconcile gives a path no task or a queued one.
LEMMA QueuedTypes ==
  \A p \in Path : \A unread : Instruction(p, unread) # "Ignore" =>
    Queued(Instruction(p, unread)) \in Task
<1> SUFFICES ASSUME NEW p \in Path, NEW unread, Instruction(p, unread) # "Ignore"
             PROVE  Queued(Instruction(p, unread)) \in Task
  OBVIOUS
<1>1. Instruction(p, unread) \in Instructions
  BY ReconcileType, ConfigAssumption DEF Instruction
<1> QED
  BY <1>1, DataTypes

\* No step of a run, of its environment, or a crash breaks the types.
LEMMA NextType == TypeOK /\ [Next]_vars => TypeOK'
<1> SUFFICES ASSUME TypeOK, [Next]_vars PROVE TypeOK'
  OBVIOUS
<1>1. CASE Environment
  BY <1>1, EnvironmentTypes
<1>2. CASE Crash
  <2>1. /\ task' \in Maps(Task) /\ file_statuses' \in Maps({"Ok", "Syncing", "Error"})
    BY <1>2, NothingType DEF Crash
  <2>2. found' \in [loc : Maps(Body) \cup {None}, rem : Maps(RemoteEntry) \cup {None}]
    BY <1>2 DEF Crash, NotFound
  <2>3. crashes' \in 0..MaxCrashes
    BY <1>2, BoundTypes, SMT DEF Crash, TypeOK
  <2>4. had_error' \in BOOLEAN /\ phase' = "idle" /\ status' = "Idle"
    BY <1>2, ZenonT(60) DEF Crash
  <2> QED
    BY <1>2, <2>1, <2>2, <2>3, <2>4 DEF Crash, TypeOK, trees, history
<1>3. CASE StartRun
  BY <1>3 DEF StartRun, TypeOK, trees, history, budgets
<1>4. CASE AbortRun
  <2>1. found' \in [loc : Maps(Body) \cup {None}, rem : Maps(RemoteEntry) \cup {None}]
    BY <1>4 DEF AbortRun, NotFound
  <2> QED
    BY <1>4, <2>1, FaultTypes DEF AbortRun, TypeOK, trees, shown, history
<1>5. CASE discover_local
  <2>1. found' \in [loc : Maps(Body) \cup {None}, rem : Maps(RemoteEntry) \cup {None}]
    BY <1>5 DEF discover_local, TypeOK
  <2> QED
    BY <1>5, <2>1 DEF discover_local, TypeOK, trees, shown, history, budgets
<1>6. CASE discover_remote
  <2>1. found' \in [loc : Maps(Body) \cup {None}, rem : Maps(RemoteEntry) \cup {None}]
    BY <1>6 DEF discover_remote, TypeOK
  <2> QED
    BY <1>6, <2>1 DEF discover_remote, TypeOK, trees, shown, history, budgets
<1>7. CASE reconcile_all
  <2>1. task' \in Maps(Task)
    BY <1>7, QueuedTypes DEF reconcile_all, Maps
  <2>2. found' \in [loc : Maps(Body) \cup {None}, rem : Maps(RemoteEntry) \cup {None}]
    BY <1>7 DEF reconcile_all, NotFound
  <2>3. faults' \in 0..MaxFaults
    BY <1>7, FaultTypes DEF reconcile_all
  <2>4. phase' = "propagating" /\ had_error' = FALSE
    BY <1>7 DEF reconcile_all
  <2> QED
    BY <1>7, <2>1, <2>2, <2>3, <2>4, ZenonT(60) DEF reconcile_all, TypeOK, trees, shown, history
<1>8. CASE \E d \in Dirs : DirPropagation(d)
  BY <1>8, DirTypes
<1>9. CASE \E p \in Files : FilePropagation(p)
  BY <1>9, FileTypes
<1>10. CASE FinishRun
  <2>1. /\ phase' \in {"idle", "discovering", "propagating"} /\ had_error' \in BOOLEAN
        /\ status' \in {"Idle", "Syncing", "Error"}
    BY <1>10, ZenonT(60) DEF FinishRun
  <2> QED
    BY <1>10, <2>1 DEF FinishRun, TypeOK, trees, history, budgets
<1>11. CASE UNCHANGED vars
  BY <1>11 DEF vars, TypeOK
<1> QED
  BY <1>1, <1>2, <1>3, <1>4, <1>5, <1>6, <1>7, <1>8, <1>9, <1>10, <1>11 DEF Next, run_sync

\* The trees, the journal and the state of run_sync with its tasks keep their
\* types, for any folder, configuration and bounds.
THEOREM TypeCorrect == Spec => []TypeOK
BY InitType, NextType, PTL DEF Spec

(****************************************************************************)
(* Statuses and permits. Between runs no path has a task: without that,     *)
(* reconcile_all could drop a task that is shown as Syncing.                *)
(****************************************************************************)
IdleHasNoTasks == phase # "propagating" => task = Nothing

TaskInv == TypeOK /\ IdleHasNoTasks /\ StatusTracksTask

\* The statuses after a step that ends or moves one task.
LEMMA TaskSteps ==
  ASSUME TaskInv, NEW p \in Path,
         \/ \E st \in {"Ok", "Error", None} : Ends(p, st)
         \/ \E t \in Moved : Goes(p, t) /\ p \in Files
  PROVE  StatusTracksTask'
<1>t. /\ task \in Maps(Task) /\ file_statuses \in Maps({"Ok", "Syncing", "Error"})
      /\ StatusTracksTask
  BY DEF TaskInv, TypeOK
<1>1. ASSUME NEW st \in {"Ok", "Error", None}, Ends(p, st)
      PROVE  StatusTracksTask'
  <2>1. Active' = Active \ {p}
    BY <1>1, <1>t DEF Active, Ends, Files, Maps
  <2>2. st # "Syncing"
    BY <1>1, NoneAssumption
  <2>3. \A q \in Path : file_statuses'[q] = IF q = p THEN st ELSE file_statuses[q]
    BY <1>1, <1>t DEF Ends, Maps
  <2> QED
    BY <1>t, <2>1, <2>2, <2>3 DEF StatusTracksTask
<1>2. ASSUME NEW t \in Moved, Goes(p, t), p \in Files
      PROVE  StatusTracksTask'
  <2>1. t # None /\ t.pc # "queued"
    BY <1>2, NoneAssumption DEF Moved
  <2>2. Active' = Active \cup {p}
    BY <1>2, <1>t, <2>1, SMT DEF Active, Goes, Files, Maps
  <2>3. \A q \in Path : file_statuses'[q] = IF q = p THEN "Syncing" ELSE file_statuses[q]
    BY <1>2, <1>t DEF Goes, Maps
  <2> QED
    BY <1>t, <2>2, <2>3 DEF StatusTracksTask
<1> QED
  BY <1>1, <1>2

\* Where no task is active and no status says Syncing, the statuses are exact.
LEMMA NoneActive ==
  ASSUME Active' = {}, \A p \in Path : file_statuses'[p] # "Syncing"
  PROVE  StatusTracksTask'
BY DEF StatusTracksTask

\* A folder before its first run has no tasks.
LEMMA TaskInit == Init => TaskInv
<1> SUFFICES ASSUME Init PROVE TaskInv
  OBVIOUS
<1>1. Active = {} /\ task = Nothing /\ \A p \in Path : file_statuses[p] # "Syncing"
  BY NoneAssumption DEF Init, Active, Nothing, Files
<1> QED
  BY <1>1, InitType DEF TaskInv, IdleHasNoTasks, StatusTracksTask

\* Statuses follow the tasks from one state to the next of run_sync, of its
\* environment, and across a crash.
LEMMA TaskNext == TaskInv /\ [Next]_vars => TaskInv'
<1> SUFFICES ASSUME TaskInv, [Next]_vars PROVE TaskInv'
  OBVIOUS
<1> SUFFICES IdleHasNoTasks' /\ StatusTracksTask'
  BY NextType DEF TaskInv
<1>i. TypeOK /\ IdleHasNoTasks /\ StatusTracksTask
  BY DEF TaskInv
<1>u. ASSUME UNCHANGED <<task, file_statuses>>, phase' = "propagating" => phase = phase',
             phase' # "propagating" => task = Nothing
      PROVE  IdleHasNoTasks' /\ StatusTracksTask'
  BY <1>i, <1>u DEF IdleHasNoTasks, StatusTracksTask, Active
<1>1. CASE Environment
  <2>1. Edit
    BY <1>1 DEF Environment, UserWrite, UserDelete, RemoteWrite, RemoteDelete
  <2> QED
    BY <2>1, <1>i, <1>u DEF Edit, run, shown, IdleHasNoTasks
<1>2. CASE Crash
  <2>1. Active' = {} /\ task' = Nothing /\ \A p \in Path : file_statuses'[p] # "Syncing"
    BY <1>2, NoneAssumption DEF Crash, Active, Nothing, Files
  <2> QED
    BY <2>1, NoneActive DEF IdleHasNoTasks
<1>3. CASE StartRun
  BY <1>3, <1>i, <1>u DEF StartRun, IdleHasNoTasks
<1>4. CASE AbortRun
  BY <1>4, <1>i, <1>u DEF AbortRun, IdleHasNoTasks, shown
<1>5. CASE discover_local
  BY <1>5, <1>i, <1>u DEF discover_local, IdleHasNoTasks, shown
<1>6. CASE discover_remote
  BY <1>6, <1>i, <1>u DEF discover_remote, IdleHasNoTasks, shown
<1>7. CASE reconcile_all
  <2>1. Active = {}
    BY <1>7, <1>i DEF reconcile_all, IdleHasNoTasks, Active, Nothing, Files
  <2>2. \A p \in Path : file_statuses'[p] # "Syncing"
    BY <1>7, <1>i, <2>1, SMTT(60), Z3T(60) DEF reconcile_all, shown, StatusTracksTask
  <2>3. Active' = {}
    BY <1>7, SMT DEF reconcile_all, Active, Queued, Files
  <2> QED
    BY <1>7, <2>2, <2>3, NoneActive DEF IdleHasNoTasks, reconcile_all
<1>8. ASSUME NEW d \in Dirs, DirPropagation(d)
      PROVE  IdleHasNoTasks' /\ StatusTracksTask'
  <2>1. Propagating
    BY <1>8 DEF DirPropagation, DirUpload, DirDownload, DirDeleteRemote, DirDeleteLocal,
                DirConflict, DirStep
  <2>2. IdleHasNoTasks'
    BY <2>1 DEF Propagating, IdleHasNoTasks
  <2>3. CASE DirConflict(d)
    <3>1. Active' = Active
      BY <1>i, <2>3 DEF DirConflict, Active, Files, TypeOK, Maps
    <3> QED
      BY <1>i, <2>2, <2>3, <3>1 DEF DirConflict, StatusTracksTask
  <2>4. CASE ~DirConflict(d)
    <3>1. \E st \in {"Ok", "Error", None} : Ends(d, st)
      BY <1>8, <2>4 DEF DirPropagation, DirUpload, DirDownload, DirDeleteRemote,
                        DirDeleteLocal, Fails
    <3> QED
      BY <2>2, <3>1, TaskSteps, PathAssumption
  <2> QED
    BY <2>3, <2>4
<1>9. ASSUME NEW p \in Files, FilePropagation(p)
      PROVE  IdleHasNoTasks' /\ StatusTracksTask'
  <2>1. IdleHasNoTasks'
    BY <1>9, <1>i, FileMoves DEF Propagating, IdleHasNoTasks
  <2> QED
    BY <1>9, <1>i, <2>1, FileMoves, TaskSteps DEF Files
<1>10. CASE FinishRun
  BY <1>10, <1>u DEF FinishRun
<1>11. CASE UNCHANGED vars
  BY <1>11, <1>i, <1>u DEF vars, IdleHasNoTasks
<1> QED
  BY <1>1, <1>2, <1>3, <1>4, <1>5, <1>6, <1>7, <1>8, <1>9, <1>10, <1>11 DEF Next, run_sync

(****************************************************************************)
(* The journal and the server. A row is written from a task long after the  *)
(* server answered it, so the invariant follows the pair of etag and body   *)
(* from the server through the task to the row. It stays true when the      *)
(* server changes in between because the server never issues an etag twice, *)
(* and for a reply without an ETag because no file has the empty one.       *)
(****************************************************************************)
Pairs(x, g) == Exists(remote, g) /\ x.etag = remote[g].etag => x.body = remote[g].body

FileEtags(g) ==
  /\ Exists(remote, g) => NoEtag < remote[g].etag /\ remote[g].etag < nextEtag
  /\ journal[g] # None => journal[g].etag < nextEtag /\ Pairs(journal[g], g)
  /\ task[g] # None =>
       /\ task[g].etag < nextEtag /\ Pairs(task[g], g)
       /\ task[g].pc \in {"queued", "renamed", "stated"} => task[g].etag = NoEtag

EtagInv == TypeOK /\ nextEtag > DirEtag /\ \A g \in Files : FileEtags(g)

\* Creating directories changes no file, a removal changes a file only by
\* removing it.
LEMMA TreeFacts ==
  ASSUME NEW g \in Files, NEW m
  PROVE  /\ \A p \in Path : Without(m, p)[g] \in {m[g], None}
         /\ \A ds \in SUBSET Dirs : \A v : WithDirs(m, ds, v)[g] = m[g]
BY DEF Without, WithDirs, Files

\* The numbers a typed state has at a file.
LEMMA EtagTypes ==
  ASSUME TypeOK, NEW g \in Files
  PROVE  /\ nextEtag \in Nat
         /\ Exists(remote, g) => remote[g].etag \in Nat
         /\ journal[g] # None => journal[g].etag \in Nat
         /\ task[g] # None => task[g] \in Task /\ task[g].etag \in Nat
<1>1. g \in Path
  BY DEF Files
<1>2. /\ Exists(remote, g) => remote[g] \in RemoteEntry
      /\ journal[g] # None => journal[g] \in Row
      /\ task[g] # None => task[g] \in Task
  BY <1>1, MapTypes, SMTT(60), Z3T(60) DEF TypeOK, Exists
<1> QED
  BY <1>2 DEF TypeOK, RemoteEntry, Row, Task

\* What only removes at a file keeps its pairs.
LEMMA EtagsKept ==
  ASSUME TypeOK, NEW g \in Files, FileEtags(g),
         nextEtag' \in {nextEtag, nextEtag + 1}, remote'[g] \in {remote[g], None},
         journal'[g] \in {journal[g], None}, task'[g] \in {task[g], None}
  PROVE  FileEtags(g)'
BY EtagTypes, SMTT(60), Z3T(60) DEF FileEtags, Pairs, Exists

\* A new etag pairs with nothing recorded before, and a row copies its task.
LEMMA EtagsFresh ==
  ASSUME TypeOK, NEW g \in Files, FileEtags(g), nextEtag > DirEtag,
         nextEtag' = nextEtag + 1,
         remote'[g] # None, remote'[g].etag = nextEtag,
         journal'[g] = journal[g],
         \/ task'[g] \in {task[g], None}
         \/ /\ task'[g].pc = "stored" /\ task'[g].body = remote'[g].body
            /\ task'[g].etag = nextEtag
         \/ /\ task'[g].pc = "stored" /\ task'[g].etag = NoEtag
  PROVE  FileEtags(g)'
BY EtagTypes, SMTT(60), Z3T(60) DEF FileEtags, Pairs, Exists, NoEtag, DirEtag

\* A task that moves on with the pair it has, with the one the server has, or
\* with none.
LEMMA EtagsMoved ==
  ASSUME TypeOK, NEW g \in Files, FileEtags(g), task[g] # None,
         nextEtag > DirEtag, nextEtag' = nextEtag,
         remote'[g] = remote[g], journal'[g] = journal[g],
         \/ /\ task'[g].etag = task[g].etag /\ task'[g].body = task[g].body
            /\ task'[g].pc \in {"queued", "renamed", "stated"} =>
                 task[g].pc \in {"queued", "renamed", "stated"}
         \/ /\ Exists(remote, g) /\ task'[g].pc = "got"
            /\ task'[g].etag = remote[g].etag /\ task'[g].body = remote[g].body
         \/ task'[g].etag = NoEtag
  PROVE  FileEtags(g)'
BY EtagTypes, SMTT(60), Z3T(60) DEF FileEtags, Pairs, Exists, NoEtag, DirEtag

\* A row takes over the pair of its task, or is not written.
LEMMA EtagsRecorded ==
  ASSUME TypeOK, NEW g \in Files, FileEtags(g), task[g] # None,
         nextEtag' = nextEtag, remote'[g] = remote[g], task'[g] = None,
         \/ journal'[g] = journal[g]
         \/ journal'[g].etag = task[g].etag /\ journal'[g].body = task[g].body
  PROVE  FileEtags(g)'
BY EtagTypes DEF FileEtags, Pairs, Exists

\* A step of a file task keeps the pairs of its own file.
LEMMA OwnEtags ==
  ASSUME TypeOK, NEW g \in Files, FileEtags(g), nextEtag > DirEtag, FilePropagation(g)
  PROVE  FileEtags(g)'
<1>g. /\ g \in Path /\ DOMAIN task = Path /\ DOMAIN journal = Path /\ DOMAIN remote = Path
      /\ Above(g) \in SUBSET Dirs
  BY PathAssumption DEF Files, TypeOK, Maps
<1>e. \A st : Ends(g, st) => task'[g] = None
  BY <1>g DEF Ends
<1>m. \A t : Goes(g, t) => task'[g] = t
  BY <1>g DEF Goes
<1>f. Fails(g) => task'[g] = None /\ journal' = journal
  BY <1>e DEF Fails
<1>r. \A row : Records(g, row) => journal'[g] \in {journal[g], row}
  BY <1>g DEF Records
<1>t. /\ \A op : FileStart(g, op) => task[g] \in Task /\ task[g].pc = "queued"
      /\ \A op, pc : FileStep(g, op, pc) => task[g] \in Task /\ task[g].pc = pc
      /\ \A op : FileStart(g, op) => task[g] # None
      /\ \A op, pc : FileStep(g, op, pc) => task[g] # None
  BY EtagTypes DEF FileStart, FileStep, At
<1>1. CASE ConflictRename(g)
  <2> DEFINE t == [task[g] EXCEPT !.pc = "renamed"]
  <2>1. /\ task[g] \in Task /\ task[g].pc = "queued" /\ task[g] # None
        /\ nextEtag' = nextEtag /\ remote' = remote /\ journal' = journal
    BY <1>1, <1>t DEF ConflictRename
  <2>2. task'[g] = None \/ task'[g] = t
    BY <1>1, <1>m, <1>f DEF ConflictRename
  <2>3. t.etag = task[g].etag /\ t.body = task[g].body
    BY <2>1 DEF Task
  <2> QED
    BY <2>1, <2>2, <2>3, EtagsKept, EtagsMoved, ZenonT(60)
<1>2. CASE Get(g)
  <2> DEFINE t == [task[g] EXCEPT !.pc = "got", !.body = remote[g].body,
                                  !.etag = remote[g].etag]
             u == [task[g] EXCEPT !.pc = "got", !.body = remote[g].body]
  <2>1. /\ task[g] \in Task /\ task[g].pc \in {"queued", "renamed"} /\ task[g] # None
        /\ nextEtag' = nextEtag /\ remote' = remote /\ journal' = journal
    BY <1>2, <1>t DEF Get
  <2>2. task'[g] = None \/ (Exists(remote, g) /\ task'[g] \in {t, u})
    BY <1>2, <1>m, <1>f DEF Get
  <2>3. /\ t.pc = "got" /\ t.etag = remote[g].etag /\ t.body = remote[g].body
        /\ u.etag = task[g].etag
    BY <2>1 DEF Task
  <2>4. task[g].etag = NoEtag
    BY <2>1 DEF FileEtags
  <2> HIDE DEF t, u
  <2>5. CASE task'[g] = None
    BY <2>1, <2>5, EtagsKept, SMTT(60), Z3T(60)
  <2>6. CASE task'[g] = t /\ Exists(remote, g)
    BY <2>1, <2>3, <2>6, EtagsMoved, SMTT(60), Z3T(60)
  <2>7. CASE task'[g] = u
    BY <2>1, <2>3, <2>4, <2>7, EtagsMoved
  <2> QED
    BY <2>2, <2>5, <2>6, <2>7
<1>3. CASE WriteTmp(g)
  <2> DEFINE t == [task[g] EXCEPT !.pc = "written"]
  <2>1. /\ task[g] \in Task /\ task[g] # None
        /\ nextEtag' = nextEtag /\ remote' = remote /\ journal' = journal
    BY <1>3, <1>t DEF WriteTmp
  <2>2. task'[g] = None \/ task'[g] = t
    BY <1>3, <1>m, <1>f DEF WriteTmp
  <2>3. t.etag = task[g].etag /\ t.body = task[g].body /\ t.pc = "written"
    BY <2>1 DEF Task
  <2> QED
    BY <2>1, <2>2, <2>3, EtagsKept, EtagsMoved, ZenonT(60)
<1>4. CASE Install(g)
  <2> DEFINE t == [task[g] EXCEPT !.pc = "installed"]
  <2>1. /\ task[g] \in Task /\ task[g] # None
        /\ nextEtag' = nextEtag /\ remote' = remote /\ journal' = journal
    BY <1>4, <1>t DEF Install
  <2>2. task'[g] = None \/ task'[g] = t
    BY <1>4, <1>m, <1>f DEF Install
  <2>3. t.etag = task[g].etag /\ t.body = task[g].body /\ t.pc = "installed"
    BY <2>1 DEF Task
  <2> QED
    BY <2>1, <2>2, <2>3, EtagsKept, EtagsMoved, ZenonT(60)
<1>5. CASE RecordDownload(g)
  <2> DEFINE row == [etag |-> task[g].etag, body |-> task[g].body,
                     size |-> IF Exists(local, g) THEN local[g].size ELSE 0]
  <2>1. /\ task[g] # None /\ nextEtag' = nextEtag /\ remote' = remote /\ task'[g] = None
        /\ journal'[g] \in {journal[g], row}
    BY <1>5, <1>e, <1>r, <1>t DEF RecordDownload, trees
  <2> QED
    BY <2>1, EtagsRecorded, SMT
<1>6. CASE Stat(g)
  <2> DEFINE t == [task[g] EXCEPT !.pc = "stated",
                     !.size = IF Exists(local, g) THEN local[g].size ELSE 0]
  <2>1. /\ task[g] \in Task /\ task[g].pc = "queued" /\ task[g] # None
        /\ nextEtag' = nextEtag /\ remote' = remote /\ journal' = journal
        /\ task'[g] = t
    BY <1>6, <1>m, <1>t DEF Stat, trees
  <2>2. t.etag = task[g].etag /\ t.body = task[g].body
    BY <2>1 DEF Task
  <2> QED
    BY <2>1, <2>2, EtagsMoved, ZenonT(60)
<1>7. CASE Put(g)
  <2> DEFINE body == [ver |-> local[g].ver, size |-> task[g].size]
             t == [task[g] EXCEPT !.pc = "stored", !.body = body, !.etag = nextEtag]
             u == [task[g] EXCEPT !.pc = "stored", !.body = body]
  <2>1. /\ task[g] \in Task /\ task[g].pc = "stated" /\ task[g] # None /\ journal' = journal
    BY <1>7, <1>t, SMTT(60), Z3T(60) DEF Put
  <2>2. ASSUME NEW ds \in SUBSET Above(g), nextEtag' = nextEtag, Fails(g),
               remote' = remote \/ remote' = WithDirs(remote, ds, DirEntry)
        PROVE  FileEtags(g)'
    <3>1. remote'[g] = remote[g]
      BY <2>2, <1>g, TreeFacts, SMTT(60), Z3T(60)
    <3> QED
      BY <2>1, <2>2, <3>1, <1>f, EtagsKept
  <2>3. CASE /\ remote' = [WithDirs(remote, Above(g), DirEntry) EXCEPT
                             ![g] = [body |-> body, etag |-> nextEtag]]
             /\ nextEtag' = nextEtag + 1
             /\ Goes(g, t) \/ Goes(g, u) \/ Fails(g)
    <3>1. task'[g] = None \/ task'[g] = t \/ task'[g] = u
      BY <2>3, <1>m, <1>f
    <3>2. remote'[g] = [body |-> body, etag |-> nextEtag]
      BY <2>3, <1>g DEF WithDirs
    <3>3. remote'[g].etag = nextEtag /\ remote'[g].body = body /\ remote'[g] # None
      <4>1. remote'[g] \in RemoteEntry
        <5>1. body \in Body
          <6>1. Exists(local, g)
            BY <1>7, <2>3, <1>g, EtagTypes, SMT DEF Put
          <6>2. local[g] \in Body
            BY <6>1, <1>g, MapTypes DEF TypeOK
          <6> QED
            BY <6>2, <2>1 DEF Body, Task
        <5> HIDE DEF body
        <5> QED
          BY <5>1, <3>2, EtagTypes, SMT DEF RemoteEntry
      <4> QED
        BY <4>1, <3>2, NoneAssumption, SMTT(60), Z3T(60)
    <3>4. /\ t.pc = "stored" /\ t.body = body /\ t.etag = nextEtag
          /\ u.pc = "stored" /\ u.etag = task[g].etag
      BY <2>1 DEF Task
    <3>5. task[g].etag = NoEtag
      BY <2>1, SMTT(60), Z3T(60) DEF FileEtags
    <3> HIDE DEF body, t, u
    <3> QED
      BY <2>1, <2>3, <3>1, <3>3, <3>4, <3>5, EtagsFresh
  <2> QED
    BY <1>7, <2>2, <2>3 DEF Put
<1>8. CASE RecordUpload(g)
  <2> DEFINE row == [etag |-> task[g].etag, size |-> task[g].size, body |-> task[g].body]
  <2>1. /\ task[g] # None /\ nextEtag' = nextEtag /\ remote' = remote /\ task'[g] = None
        /\ journal'[g] \in {journal[g], row}
    BY <1>8, <1>e, <1>r, <1>t DEF RecordUpload, trees
  <2> QED
    BY <2>1, EtagsRecorded, SMTT(60), Z3T(60)
<1>9. CASE delete_local(g)
  <2>1. /\ nextEtag' = nextEtag /\ remote' = remote /\ task'[g] = None
        /\ journal'[g] \in {journal[g], None}
    BY <1>9, <1>e, <1>f, <1>r, SMTT(60), Z3T(60) DEF delete_local
  <2> QED
    BY <2>1, EtagsKept, SMTT(60), Z3T(60)
<1>10. CASE delete_remote(g)
  <2>1. /\ nextEtag' = nextEtag /\ task'[g] = None /\ journal'[g] \in {journal[g], None}
        /\ remote' \in {remote, Without(remote, g)}
    BY <1>10, <1>e, <1>f, <1>r, SMTT(60), Z3T(60) DEF delete_remote
  <2>2. remote'[g] \in {remote[g], None}
    BY <2>1, <1>g, TreeFacts
  <2> QED
    BY <2>1, <2>2, EtagsKept, SMTT(60), Z3T(60)
<1> QED
  BY <1>1, <1>2, <1>3, <1>4, <1>5, <1>6, <1>7, <1>8, <1>9, <1>10, SMTT(60), Z3T(60) DEF FilePropagation

\* A step of a file task leaves the pairs of other files alone.
LEMMA OtherEtags ==
  ASSUME TypeOK, NEW p \in Files, FilePropagation(p),
         NEW g \in Files, g # p, FileEtags(g)
  PROVE  FileEtags(g)'
<1>g. /\ g \in Path /\ p \in Path
      /\ DOMAIN task = Path /\ DOMAIN journal = Path /\ DOMAIN remote = Path
      /\ Above(p) \in SUBSET Dirs
  BY PathAssumption, SMTT(60), Z3T(60) DEF Files, TypeOK, Maps
<1>t. task'[g] = task[g]
  BY <1>g, FileMoves, SMTT(60), Z3T(60) DEF Ends, Goes
<1>j. journal'[g] = journal[g]
  <2>1. \A row : Records(p, row) => journal'[g] = journal[g]
    BY <1>g DEF Records
  <2>2. Fails(p) => journal'[g] = journal[g]
    BY SMTT(60), Z3T(60) DEF Fails
  <2> QED
    BY <2>1, <2>2 DEF FilePropagation, ConflictRename, Get, WriteTmp, Install,
       RecordDownload, Stat, Put, RecordUpload, delete_local, delete_remote
<1>1. CASE Put(p)
  <2> DEFINE new == [body |-> [ver |-> local[p].ver, size |-> task[p].size],
                     etag |-> nextEtag]
  <2>1. /\ nextEtag' \in {nextEtag, nextEtag + 1}
        /\ \/ remote' = remote
           \/ \E ds \in SUBSET Above(p) : remote' = WithDirs(remote, ds, DirEntry)
           \/ remote' = [WithDirs(remote, Above(p), DirEntry) EXCEPT ![p] = new]
    BY <1>1 DEF Put
  <2> HIDE DEF new
  <2>2. [WithDirs(remote, Above(p), DirEntry) EXCEPT ![p] = new][g]
          = WithDirs(remote, Above(p), DirEntry)[g]
    BY <1>g, SMTT(60), Z3T(60) DEF WithDirs
  <2>3. \A ds \in SUBSET Above(p) : WithDirs(remote, ds, DirEntry)[g] = remote[g]
    <3>1. \A ds \in SUBSET Above(p) : ds \in SUBSET Dirs
      BY <1>g
    <3> QED
      BY <3>1, TreeFacts
  <2>4. remote'[g] = remote[g]
    BY <2>1, <2>2, <2>3
  <2> QED
    BY <1>t, <1>j, <2>1, <2>4, EtagsKept
<1>2. CASE delete_remote(p)
  <2>1. nextEtag' = nextEtag /\ remote' \in {remote, Without(remote, p)}
    BY <1>2 DEF delete_remote
  <2>2. remote'[g] \in {remote[g], None}
    BY <1>g, <2>1, TreeFacts
  <2> QED
    BY <1>t, <1>j, <2>1, <2>2, EtagsKept
<1>3. CASE ~Put(p) /\ ~delete_remote(p)
  <2>1. nextEtag' = nextEtag /\ remote' = remote
    BY <1>3 DEF FilePropagation, ConflictRename, Get, WriteTmp, Install,
                RecordDownload, Stat, RecordUpload, delete_local, trees
  <2> QED
    BY <1>t, <1>j, <2>1, EtagsKept
<1> QED
  BY <1>1, <1>2, <1>3, SMTT(60), Z3T(60)

\* A directory instruction leaves the pairs of files alone.
LEMMA DirEtags ==
  ASSUME TypeOK, NEW d \in Dirs, DirPropagation(d), NEW g \in Files, FileEtags(g)
  PROVE  FileEtags(g)'
<1>g. /\ g \in Path /\ d \in Path /\ g # d
      /\ DOMAIN task = Path /\ DOMAIN journal = Path /\ DOMAIN remote = Path
  BY PathAssumption DEF Files, TypeOK, Maps
<1>e. \A st : Ends(d, st) => task'[g] = task[g]
  BY <1>g DEF Ends
<1>f. Fails(d) => task'[g] = task[g] /\ journal'[g] = journal[g]
  BY <1>e DEF Fails
<1>r. \A row : Records(d, row) => journal'[g] = journal[g]
  BY <1>g DEF Records
<1>m. /\ WithDirs(remote, {d}, DirEntry)[g] = remote[g]
      /\ Without(remote, d)[g] \in {remote[g], None}
  BY <1>g, TreeFacts, SMT
<1>1. nextEtag' = nextEtag
  BY SMTT(60), Z3T(60) DEF DirPropagation, DirUpload, DirDownload, DirDeleteRemote, DirDeleteLocal,
         DirConflict, DirStep
<1>2. task'[g] = task[g] /\ journal'[g] = journal[g]
  BY <1>g, <1>e, <1>f, <1>r
     DEF DirPropagation, DirUpload, DirDownload, DirDeleteRemote, DirDeleteLocal, DirConflict
<1>3. remote'[g] \in {remote[g], None}
  BY <1>m
     DEF DirPropagation, DirUpload, DirDownload, DirDeleteRemote, DirDeleteLocal, DirConflict,
         trees
<1> QED
  BY <1>1, <1>2, <1>3, EtagsKept, SMTT(60), Z3T(60)

\* The pair of etag and body is preserved on its way from the server into the
\* journal, through edits during the transfer, failures and crashes.
THEOREM EtagsInvariant == Spec => []EtagInv
<1>1. Init => EtagInv
  BY InitType, SMT DEF Init, EtagInv, FileEtags, Files, Nothing, Exists, DirEtag
<1>2. EtagInv /\ [Next]_vars => EtagInv'
  <2> SUFFICES ASSUME EtagInv, [Next]_vars
               PROVE  nextEtag' > DirEtag /\ \A g \in Files : FileEtags(g)'
    BY NextType DEF EtagInv
  <2>i. TypeOK /\ nextEtag > DirEtag /\ nextEtag \in Nat
    BY DEF EtagInv, TypeOK
  <2>n. nextEtag' \in {nextEtag, nextEtag + 1}
    BY ZenonT(60) DEF Next, Environment, UserWrite, UserDelete, RemoteWrite, RemoteDelete, Crash,
           run_sync, StartRun, AbortRun, discover_local, discover_remote, reconcile_all,
           FinishRun, DirPropagation, DirUpload, DirDownload, DirDeleteRemote,
           DirDeleteLocal, DirConflict, DirStep, FilePropagation, ConflictRename, Get,
           WriteTmp, Install, RecordDownload, Stat, Put, RecordUpload, delete_local,
           delete_remote, vars
  <2> SUFFICES ASSUME NEW g \in Files PROVE FileEtags(g)'
    BY <2>i, <2>n, SMT DEF DirEtag
  <2>g. FileEtags(g) /\ g \in Path
    BY DEF EtagInv, Files
  <2>k. ASSUME remote'[g] \in {remote[g], None}, UNCHANGED <<journal, task>>
        PROVE  FileEtags(g)'
    BY <2>g, <2>i, <2>k, <2>n, EtagsKept
  <2>1. CASE Environment
    <3>1. PICK p \in UserPaths :
            UserWrite(p) \/ UserDelete(p) \/ RemoteWrite(p) \/ RemoteDelete(p)
      BY <2>1 DEF Environment
    <3>2. p \in Path /\ DOMAIN remote = Path
      BY <2>i, PathAssumption, SMTT(60), Z3T(60) DEF TypeOK, Maps
    <3>3. UNCHANGED <<journal, task>>
      BY <3>1, SMTT(60), Z3T(60) DEF UserWrite, UserDelete, RemoteWrite, RemoteDelete, Edit, run
    <3>4. CASE RemoteWrite(p) /\ p = g
      <4> DEFINE new(v) == [body |-> v, etag |-> nextEtag]
      <4>1. remote'[g] = new(Written(edits'))
        BY <2>g, <3>2, <3>4 DEF RemoteWrite, Files
      <4>2. \A v : new(v).etag = nextEtag
        OBVIOUS
      <4>3. \A v \in Body : new(v) # None
        BY <2>i, NoneAssumption, SMT DEF RemoteEntry
      <4>4. Written(edits') \in Body
        <5>1. edits \in 0..MaxEdits
          BY <2>i DEF TypeOK
        <5>2. edits' \in 1..MaxEdits
          BY <3>4, <5>1, BoundTypes, SMT DEF RemoteWrite, Edit
        <5> QED
          BY <5>2, ConfigAssumption, SMT DEF Written, Body
      <4> HIDE DEF new
      <4>5. remote'[g] # None /\ remote'[g].etag = nextEtag
        BY <4>1, <4>2, <4>3, <4>4
      <4> QED
        BY <2>g, <2>i, <3>3, <3>4, <4>5, EtagsFresh DEF RemoteWrite
    <3>5. CASE RemoteWrite(p) /\ p # g
      BY <2>g, <2>k, <3>2, <3>3, <3>5, SMTT(60), Z3T(60) DEF RemoteWrite
    <3>6. CASE RemoteDelete(p)
      BY <2>k, <3>2, <3>3, <3>6, TreeFacts DEF RemoteDelete
    <3>7. CASE UserWrite(p) \/ UserDelete(p)
      BY <2>k, <3>3, <3>7, SMTT(60), Z3T(60) DEF UserWrite, UserDelete
    <3> QED
      BY <3>1, <3>4, <3>5, <3>6, <3>7
  <2>2. CASE Crash
    BY <2>2, <2>g, <2>i, <2>n, EtagsKept DEF Crash, trees, Nothing
  <2>3. CASE StartRun
    BY <2>3, <2>k DEF StartRun, trees
  <2>4. CASE AbortRun
    BY <2>4, <2>k DEF AbortRun, trees
  <2>5. CASE discover_local
    BY <2>5, <2>k DEF discover_local, trees
  <2>6. CASE discover_remote
    BY <2>6, <2>k, SMTT(60), Z3T(60) DEF discover_remote, trees
  <2>7. CASE reconcile_all
    <3>1. task'[g] = None \/ \E op : task'[g] = Queued(op)
      BY <2>7, <2>g DEF reconcile_all
    <3>2. task'[g] # None => task'[g].etag = NoEtag
      <4>1. \A op : Queued(op).etag = NoEtag
        BY SMTT(60), Z3T(60) DEF Queued
      <4> QED
        BY <3>1, <4>1
    <3>3. remote' = remote /\ journal' = journal /\ nextEtag' = nextEtag
      BY <2>7 DEF reconcile_all, trees
    <3> QED
      BY <2>g, <2>i, <3>2, <3>3, EtagTypes, SMTT(60), Z3T(60) DEF FileEtags, Pairs, Exists, NoEtag, DirEtag
  <2>8. CASE \E d \in Dirs : DirPropagation(d)
    BY <2>8, <2>g, <2>i, DirEtags
  <2>9. ASSUME NEW p \in Files, FilePropagation(p) PROVE FileEtags(g)'
    BY <2>9, <2>g, <2>i, OwnEtags, OtherEtags
  <2>10. CASE FinishRun
    BY <2>10, <2>k DEF FinishRun, trees
  <2>11. CASE UNCHANGED vars
    BY <2>11, <2>k DEF vars
  <2> QED
    BY <2>1, <2>2, <2>3, <2>4, <2>5, <2>6, <2>7, <2>8, <2>9, <2>10, <2>11 DEF Next, run_sync
<1> QED
  BY <1>1, <1>2, PTL DEF Spec

\* A journal row whose etag is the server's stands for the content the server
\* has: run_sync never records an etag for a body it did not transfer under it.
THEOREM JournalTruthful == Spec => []RowMatchesServer
<1>1. EtagInv => RowMatchesServer
  BY DEF EtagInv, FileEtags, Pairs, RowMatchesServer
<1> QED
  BY <1>1, EtagsInvariant, PTL

(****************************************************************************)
(* What the trees contain: definitions.                                     *)
(****************************************************************************)

\* Two versions of different content have different lengths, and no version is
\* empty: then reconcile's comparison of sizes sees every local change.
LengthsTell ==
  \A m, n \in 1..MaxEdits : SizeOf(m) > 0 /\ (SizeOf(m) = SizeOf(n) => m = n)

(****************************************************************************)
(* Contents. Every body in a tree, a row or a task is a whole version or    *)
(* empty, but at a temporary name, where a write may have failed; a row's   *)
(* size is that of its body, and a task's body and size are those of the    *)
(* file it has reached.                                                     *)
(****************************************************************************)

\* One of the first n versions, whole, or an empty file.
Known(n, b) == b = Empty \/ \E k \in 1..n : b = Written(k)

\* A file whose writes fail leaves what they wrote.
MayBeCut(g) == MaxFaults # 0 /\ Temporary(g)

Sound(n, g, b) == Known(n, b) \/ MayBeCut(g)

Content(g) ==
  /\ Exists(local, g) => Sound(edits, g, local[g])
  /\ Exists(remote, g) => Sound(edits, g, remote[g].body)
  /\ journal[g] # None => /\ Sound(edits, g, journal[g].body)
                          /\ journal[g].size = journal[g].body.size
  /\ task[g] # None => Sound(edits, g, task[g].body)

Progress(g) ==
  task[g] # None =>
    /\ task[g].pc = "written"   => local[TmpPath(g)] = task[g].body
    /\ task[g].pc = "installed" => local[g] = task[g].body
    /\ task[g].pc = "stated"    =>
         task[g].size = IF Exists(local, g) THEN local[g].size ELSE 0
    /\ task[g].pc = "stored"    => task[g].size = task[g].body.size

Contents == \A g \in Files : Content(g) /\ Progress(g)

\* The directory phase is over before the first file task starts.
DirsFirst == Active # {} => \A d \in Dirs : task[d] = None

\* A step leaves the file of a task, and its temporary file, alone.
Still(g) == local'[g] = local[g] /\ local'[TmpPath(g)] = local[TmpPath(g)]

\* A file task leaves the files of the other active ones alone.
TransfersApart ==
  \A p \in Files : FilePropagation(p) => \A g \in Active \ {p} : Still(g)

(****************************************************************************)
(* KeepBoth loses nothing. The hypotheses are those under which it can keep *)
(* its promise: nothing fails or crashes between setting a copy aside and   *)
(* fetching the other, nobody deletes or edits during a run, conflicts get  *)
(* different timestamps and lengths tell versions apart. The names the      *)
(* engine derives are not the user's, and no two files but a temporary one  *)
(* share a temporary name.                                                  *)
(****************************************************************************)
Calm ==
  /\ conflict_strategy = "KeepBoth" /\ ~Deletes /\ ~EditsDuringRun /\ ~SameSecond
  /\ MaxFaults = 0 /\ MaxCrashes = 0

NamesApart ==
  /\ \E U, S, E : Path \subseteq [up : U, stem : Seq(S), ext : E]
  /\ \A p, q \in Files : TmpPath(p) = TmpPath(q) => p = q \/ Temporary(p) \/ Temporary(q)
  /\ \A p \in UserPaths \cap Files :
       ~Temporary(p) /\ \A q \in Files : \A ts \in Nat : p # make_conflict_path(q, ts)

(****************************************************************************)
(* The invariant. A temporary file is there only while its task is at the   *)
(* rename; the next conflict copy's name is free on both sides; a row has   *)
(* both sides, but for the moment a copy is set aside; the content a row    *)
(* stands for is unwanted as soon as a side has another; and a task only    *)
(* overwrites what nobody wants.                                            *)
(****************************************************************************)
Temps ==
  \A g \in Files : Temporary(g) =>
    /\ ~Exists(remote, g) /\ journal[g] = None /\ task[g] = None
    /\ Exists(local, g) =>
         \E p \in Files : TmpPath(p) = g /\ task[p] # None /\ task[p].pc = "written"

Unborn ==
  \A q \in Files : \A ts \in Nat : \A c \in Files :
    /\ ts > stamp /\ c = make_conflict_path(q, ts) /\ ~Temporary(c)
    => ~Exists(local, c) /\ ~Exists(remote, c)

Aside(p) ==
  /\ task[p] # None /\ task[p].op = "Conflict"
  /\ task[p].pc \in {"renamed", "got", "written"}

RowsStand ==
  \A p \in Path : journal[p] # None =>
    Exists(remote, p) /\ (Exists(local, p) \/ Aside(p))

Unwanted(b) == b.ver \notin wanted

Superseded ==
  \A g \in Files :
    /\ journal[g] # None
    /\ local[g] # journal[g].body \/ remote[g].etag # journal[g].etag
    => Unwanted(journal[g].body)

Holds(p) == task[p].body = remote[p].body /\ task[p].etag = remote[p].etag

MayUpload(p) ==
  /\ task[p].op = "Upload" /\ task[p].pc \in {"queued", "stated"} /\ Exists(local, p)
  /\ p \in Files /\ Exists(remote, p) => Unwanted(remote[p].body)

Uploaded(p) ==
  /\ task[p].op = "Upload" /\ task[p].pc = "stored"
  /\ Exists(local, p) /\ Exists(remote, p) /\ Holds(p) /\ local[p] = task[p].body

MayRename(p) ==
  /\ task[p].op = "Conflict" /\ task[p].pc = "queued"
  /\ Exists(local, p) /\ Exists(remote, p)

MayFetch(p) ==
  /\ \/ task[p].op = "Download" /\ task[p].pc \in {"queued", "got", "written"}
     \/ task[p].op = "Conflict" /\ task[p].pc \in {"renamed", "got", "written"}
  /\ Exists(remote, p)
  /\ p \in Files /\ Exists(local, p) => Unwanted(local[p])
  /\ task[p].pc \in {"got", "written"} => Holds(p) /\ \A d \in Above(p) : Exists(local, d)

Fetched(p) ==
  /\ task[p].op \in {"Download", "Conflict"} /\ task[p].pc = "installed"
  /\ Exists(remote, p) /\ Holds(p)

Warranted(p) ==
  task[p] # None =>
    /\ MayUpload(p) \/ Uploaded(p) \/ MayRename(p) \/ MayFetch(p) \/ Fetched(p)
    /\ p \in Files /\ journal[p] # None => Unwanted(journal[p].body)

Snapshot ==
  /\ phase # "discovering" => found = NotFound
  /\ found.loc \in {None, local} /\ found.rem \in {None, remote}

Fresh == wanted \subseteq 1..edits

KeepInv ==
  /\ Temps /\ Unborn /\ RowsStand /\ Superseded
  /\ \A p \in Path : Warranted(p)
  /\ Snapshot /\ Fresh /\ NoLoss

(****************************************************************************)
(* What is left of a file task's steps when nothing fails.                  *)
(****************************************************************************)
Becomes(p, t) == task' = [task EXCEPT ![p] = t]

SetAside(p) ==
  /\ task[p].op = "Conflict" /\ task[p].pc = "queued" /\ Exists(local, p)
  /\ stamp' = stamp + 1
  /\ \E c \in Files : /\ c = make_conflict_path(p, stamp + 1)
                      /\ local' = [local EXCEPT ![p] = None, ![c] = local[p]]
  /\ Becomes(p, [task[p] EXCEPT !.pc = "renamed"])
  /\ UNCHANGED <<remote, journal>>

Fetch(p) ==
  /\ \/ task[p].op = "Download" /\ task[p].pc = "queued"
     \/ task[p].op = "Conflict" /\ task[p].pc = "renamed"
  /\ local' = WithDirs(local, Above(p), DirBody)
  /\ Becomes(p, [task[p] EXCEPT !.pc = "got", !.body = remote[p].body, !.etag = remote[p].etag])
  /\ UNCHANGED <<remote, journal, stamp>>

SaveTmp(p) ==
  /\ task[p].op \in {"Download", "Conflict"} /\ task[p].pc = "got"
  /\ local' = [local EXCEPT ![TmpPath(p)] = task[p].body]
  /\ Becomes(p, [task[p] EXCEPT !.pc = "written"])
  /\ UNCHANGED <<remote, journal, stamp>>

PutInPlace(p) ==
  /\ task[p].op \in {"Download", "Conflict"} /\ task[p].pc = "written"
  /\ local' = [local EXCEPT ![TmpPath(p)] = None, ![p] = local[TmpPath(p)]]
  /\ Becomes(p, [task[p] EXCEPT !.pc = "installed"])
  /\ UNCHANGED <<remote, journal, stamp>>

Measure(p) ==
  /\ task[p].op = "Upload" /\ task[p].pc = "queued"
  /\ Becomes(p, [task[p] EXCEPT !.pc = "stated", !.size = local[p].size])
  /\ UNCHANGED <<local, remote, journal, stamp>>

Store(p) ==
  /\ task[p].op = "Upload" /\ task[p].pc = "stated"
  /\ remote' = [WithDirs(remote, Above(p), DirEntry) EXCEPT
                  ![p] = [body |-> local[p], etag |-> nextEtag]]
  /\ Becomes(p, [task[p] EXCEPT !.pc = "stored", !.body = local[p], !.etag = nextEtag])
  /\ UNCHANGED <<local, journal, stamp>>

GiveUp(p) ==
  /\ task[p].op = "Upload" /\ task[p].pc = "stated"
  /\ Becomes(p, None)
  /\ UNCHANGED <<local, remote, journal, stamp>>

Record(p) ==
  /\ \/ task[p].op \in {"Download", "Conflict"} /\ task[p].pc = "installed"
     \/ task[p].op = "Upload" /\ task[p].pc = "stored"
  /\ \E row : /\ row.etag = task[p].etag /\ row.body = task[p].body
              /\ journal' = [journal EXCEPT ![p] = row]
  /\ Becomes(p, None)
  /\ UNCHANGED <<local, remote, stamp>>

(****************************************************************************)
(* A run that ends well leaves a row for every file that is on both sides,  *)
(* when nothing fails, for a row that cannot be written is not an error,    *)
(* and nobody edits during the run. Deletions, crashes, directories, equal  *)
(* lengths and names, and every strategy are allowed.                       *)
(*                                                                          *)
(* The invariant looks at the server only: what the run saw there it still  *)
(* finds, and each file there has a row or a task that will leave one. The  *)
(* one task that takes a row away and not the file is that for a file the   *)
(* server does not have.                                                    *)
(****************************************************************************)
Steady == MaxFaults = 0 /\ ~EditsDuringRun

SeenIsThere == found.rem # None => phase = "discovering" /\ found.rem = remote

NotOnServer(p) == task[p] # None /\ task[p].op = "DeleteLocal" => ~Exists(remote, p)

HasRowOrTask(p) == Exists(remote, p) => journal[p] # None \/ task[p] # None

RowInv ==
  /\ SeenIsThere
  /\ \A p \in Files : NotOnServer(p)
  /\ phase = "propagating" /\ ~had_error => \A p \in Files : HasRowOrTask(p)

(****************************************************************************)
(* Contents stay known, and tasks true to the files they work on.           *)
(****************************************************************************)

\* The types a state has at a file.
LEMMA FileFacts ==
  ASSUME TypeOK, NEW g \in Files
  PROVE  /\ g \in Path /\ TmpPath(g) \in Files /\ TmpPath(g) \in Path
         /\ Above(g) \in SUBSET Dirs /\ g \notin Dirs
         /\ local \in Maps(Body) /\ remote \in Maps(RemoteEntry)
         /\ journal \in Maps(Row) /\ task \in Maps(Task)
         /\ Exists(local, g) => local[g] \in Body
         /\ Exists(remote, g) => remote[g] \in RemoteEntry /\ remote[g].body \in Body
                                 /\ remote[g].etag \in Nat
         /\ journal[g] # None => journal[g] \in Row /\ journal[g].body \in Body
         /\ task[g] # None => task[g] \in Task /\ task[g].body \in Body
                              /\ task[g].etag \in Nat /\ task[g].size \in Nat
<1>1. /\ g \in Path /\ TmpPath(g) \in Files /\ TmpPath(g) \in Path
      /\ Above(g) \in SUBSET Dirs /\ g \notin Dirs
  BY PathAssumption DEF Files
<1>2. /\ local \in Maps(Body) /\ remote \in Maps(RemoteEntry)
      /\ journal \in Maps(Row) /\ task \in Maps(Task)
  BY DEF TypeOK
<1>3. /\ Exists(local, g) => local[g] \in Body
      /\ Exists(remote, g) => remote[g] \in RemoteEntry
      /\ journal[g] # None => journal[g] \in Row
      /\ task[g] # None => task[g] \in Task
  BY <1>1, <1>2, MapTypes DEF Exists
<1>4. /\ \A x \in RemoteEntry : x.body \in Body /\ x.etag \in Nat
      /\ \A x \in Row : x.body \in Body
      /\ \A x \in Task : x.body \in Body /\ x.etag \in Nat /\ x.size \in Nat
  BY DEF RemoteEntry, Row, Task
<1> QED
  BY <1>1, <1>2, <1>3, <1>4

\* A version known stays known.
LEMMA KnownLater ==
  ASSUME NEW m \in Nat, NEW n \in Nat, m <= n, NEW g, NEW b, Sound(m, g, b)
  PROVE  Sound(n, g, b)
<1>1. Known(m, b) => Known(n, b)
  BY SMT DEF Known
<1> QED
  BY <1>1 DEF Sound

\* The engine's own names: that of a temporary file is temporary, and so is the
\* copy of one.
LEMMA TemporaryNames ==
  ASSUME NEW p
  PROVE  /\ Temporary(TmpPath(p))
         /\ Temporary(p) => \A ts : Temporary(make_conflict_path(p, ts))
<1>1. Temporary(TmpPath(p))
  BY DEF Temporary, TmpPath
<1>2. ASSUME Temporary(p), NEW ts PROVE Temporary(make_conflict_path(p, ts))
  BY <1>2 DEF Temporary, TmpPath, make_conflict_path
<1> QED
  BY <1>1, <1>2

\* Contents change only from sound to sound.
LEMMA ContentStep ==
  ASSUME NEW g \in Files, Content(g), edits \in Nat, edits' \in Nat, edits <= edits',
         \/ local'[g] \in {local[g], None}
         \/ Sound(edits', g, local'[g]),
         \/ remote'[g] \in {remote[g], None}
         \/ Sound(edits', g, remote'[g].body),
         \/ journal'[g] \in {journal[g], None}
         \/ /\ Sound(edits', g, journal'[g].body) /\ journal'[g].size = journal'[g].body.size,
         \/ task'[g] \in {task[g], None}
         \/ Sound(edits', g, task'[g].body)
  PROVE  Content(g)'
<1>1. \A b : Sound(edits, g, b) => Sound(edits', g, b)
  BY KnownLater
<1>2. Exists(local, g)' => Sound(edits', g, local'[g])
  BY <1>1 DEF Content, Exists
<1>3. Exists(remote, g)' => Sound(edits', g, remote'[g].body)
  BY <1>1 DEF Content, Exists
<1>4. journal'[g] # None =>
        Sound(edits', g, journal'[g].body) /\ journal'[g].size = journal'[g].body.size
  BY <1>1 DEF Content
<1>5. task'[g] # None => Sound(edits', g, task'[g].body)
  BY <1>1 DEF Content
<1> QED
  BY <1>2, <1>3, <1>4, <1>5 DEF Content

\* What a step of a file's task may write: bodies it has, a whole version or
\* nothing.
LEMMA FileContent ==
  ASSUME TypeOK, Contents, NEW p \in Files, FilePropagation(p), NEW g \in Files
  PROVE  Content(g)'
<1>p. /\ p \in Path /\ g \in Path /\ TmpPath(p) \in Files /\ TmpPath(p) \in Path
      /\ Above(p) \in SUBSET Dirs
      /\ DOMAIN local = Path /\ DOMAIN remote = Path /\ DOMAIN journal = Path
      /\ DOMAIN task = Path
  BY FileFacts, ZenonT(60) DEF Maps
<1>c. Content(p) /\ Progress(p) /\ Content(g) /\ Content(TmpPath(p))
  BY <1>p DEF Contents
<1>n. edits \in Nat /\ edits' = edits
  <2>1. edits' = edits
    BY FileMoves DEF Propagating
  <2> QED
    BY <2>1, SMT DEF TypeOK
<1>k. /\ task[p] # None => task[p] \in Task /\ task[p].body \in Body
      /\ Exists(local, p) => local[p] \in Body
      /\ Exists(remote, p) => remote[p] \in RemoteEntry
  BY FileFacts
<1>m. task[p] # None => \A pc : [task[p] EXCEPT !.pc = pc].body = task[p].body
  BY <1>k DEF Task
<1>e. /\ \A b : Sound(edits, p, b) => Sound(edits, TmpPath(p), b)
      /\ \A b : \A ts : Sound(edits, p, b) => Sound(edits, make_conflict_path(p, ts), b)
  BY TemporaryNames DEF Sound, MayBeCut
<1>x. MaxFaults # 0 => \A b : Sound(edits, TmpPath(p), b)
  BY TemporaryNames DEF Sound, MayBeCut
<1>d. \A m : \A v : WithDirs(m, Above(p), v)[g] = m[g] /\ Without(m, p)[g] \in {m[g], None}
  BY <1>p, TreeFacts
<1>s. /\ \A op : FileStart(p, op) => task[p] # None
      /\ \A op, pc : FileStep(p, op, pc) => task[p] # None /\ task[p].pc = pc
  BY DEF FileStart, FileStep, At
<1>t. ASSUME NEW t, Goes(p, t) PROVE task'[g] = IF g = p THEN t ELSE task[g]
  BY <1>p, <1>t DEF Goes
<1>u. ASSUME NEW st, Ends(p, st) PROVE task'[g] \in {task[g], None}
  BY <1>p, <1>u DEF Ends
<1>f. Fails(p) => task'[g] \in {task[g], None} /\ journal' = journal
  BY <1>u DEF Fails
<1>r. ASSUME NEW row, Records(p, row)
      PROVE  journal'[g] = journal[g] \/ (g = p /\ journal'[g] = row)
  BY <1>p, <1>r DEF Records
<1> DEFINE L == local'[g] \in {local[g], None} \/ Sound(edits', g, local'[g])
           R == remote'[g] \in {remote[g], None} \/ Sound(edits', g, remote'[g].body)
           J == \/ journal'[g] \in {journal[g], None}
                \/ /\ Sound(edits', g, journal'[g].body)
                   /\ journal'[g].size = journal'[g].body.size
           T == task'[g] \in {task[g], None} \/ Sound(edits', g, task'[g].body)
<1>q. ASSUME L, R, J, T PROVE Content(g)'
  BY <1>q, <1>c, <1>n, ContentStep, SMT
<1>v. ASSUME task[p] # None, NEW pc,
             task'[g] \in {task[g], None} \/ (g = p /\ task'[g] = [task[p] EXCEPT !.pc = pc])
      PROVE  T
  <2>1. task'[g] \in {task[g], None} \/ (g = p /\ task'[g].body = task[p].body)
    BY <1>m, <1>v
  <2> QED
    BY <1>c, <1>n, <1>v, <2>1 DEF Content
<1>1. CASE ConflictRename(p)
  <2>1. task[p] # None /\ remote' = remote /\ journal' = journal
    BY <1>1, <1>s DEF ConflictRename
  <2>2. L
    <3>1. \/ local' = local
          \/ Exists(local, p) /\ \E ts :
               /\ make_conflict_path(p, ts) \in Files
               /\ local' = [local EXCEPT ![p] = None, ![make_conflict_path(p, ts)] = local[p]]
      BY <1>1, ZenonT(60) DEF ConflictRename
    <3>2. \/ local'[g] \in {local[g], None}
          \/ Exists(local, p) /\ local'[g] = local[p] /\ \E ts : g = make_conflict_path(p, ts)
      BY <1>p, <3>1 DEF Files
    <3>3. Exists(local, p) => Sound(edits, p, local[p])
      BY <1>c DEF Content
    <3> QED
      BY <1>e, <1>n, <3>2, <3>3
  <2>3. T
    <3>1. \/ task'[g] \in {task[g], None}
          \/ g = p /\ task'[g] = [task[p] EXCEPT !.pc = "renamed"]
      BY <1>1, <1>t, <1>f DEF ConflictRename
    <3> QED
      BY <1>v, <2>1, <3>1
  <2> QED
    BY <1>q, <2>1, <2>2, <2>3
<1>2. CASE Get(p)
  <2>1. task[p] # None /\ remote' = remote /\ journal' = journal
    BY <1>2, <1>s DEF Get
  <2>2. L
    BY <1>2, <1>d DEF Get
  <2>3. T
    <3> DEFINE t == [task[p] EXCEPT !.pc = "got", !.body = remote[p].body,
                                    !.etag = remote[p].etag]
               u == [task[p] EXCEPT !.pc = "got", !.body = remote[p].body]
    <3>1. task'[g] \in {task[g], None} \/ (g = p /\ Exists(remote, p) /\ task'[g] \in {t, u})
      BY <1>2, <1>t, <1>f DEF Get
    <3>2. t.body = remote[p].body /\ u.body = remote[p].body
      BY <1>k, <2>1 DEF Task
    <3> HIDE DEF t, u
    <3> QED
      BY <1>c, <1>n, <3>1, <3>2 DEF Content
  <2> QED
    BY <1>q, <2>1, <2>2, <2>3, SMT
<1>3. CASE WriteTmp(p)
  <2>1. task[p] # None /\ remote' = remote /\ journal' = journal
    BY <1>3, <1>s DEF WriteTmp
  <2>2. L
    <3>1. Fault => MaxFaults # 0
      BY SMT DEF Fault, TypeOK
    <3>2. \/ local' = local
          \/ local' = [local EXCEPT ![TmpPath(p)] = task[p].body]
          \/ MaxFaults # 0 /\ \E b : local' = [local EXCEPT ![TmpPath(p)] = b]
      BY <1>3, <3>1, ZenonT(60) DEF WriteTmp
    <3>3. \/ local'[g] = local[g]
          \/ g = TmpPath(p) /\ (local'[g] = task[p].body \/ MaxFaults # 0)
      BY <1>p, <3>2
    <3>4. Sound(edits, p, task[p].body)
      BY <1>c, <2>1 DEF Content
    <3> QED
      BY <1>e, <1>n, <1>x, <3>3, <3>4
  <2>3. T
    <3>1. \/ task'[g] \in {task[g], None}
          \/ g = p /\ task'[g] = [task[p] EXCEPT !.pc = "written"]
      BY <1>3, <1>t, <1>f DEF WriteTmp
    <3> QED
      BY <1>v, <2>1, <3>1
  <2> QED
    BY <1>q, <2>1, <2>2, <2>3, SMT
<1>4. CASE Install(p)
  <2>1. task[p] # None /\ task[p].pc = "written" /\ remote' = remote /\ journal' = journal
    BY <1>4, <1>s DEF Install
  <2>2. L
    <3>1. \/ local' = local
          \/ local' = [local EXCEPT ![TmpPath(p)] = None]
          \/ /\ Exists(local, TmpPath(p))
             /\ local' = [local EXCEPT ![TmpPath(p)] = None, ![p] = local[TmpPath(p)]]
      BY <1>4, ZenonT(60) DEF Install
    <3>2. local'[g] \in {local[g], None} \/ (g = p /\ local'[g] = local[TmpPath(p)])
      BY <1>p, <3>1
    <3>3. local[TmpPath(p)] = task[p].body /\ Sound(edits, p, task[p].body)
      BY <1>c, <2>1 DEF Content, Progress
    <3> QED
      BY <1>n, <3>2, <3>3
  <2>3. T
    <3>1. \/ task'[g] \in {task[g], None}
          \/ g = p /\ task'[g] = [task[p] EXCEPT !.pc = "installed"]
      BY <1>4, <1>t, <1>f DEF Install
    <3> QED
      BY <1>v, <2>1, <3>1
  <2> QED
    BY <1>q, <2>1, <2>2, <2>3, SMT
<1>5. CASE RecordDownload(p)
  <2> DEFINE row == [etag |-> task[p].etag, body |-> task[p].body,
                     size |-> IF Exists(local, p) THEN local[p].size ELSE 0]
  <2>1. task[p] # None /\ task[p].pc = "installed" /\ remote' = remote /\ local' = local
    BY <1>5, <1>s DEF RecordDownload, trees
  <2>2. local[p] = task[p].body /\ Exists(local, p)
    BY <1>c, <1>k, <2>1, NoneAssumption DEF Progress, Exists
  <2>3. Records(p, row) /\ \E st : Ends(p, st)
    BY <1>5 DEF RecordDownload
  <2>4. row.body = task[p].body /\ row.size = task[p].body.size
    BY <2>2
  <2> HIDE DEF row
  <2>5. J
    BY <1>c, <1>n, <1>r, <2>1, <2>3, <2>4 DEF Content
  <2> QED
    BY <1>q, <1>u, <2>1, <2>3, <2>5
<1>6. CASE Stat(p)
  <2>1. task[p] # None /\ remote' = remote /\ journal' = journal /\ local' = local
    BY <1>6, <1>s DEF Stat, trees
  <2>2. T
    <3> DEFINE size == IF Exists(local, p) THEN local[p].size ELSE 0
               t == [task[p] EXCEPT !.pc = "stated", !.size = size]
    <3>1. task'[g] = task[g] \/ (g = p /\ task'[g] = t)
      BY <1>6, <1>t, SMT DEF Stat
    <3>2. t.body = task[p].body
      BY <1>k, <2>1 DEF Task
    <3> HIDE DEF t
    <3> QED
      BY <1>c, <1>n, <2>1, <3>1, <3>2 DEF Content
  <2> QED
    BY <1>q, <2>1, <2>2
<1>7. CASE Put(p)
  <2> DEFINE body == [ver |-> local[p].ver, size |-> task[p].size]
             stored == [WithDirs(remote, Above(p), DirEntry) EXCEPT
                          ![p] = [body |-> body, etag |-> nextEtag]]
             sound == Exists(local, p) /\ local[p].size >= task[p].size
  <2>1. task[p] # None /\ task[p].pc = "stated" /\ local' = local /\ journal' = journal
    BY <1>7, <1>s DEF Put, Fails
  <2>2. sound => body = local[p]
    <3>1. ASSUME Exists(local, p) PROVE local[p] \in Body /\ task[p].size = local[p].size
      BY <1>c, <1>k, <2>1, <3>1 DEF Progress
    <3> QED
      BY <3>1 DEF Body
  <2>3. sound => Sound(edits, p, body)
    BY <1>c, <2>2 DEF Content
  <2>4. \/ sound /\ remote' = stored
        \/ \E ds \in SUBSET Above(p) : remote' = WithDirs(remote, ds, DirEntry)
        \/ remote' = remote
    BY <1>7 DEF Put
  <2> DEFINE t == [task[p] EXCEPT !.pc = "stored", !.body = body, !.etag = nextEtag]
             u == [task[p] EXCEPT !.pc = "stored", !.body = body]
  <2>5. task'[g] \in {task[g], None} \/ (sound /\ g = p /\ task'[g] \in {t, u})
    BY <1>7, <1>t, <1>f DEF Put
  <2>t. t.body = body /\ u.body = body
    BY <1>k, <2>1 DEF Task
  <2>6. stored[g] = IF g = p THEN [body |-> body, etag |-> nextEtag] ELSE remote[g]
    <3>1. DOMAIN WithDirs(remote, Above(p), DirEntry) = Path
      BY DEF WithDirs
    <3> QED
      BY <1>d, <1>p, <3>1
  <2>7. [body |-> body, etag |-> nextEtag].body = body
    OBVIOUS
  <2>8. \A ds \in SUBSET Above(p) : WithDirs(remote, ds, DirEntry)[g] = remote[g]
    <3>1. \A ds \in SUBSET Above(p) : ds \in SUBSET Dirs
      BY <1>p
    <3> QED
      BY <3>1, TreeFacts
  <2> HIDE DEF body, stored, sound, t, u
  <2>9. R
    BY <1>n, <2>3, <2>4, <2>6, <2>7, <2>8
  <2>10. T
    BY <1>n, <2>3, <2>5, <2>t
  <2> QED
    BY <1>q, <2>1, <2>9, <2>10
<1>8. CASE RecordUpload(p)
  <2> DEFINE row == [etag |-> task[p].etag, size |-> task[p].size, body |-> task[p].body]
  <2>1. task[p] # None /\ task[p].pc = "stored" /\ remote' = remote /\ local' = local
    BY <1>8, <1>s DEF RecordUpload, trees
  <2>2. row.body = task[p].body /\ row.size = task[p].body.size
    BY <1>c, <2>1 DEF Progress
  <2>3. Records(p, row) /\ \E st : Ends(p, st)
    BY <1>8 DEF RecordUpload
  <2> HIDE DEF row
  <2>4. J
    BY <1>c, <1>n, <1>r, <2>1, <2>2, <2>3 DEF Content
  <2> QED
    BY <1>q, <1>u, <2>1, <2>3, <2>4
<1>9. CASE delete_local(p) \/ delete_remote(p)
  <2>1. /\ local' \in {local, Without(local, p)} /\ remote' \in {remote, Without(remote, p)}
        /\ (Records(p, None) /\ \E st : Ends(p, st)) \/ Fails(p)
    BY <1>9 DEF delete_local, delete_remote
  <2>2. L /\ R /\ J /\ T
    BY <1>d, <1>f, <1>r, <1>u, <2>1
  <2> QED
    BY <1>q, <2>2
<1> QED
  BY <1>1, <1>2, <1>3, <1>4, <1>5, <1>6, <1>7, <1>8, <1>9 DEF FilePropagation

\* A step of a file's task moves it on with what it read, and no other task if it
\* leaves the files of the active ones alone.
LEMMA FileProgress ==
  ASSUME TypeOK, Contents, NEW p \in Files, FilePropagation(p), NEW g \in Files,
         g # p /\ g \in Active => Still(g)
  PROVE  Progress(g)'
<1>p. /\ p \in Path /\ g \in Path /\ TmpPath(p) \in Path
      /\ DOMAIN local = Path /\ DOMAIN task = Path
  BY FileFacts, ZenonT(60) DEF Maps
<1>c. Progress(p) /\ Progress(g)
  BY DEF Contents
<1>k. task[p] # None => task[p] \in Task
  BY FileFacts
<1>s. /\ \A op : FileStart(p, op) => task[p] # None
      /\ \A op, pc : FileStep(p, op, pc) => task[p] # None /\ task[p].pc = pc
  BY DEF FileStart, FileStep, At
<1>e. (\E st : Ends(p, st)) \/ Fails(p) => task'[p] = None
  BY <1>p DEF Ends, Fails
<1>t. ASSUME NEW t, Goes(p, t) PROVE task'[p] = t
  BY <1>p, <1>t DEF Goes
<1>n. task'[p] = None => Progress(p)'
  BY DEF Progress
<1>o. CASE g # p
  <2>1. task'[g] = task[g]
    BY <1>p, <1>o, FileMoves DEF Ends, Goes
  <2>2. CASE g \in Active
    <3>1. Still(g)
      BY <1>o, <2>2
    <3> QED
      BY <1>c, <2>1, <3>1, ZenonT(60) DEF Still, Progress, Exists
  <2>3. CASE g \notin Active
    BY <2>1, <2>3 DEF Active, Progress
  <2> QED
    BY <2>2, <2>3
<1> SUFFICES ASSUME g = p PROVE Progress(p)'
  BY <1>o
<1>1. CASE ConflictRename(p)
  <2> DEFINE t == [task[p] EXCEPT !.pc = "renamed"]
  <2>1. task'[p] \in {None, t}
    BY <1>1, <1>e, <1>t DEF ConflictRename
  <2>2. t.pc = "renamed"
    BY <1>1, <1>k, <1>s DEF ConflictRename, Task
  <2> HIDE DEF t
  <2> QED
    BY <2>1, <2>2 DEF Progress
<1>2. CASE Get(p)
  <2> DEFINE t == [task[p] EXCEPT !.pc = "got", !.body = remote[p].body, !.etag = remote[p].etag]
             u == [task[p] EXCEPT !.pc = "got", !.body = remote[p].body]
  <2>1. task'[p] \in {None, t, u}
    BY <1>2, <1>e, <1>t DEF Get
  <2>2. task[p] # None
    BY <1>2, <1>s DEF Get
  <2>3. t.pc = "got" /\ u.pc = "got"
    BY <1>k, <2>2 DEF Task
  <2> HIDE DEF t, u
  <2> QED
    BY <2>1, <2>3 DEF Progress
<1>3. CASE WriteTmp(p)
  <2> DEFINE t == [task[p] EXCEPT !.pc = "written"]
  <2>1. task[p] # None
    BY <1>3, <1>s DEF WriteTmp
  <2>2. \/ task'[p] = None
        \/ task'[p] = t /\ local' = [local EXCEPT ![TmpPath(p)] = task[p].body]
    BY <1>3, <1>e, <1>t DEF WriteTmp
  <2>3. t.pc = "written" /\ t.body = task[p].body
    BY <1>k, <2>1 DEF Task
  <2> HIDE DEF t
  <2>4. task'[p] # None => /\ task'[p].pc = "written"
                           /\ local'[TmpPath(p)] = task'[p].body
    BY <1>p, <2>2, <2>3
  <2> QED
    BY <2>4 DEF Progress
<1>4. CASE Install(p)
  <2> DEFINE t == [task[p] EXCEPT !.pc = "installed"]
             tmp == TmpPath(p)
  <2>1. task[p] # None /\ task[p].pc = "written"
    BY <1>4, <1>s DEF Install
  <2>2. \/ task'[p] = None
        \/ /\ task'[p] = t
           /\ local' = IF tmp = p THEN local
                       ELSE [local EXCEPT ![tmp] = None, ![p] = local[tmp]]
    BY <1>4, <1>e, <1>t DEF Install
  <2>3. t.pc = "installed" /\ t.body = task[p].body
    BY <1>k, <2>1 DEF Task
  <2>4. local[tmp] = task[p].body
    BY <1>c, <2>1 DEF Progress
  <2> HIDE DEF t
  <2>5. task'[p] # None => task'[p].pc = "installed" /\ local'[p] = task'[p].body
    BY <1>p, <2>2, <2>3, <2>4
  <2> QED
    BY <2>5 DEF Progress
<1>5. CASE Stat(p)
  <2> DEFINE size == IF Exists(local, p) THEN local[p].size ELSE 0
             t == [task[p] EXCEPT !.pc = "stated", !.size = size]
  <2>1. task[p] # None /\ local' = local
    BY <1>5, <1>s DEF Stat, trees
  <2>2. task'[p] = t
    BY <1>5, <1>t DEF Stat
  <2>3. t.pc = "stated" /\ t.size = size
    BY <1>k, <2>1 DEF Task
  <2> HIDE DEF t
  <2> QED
    BY <2>1, <2>2, <2>3 DEF Progress, Exists
<1>6. CASE Put(p)
  <2> DEFINE body == [ver |-> local[p].ver, size |-> task[p].size]
             t == [task[p] EXCEPT !.pc = "stored", !.body = body, !.etag = nextEtag]
             u == [task[p] EXCEPT !.pc = "stored", !.body = body]
  <2>1. task[p] # None
    BY <1>6, <1>s DEF Put
  <2>2. task'[p] \in {None, t, u}
    BY <1>6, <1>e, <1>t DEF Put
  <2>3. /\ t.pc = "stored" /\ t.body = body /\ t.size = task[p].size
        /\ u.pc = "stored" /\ u.body = body /\ u.size = task[p].size
    BY <1>k, <2>1 DEF Task
  <2>4. body.size = task[p].size
    OBVIOUS
  <2> HIDE DEF t, u, body
  <2> QED
    BY <2>2, <2>3, <2>4 DEF Progress
<1>7. CASE RecordDownload(p) \/ RecordUpload(p) \/ delete_local(p) \/ delete_remote(p)
  <2>1. (\E st : Ends(p, st)) \/ Fails(p)
    BY <1>7 DEF RecordDownload, RecordUpload, delete_local, delete_remote
  <2> QED
    BY <1>e, <1>n, <2>1
<1> QED
  BY <1>1, <1>2, <1>3, <1>4, <1>5, <1>6, <1>7 DEF FilePropagation

\* Directory instructions come before every transfer and touch a file only by
\* removing it.
LEMMA DirContents ==
  ASSUME TypeOK, Contents, DirsFirst, NEW d \in Dirs, DirPropagation(d)
  PROVE  Contents'
<1> SUFFICES ASSUME NEW g \in Files PROVE Content(g)' /\ Progress(g)'
  BY DEF Contents
<1>g. /\ g \in Path /\ d \in Path /\ g # d /\ Above(d) \cup {d} \in SUBSET Dirs
      /\ DOMAIN task = Path /\ DOMAIN journal = Path
  BY PathAssumption DEF Files, TypeOK, Maps
<1>c. Content(g)
  BY DEF Contents
<1>e. \A st : Ends(d, st) => task'[g] = task[g]
  BY <1>g DEF Ends
<1>f. Fails(d) => task'[g] = task[g] /\ journal'[g] = journal[g]
  BY <1>e DEF Fails
<1>r. \A row : Records(d, row) => journal'[g] = journal[g]
  BY <1>g DEF Records
<1>m. /\ WithDirs(remote, {d}, DirEntry)[g] = remote[g]
      /\ WithDirs(local, Above(d) \cup {d}, DirBody)[g] = local[g]
      /\ Without(remote, d)[g] \in {remote[g], None}
      /\ Without(local, d)[g] \in {local[g], None}
  BY <1>g, TreeFacts, SMT
<1>1. task'[g] = task[g] /\ journal'[g] = journal[g]
  BY <1>g, <1>e, <1>f, <1>r
     DEF DirPropagation, DirUpload, DirDownload, DirDeleteRemote, DirDeleteLocal, DirConflict
<1>2. remote'[g] \in {remote[g], None} /\ local'[g] \in {local[g], None}
  <2>1. CASE DirUpload(d) \/ DirDeleteRemote(d)
    BY <1>m, <2>1 DEF DirUpload, DirDeleteRemote
  <2>2. CASE DirDownload(d) \/ DirDeleteLocal(d)
    BY <1>m, <2>2 DEF DirDownload, DirDeleteLocal
  <2>3. CASE DirConflict(d)
    BY <2>3 DEF DirConflict, trees
  <2> QED
    BY <2>1, <2>2, <2>3 DEF DirPropagation
<1>3. edits' = edits /\ edits \in Nat /\ task[d] # None
  <2>1. edits' = edits /\ task[d] # None
    BY DEF DirPropagation, DirUpload, DirDownload, DirDeleteRemote, DirDeleteLocal,
           DirConflict, DirStep, Propagating, At
  <2> QED
    BY <2>1, SMT DEF TypeOK
<1>4. Content(g)'
  BY <1>c, <1>1, <1>2, <1>3, ContentStep, SMT
<1>5. task[g] # None => task[g].pc = "queued"
  BY <1>3 DEF DirsFirst, Active
<1> QED
  BY <1>1, <1>4, <1>5 DEF Progress

\* An edit writes a new version, while no task is there to be disturbed.
LEMMA EditContents ==
  ASSUME TypeOK, Contents, task = Nothing, Environment
  PROVE  Contents'
<1> SUFFICES ASSUME NEW g \in Files PROVE Content(g)' /\ Progress(g)'
  BY DEF Contents
<1>1. PICK p \in UserPaths :
        UserWrite(p) \/ UserDelete(p) \/ RemoteWrite(p) \/ RemoteDelete(p)
  BY DEF Environment
<1>2. p \in Path /\ g \in Path /\ g \notin Dirs /\ DOMAIN remote = Path /\ DOMAIN local = Path
  BY PathAssumption DEF Files, TypeOK, Maps
<1>3. Edit
  BY <1>1 DEF UserWrite, UserDelete, RemoteWrite, RemoteDelete
<1>4. edits \in Nat /\ edits' = edits + 1 /\ journal' = journal /\ task' = task
  <2>1. edits \in Nat
    BY SMT DEF TypeOK
  <2> QED
    BY <1>3, <2>1 DEF Edit, run
<1>5. Sound(edits', g, Written(edits'))
  <2>1. Known(edits', Written(edits'))
    BY <1>4, SMT DEF Known
  <2> QED
    BY <2>1 DEF Sound
<1>6. local'[g] \in {local[g], None, Written(edits')}
  <2>1. CASE UserWrite(p)
    BY <1>2, <2>1 DEF UserWrite
  <2>2. CASE UserDelete(p)
    BY <1>2, <2>2, TreeFacts DEF UserDelete
  <2> QED
    BY <1>1, <2>1, <2>2 DEF RemoteWrite, RemoteDelete
<1>7. remote'[g] \in {remote[g], None} \/ remote'[g].body = Written(edits')
  <2>1. CASE RemoteWrite(p)
    <3>1. \/ remote'[g] = remote[g]
          \/ remote'[g] = [body |-> Written(edits'), etag |-> nextEtag]
      BY <1>2, <2>1 DEF RemoteWrite
    <3>2. \A b, e : [body |-> b, etag |-> e].body = b
      OBVIOUS
    <3> QED
      BY <3>1, <3>2
  <2> QED
    BY <1>1, <2>1, TreeFacts, <1>2 DEF UserWrite, UserDelete, RemoteDelete
<1>8. Content(g)
  BY DEF Contents
<1>9. Content(g)'
  BY <1>4, <1>5, <1>6, <1>7, <1>8, ContentStep, SMT
<1> QED
  BY <1>2, <1>4, <1>9 DEF Progress, Nothing

\* The contents stay known and the directory phase first, whatever happens, if
\* nobody edits during a run and no transfer disturbs another.
LEMMA ContentsNext ==
  ASSUME TypeOK, IdleHasNoTasks, Contents, DirsFirst, ~EditsDuringRun, [Next]_vars,
         \A p \in Files : FilePropagation(p) => \A g \in Active \ {p} : Still(g)
  PROVE  Contents' /\ DirsFirst'
<1>k. ASSUME UNCHANGED <<local, remote, journal, edits>>, task' \in {task, Nothing}
      PROVE  Contents'
  <2> SUFFICES ASSUME NEW g \in Files PROVE Content(g)' /\ Progress(g)'
    BY DEF Contents
  <2>1. Content(g) /\ Progress(g) /\ g \in Path
    BY DEF Contents, Files
  <2>2. task'[g] \in {task[g], None}
    BY <1>k, <2>1 DEF Nothing
  <2> QED
    BY <1>k, <2>1, <2>2 DEF Content, Progress, Exists
<1>a. ASSUME \A p \in Path : task'[p] \in {task[p], None}
      PROVE  DirsFirst'
  BY <1>a, PathAssumption DEF DirsFirst, Active, Files
<1>u. task' \in {task, Nothing} => \A p \in Path : task'[p] \in {task[p], None}
  BY DEF Nothing
<1>1. CASE Environment
  <2>1. Edit
    BY <1>1 DEF Environment, UserWrite, UserDelete, RemoteWrite, RemoteDelete
  <2>2. task = Nothing /\ task' = task
    BY <2>1 DEF Edit, IdleHasNoTasks, run
  <2> QED
    BY <1>1, <1>a, <1>u, <2>2, EditContents
<1>2. CASE Crash \/ StartRun \/ AbortRun \/ discover_local \/ discover_remote \/ FinishRun
           \/ UNCHANGED vars
  <2>1. UNCHANGED <<local, remote, journal, edits>> /\ task' \in {task, Nothing}
    BY <1>2 DEF Crash, StartRun, AbortRun, discover_local, discover_remote, FinishRun, vars,
                trees, budgets
  <2> QED
    BY <1>a, <1>k, <1>u, <2>1
<1>3. CASE reconcile_all
  <2>1. UNCHANGED <<local, remote, journal, edits>> /\ edits \in Nat
    BY <1>3, SMT DEF reconcile_all, trees, TypeOK
  <2>2. \A p \in Path : task'[p] = None \/ \E op : task'[p] = Queued(op)
    BY <1>3 DEF reconcile_all
  <2>3. \A op : Queued(op).pc = "queued" /\ Queued(op).body = Empty
    BY DEF Queued, DirBody
  <2>4. Contents'
    <3> SUFFICES ASSUME NEW g \in Files PROVE Content(g)' /\ Progress(g)'
      BY SMT DEF Contents
    <3>1. Content(g) /\ g \in Path /\ Sound(edits, g, Empty)
      BY DEF Contents, Files, Known, Sound
    <3>2. task'[g] # None => task'[g].pc = "queued" /\ task'[g].body = Empty
      BY <2>2, <2>3, <3>1
    <3> QED
      BY <2>1, <3>1, <3>2 DEF Content, Progress, Exists
  <2>5. Active' = {}
    BY <2>2, <2>3 DEF Active, Files
  <2> QED
    BY <2>4, <2>5 DEF DirsFirst
<1>4. ASSUME NEW d \in Dirs, DirPropagation(d) PROVE Contents' /\ DirsFirst'
  <2>1. DOMAIN task = Path /\ d \in Path
    BY PathAssumption DEF TypeOK, Maps
  <2>2. task' = [task EXCEPT ![d] = None]
    BY <1>4 DEF DirPropagation, DirUpload, DirDownload, DirDeleteRemote, DirDeleteLocal,
                DirConflict, Fails, Ends
  <2> QED
    BY <1>4, <1>a, <2>1, <2>2, DirContents
<1>5. ASSUME NEW p \in Files, FilePropagation(p) PROVE Contents' /\ DirsFirst'
  <2>1. Contents'
    BY <1>5, FileContent, FileProgress DEF Contents
  <2>2. DirsFirst'
    <3>1. Active # {} \/ \A d \in Dirs : task[d] = None
      BY <1>5 DEF FilePropagation, ConflictRename, Get, WriteTmp, Install, RecordDownload,
                  Stat, Put, RecordUpload, delete_local, delete_remote, FileStart, FileStep,
                  At, Active
    <3>2. \A d \in Dirs : d \in Path /\ d # p
      BY PathAssumption DEF Files
    <3>3. \A d \in Dirs : task'[d] = task[d]
      BY <1>5, <3>2, FileMoves, SMT DEF Ends, Goes, TypeOK, Maps
    <3> QED
      BY <3>1, <3>3 DEF DirsFirst
  <2> QED
    BY <2>1, <2>2
<1> QED
  BY <1>1, <1>2, <1>3, <1>4, <1>5 DEF Next, run_sync

(****************************************************************************)
(* What is left alone is in sync.                                           *)
(****************************************************************************)

\* A known body is told by its length.
LEMMA LengthsIdentify ==
  ASSUME LengthsTell, NEW n \in 0..MaxEdits, NEW b, NEW c, Known(n, b), Known(n, c),
         b.size = c.size
  PROVE  b = c
<1>1. \A k \in 1..n : k \in 1..MaxEdits /\ Written(k).size = SizeOf(k) /\ SizeOf(k) > 0
  BY BoundTypes, SMT DEF Written, LengthsTell
<1>2. Empty.size = 0
  BY DEF Empty
<1>3. CASE b = Empty
  BY <1>1, <1>2, <1>3, SMT DEF Known
<1>4. ASSUME NEW k \in 1..n, b = Written(k) PROVE b = c
  BY <1>1, <1>2, <1>4, SMT DEF Known, LengthsTell
<1> QED
  BY <1>3, <1>4 DEF Known

\* When a file is left alone, its row is the one thing both sides are compared
\* with: its size is that of the body whose etag the server still has.
LEMMA IgnoredAgree ==
  ASSUME TypeOK, EtagInv, Contents, LengthsTell
  PROVE  IgnoreIsSound
<1> SUFFICES ASSUME NEW p \in Files, ~Temporary(p), Exists(local, p), Exists(remote, p),
                    Reconcile(local[p], remote[p], journal[p], conflict_strategy) = "Ignore"
             PROVE  local[p] = remote[p].body
  BY DEF IgnoreIsSound
<1>1. Resolution(conflict_strategy) # "Ignore"
  BY ConfigAssumption DEF Resolution, Strategies
<1> HIDE DEF Resolution
<1>2. /\ journal[p] # None
      /\ local[p].size = journal[p].size /\ remote[p].etag = journal[p].etag
  BY <1>1 DEF Reconcile, Exists
<1>3. journal[p].body = remote[p].body
  BY <1>2 DEF EtagInv, FileEtags, Pairs
<1>4. /\ Known(edits, local[p]) /\ Known(edits, remote[p].body)
      /\ journal[p].size = journal[p].body.size
  BY <1>2 DEF Contents, Content, Sound, MayBeCut
<1>5. edits \in 0..MaxEdits
  BY DEF TypeOK
<1> QED
  BY <1>2, <1>3, <1>4, <1>5, LengthsIdentify

\* A folder before its first run has no contents.
LEMMA InitContents == Init => Contents /\ DirsFirst
<1> SUFFICES ASSUME Init PROVE Contents /\ DirsFirst
  OBVIOUS
<1>1. \A g \in Path : local[g] = None /\ remote[g] = None /\ journal[g] = None /\ task[g] = None
  BY DEF Init, Nothing
<1> QED
  BY <1>1, PathAssumption
     DEF Contents, Content, Progress, Exists, DirsFirst, Files

(****************************************************************************)
(* KeepBoth loses nothing: names, and the steps of a file task.             *)
(****************************************************************************)

\* What the names of temporary files and of conflict copies tell.
LEMMA NameFacts ==
  ASSUME NamesApart, NEW p \in Files, NEW q \in Files, NEW s \in Nat, NEW t \in Nat
  PROVE  /\ Temporary(TmpPath(p))
         /\ make_conflict_path(p, s) # p
         /\ make_conflict_path(p, s) = make_conflict_path(q, t) => s = t
         /\ Temporary(make_conflict_path(p, s)) => Temporary(p)
<1>1. PICK U, S, E : Path \subseteq [up : U, stem : Seq(S), ext : E]
  BY DEF NamesApart
<1>2. p \in [up : U, stem : Seq(S), ext : E] /\ q \in [up : U, stem : Seq(S), ext : E]
  BY <1>1 DEF Files
<1>3. Temporary(TmpPath(p))
  BY <1>2 DEF Temporary, TmpPath
<1> DEFINE c == make_conflict_path(p, s)
           d == make_conflict_path(q, t)
<1>4. c.stem = Append(p.stem, s) /\ d.stem = Append(q.stem, t) /\ c.ext = p.ext
  BY <1>2 DEF make_conflict_path
<1>5. p.stem \in Seq(S) /\ q.stem \in Seq(S)
  BY <1>2
<1>6. c # p
  <2>1. Len(Append(p.stem, s)) = Len(p.stem) + 1 /\ Len(p.stem) \in Nat
    BY <1>5, SMT
  <2> QED
    BY <1>4, <2>1, SMT
<1>7. c = d => s = t
  <2>1. /\ Len(Append(p.stem, s)) = Len(p.stem) + 1
        /\ Append(p.stem, s)[Len(p.stem) + 1] = s
        /\ Len(Append(q.stem, t)) = Len(q.stem) + 1
        /\ Append(q.stem, t)[Len(q.stem) + 1] = t
    BY <1>5, SMT
  <2> QED
    BY <1>4, <2>1
<1>8. Temporary(c) => Temporary(p)
  <2>1. TmpPath(c).ext = "tmp"
    BY <1>2 DEF TmpPath, make_conflict_path
  <2>2. p.ext = "tmp" => TmpPath(p) = p
    BY <1>2 DEF TmpPath
  <2> QED
    BY <1>4, <2>1, <2>2 DEF Temporary
<1> QED
  BY <1>3, <1>6, <1>7, <1>8

\* Nothing fails.
LEMMA NoFaults == ASSUME TypeOK, Calm PROVE ~Fault
BY SMT DEF TypeOK, Calm, Fault

\* Without failures, deletions and edits during a run, these are a file task's
\* steps: no download or conflict is ever given up.
LEMMA FileOutcome ==
  ASSUME TypeOK, Calm, NamesApart, Contents, KeepInv, NEW p \in Files, FilePropagation(p)
  PROVE  /\ task[p] # None
         /\ wanted' = wanted /\ edits' = edits /\ phase = "propagating" /\ phase' = phase
         /\ found' = found
         /\ \/ SetAside(p) \/ Fetch(p) \/ SaveTmp(p) \/ PutInPlace(p)
            \/ Measure(p) \/ Store(p) \/ GiveUp(p) \/ Record(p)
<1>p. /\ p \in Path /\ TmpPath(p) \in Path
      /\ DOMAIN local = Path /\ DOMAIN remote = Path /\ DOMAIN journal = Path /\ DOMAIN task = Path
  BY FileFacts, ZenonT(60) DEF Maps
<1>n. ~Fault /\ ~SameSecond
  BY NoFaults DEF Calm
<1>f. wanted' = wanted /\ edits' = edits /\ phase = "propagating" /\ phase' = phase /\ found' = found
  BY FileMoves DEF Propagating, history
<1>s. /\ \A op : FileStart(p, op) => task[p] # None /\ task[p].op \in op /\ task[p].pc = "queued"
      /\ \A op, pc : FileStep(p, op, pc) => task[p] # None /\ task[p].op \in op /\ task[p].pc = pc
  BY DEF FileStart, FileStep, At
<1>w. Warranted(p) /\ Content(p) /\ Progress(p)
  BY <1>p DEF KeepInv, Contents
<1>t. task[p] # None => ~Temporary(p)
  BY DEF KeepInv, Temps
<1>k. /\ task[p] # None => task[p] \in Task /\ task[p].body \in Body
      /\ Exists(local, p) => local[p] \in Body
  BY FileFacts
<1>e. /\ \A st : Ends(p, st) => Becomes(p, None)
      /\ \A t : Goes(p, t) => Becomes(p, t)
      /\ Fails(p) => Becomes(p, None) /\ journal' = journal
  BY DEF Ends, Goes, Fails, Becomes
<1>r. \A row : Records(p, row) => journal' = [journal EXCEPT ![p] = row]
  BY <1>n DEF Records
<1> DEFINE G == \/ SetAside(p) \/ Fetch(p) \/ SaveTmp(p) \/ PutInPlace(p)
                \/ Measure(p) \/ Store(p) \/ GiveUp(p) \/ Record(p)
<1> SUFFICES task[p] # None /\ G
  BY <1>f
<1>1. CASE ConflictRename(p)
  <2>1. task[p] # None /\ task[p].op = "Conflict" /\ task[p].pc = "queued"
    BY <1>1, <1>s, SMT DEF ConflictRename
  <2>2. Exists(local, p)
    BY <1>w, <2>1 DEF Warranted, MayUpload, Uploaded, MayRename, MayFetch, Fetched
  <2>3. SetAside(p)
    BY <1>1, <1>e, <1>n, <2>1, <2>2 DEF ConflictRename, SetAside
  <2> QED
    BY <2>1, <2>3
<1>2. CASE Get(p)
  <2>1. /\ task[p] # None
        /\ \/ task[p].op = "Download" /\ task[p].pc = "queued"
           \/ task[p].op = "Conflict" /\ task[p].pc = "renamed"
    BY <1>2, <1>s, SMT DEF Get
  <2>2. Exists(remote, p)
    BY <1>w, <2>1 DEF Warranted, MayUpload, Uploaded, MayRename, MayFetch, Fetched
  <2>3. Fetch(p)
    BY <1>2, <1>e, <1>n, <2>1, <2>2 DEF Get, Fetch
  <2> QED
    BY <2>1, <2>3
<1>3. CASE WriteTmp(p)
  <2>1. task[p] # None /\ task[p].op \in {"Download", "Conflict"} /\ task[p].pc = "got"
    BY <1>3, <1>s DEF WriteTmp
  <2>2. \A d \in Above(p) : Exists(local, d)
    BY <1>w, <2>1 DEF Warranted, MayUpload, Uploaded, MayRename, MayFetch, Fetched
  <2>3. SaveTmp(p)
    BY <1>3, <1>e, <1>n, <2>1, <2>2 DEF WriteTmp, SaveTmp
  <2> QED
    BY <2>1, <2>3
<1>4. CASE Install(p)
  <2>1. task[p] # None /\ task[p].op \in {"Download", "Conflict"} /\ task[p].pc = "written"
    BY <1>4, <1>s DEF Install
  <2>2. Exists(local, TmpPath(p)) /\ TmpPath(p) # p
    BY <1>k, <1>t, <1>w, <2>1, NoneAssumption DEF Progress, Exists, Temporary
  <2>3. PutInPlace(p)
    BY <1>4, <1>e, <1>n, <2>1, <2>2 DEF Install, PutInPlace
  <2> QED
    BY <2>1, <2>3
<1>5. CASE RecordDownload(p)
  <2> DEFINE row == [etag |-> task[p].etag, body |-> task[p].body,
                     size |-> IF Exists(local, p) THEN local[p].size ELSE 0]
  <2>1. task[p] # None /\ task[p].op \in {"Download", "Conflict"} /\ task[p].pc = "installed"
    BY <1>5, <1>s DEF RecordDownload
  <2>2. row.etag = task[p].etag /\ row.body = task[p].body
    OBVIOUS
  <2>3. journal' = [journal EXCEPT ![p] = row] /\ Becomes(p, None)
    BY <1>5, <1>e, <1>r DEF RecordDownload
  <2> HIDE DEF row
  <2>4. Record(p)
    BY <1>5, <2>1, <2>2, <2>3 DEF RecordDownload, Record, trees
  <2> QED
    BY <2>1, <2>4
<1>6. CASE Stat(p)
  <2>1. task[p] # None /\ task[p].op = "Upload" /\ task[p].pc = "queued"
    BY <1>6, <1>s, SMT DEF Stat
  <2>2. Exists(local, p)
    BY <1>w, <2>1 DEF Warranted, MayUpload, Uploaded, MayRename, MayFetch, Fetched
  <2>3. Measure(p)
    BY <1>6, <1>e, <2>1, <2>2 DEF Stat, Measure, trees
  <2> QED
    BY <2>1, <2>3
<1>7. CASE Put(p)
  <2> DEFINE body == [ver |-> local[p].ver, size |-> task[p].size]
  <2>1. task[p] # None /\ task[p].op = "Upload" /\ task[p].pc = "stated"
    BY <1>7, <1>s, SMT DEF Put
  <2>2. Exists(local, p) => body = local[p]
    <3>1. ASSUME Exists(local, p) PROVE local[p] \in Body /\ task[p].size = local[p].size
      BY <1>k, <1>w, <2>1, <3>1 DEF Progress
    <3> QED
      BY <3>1 DEF Body
  <2>3. \/ /\ Exists(local, p)
           /\ remote' = [WithDirs(remote, Above(p), DirEntry) EXCEPT
                           ![p] = [body |-> body, etag |-> nextEtag]]
           /\ Becomes(p, [task[p] EXCEPT !.pc = "stored", !.body = body, !.etag = nextEtag])
        \/ remote' = remote /\ Becomes(p, None)
    BY <1>7, <1>e, <1>n DEF Put
  <2>4. local' = local /\ journal' = journal /\ stamp' = stamp
    BY <1>7 DEF Put
  <2> HIDE DEF body
  <2>5. Store(p) \/ GiveUp(p)
    BY <2>1, <2>2, <2>3, <2>4 DEF Store, GiveUp
  <2> QED
    BY <2>1, <2>5
<1>8. CASE RecordUpload(p)
  <2> DEFINE row == [etag |-> task[p].etag, size |-> task[p].size, body |-> task[p].body]
  <2>1. task[p] # None /\ task[p].op = "Upload" /\ task[p].pc = "stored"
    BY <1>8, <1>s, SMT DEF RecordUpload
  <2>2. row.etag = task[p].etag /\ row.body = task[p].body
    OBVIOUS
  <2>3. journal' = [journal EXCEPT ![p] = row] /\ Becomes(p, None)
    BY <1>8, <1>e, <1>r DEF RecordUpload
  <2> HIDE DEF row
  <2>4. Record(p)
    BY <1>8, <2>1, <2>2, <2>3 DEF RecordUpload, Record, trees
  <2> QED
    BY <2>1, <2>4
<1>9. CASE delete_local(p) \/ delete_remote(p)
  <2>1. task[p] # None /\ task[p].op \in {"DeleteLocal", "DeleteRemote"}
    BY <1>9, <1>s DEF delete_local, delete_remote
  <2> QED
    BY <1>w, <2>1 DEF Warranted, MayUpload, Uploaded, MayRename, MayFetch, Fetched
<1> QED
  BY <1>1, <1>2, <1>3, <1>4, <1>5, <1>6, <1>7, <1>8, <1>9 DEF FilePropagation

\* The names a task uses are its own: nobody else has its temporary file, and the
\* name its copy gets is free.
LEMMA OwnNames ==
  ASSUME TypeOK, NamesApart, KeepInv, NEW p \in Files, task[p] # None
  PROVE  /\ ~Temporary(p) /\ TmpPath(p) # p /\ TmpPath(p) \in Files /\ Temporary(TmpPath(p))
         /\ Exists(local, p) \/ Exists(remote, p)
         /\ Exists(local, TmpPath(p)) => task[p].pc = "written"
         /\ \A c \in Files : c = make_conflict_path(p, stamp + 1) =>
              /\ c # p /\ ~Temporary(c) /\ ~Exists(local, c) /\ ~Exists(remote, c)
              /\ task[c] = None /\ journal[c] = None
         /\ \A g \in Files : task[g] # None /\ TmpPath(g) = TmpPath(p) => g = p
<1>1. ~Temporary(p) /\ Warranted(p) /\ TmpPath(p) \in Files /\ stamp + 1 \in Nat
      /\ stamp + 1 > stamp /\ stamp \in Nat
  BY PathAssumption, SMT DEF KeepInv, Temps, Files, TypeOK
<1>2. Temporary(TmpPath(p)) /\ TmpPath(p) # p
  BY <1>1, NameFacts DEF Temporary
<1>3. \A g \in Path : Warranted(g) /\ task[g] # None => Exists(local, g) \/ Exists(remote, g)
  BY DEF Warranted, MayUpload, Uploaded, MayRename, MayFetch, Fetched
<1>4. \A g \in Files : task[g] # None /\ TmpPath(g) = TmpPath(p) => g = p
  BY <1>1 DEF NamesApart, KeepInv, Temps
<1>5. Exists(local, TmpPath(p)) => task[p].pc = "written"
  BY <1>1, <1>2, <1>4 DEF KeepInv, Temps
<1>6. ASSUME NEW c \in Files, c = make_conflict_path(p, stamp + 1)
      PROVE  /\ c # p /\ ~Temporary(c) /\ ~Exists(local, c) /\ ~Exists(remote, c)
             /\ task[c] = None /\ journal[c] = None
  <2>1. c # p /\ ~Temporary(c)
    BY <1>1, <1>6, NameFacts
  <2>2. ~Exists(local, c) /\ ~Exists(remote, c)
    BY <1>1, <1>6, <2>1 DEF KeepInv, Unborn
  <2>3. c \in Path /\ Warranted(c)
    BY DEF Files, KeepInv
  <2>4. journal[c] = None
    BY <2>2, <2>3 DEF KeepInv, RowsStand
  <2> QED
    BY <1>3, <2>1, <2>2, <2>3, <2>4
<1> QED
  BY <1>1, <1>2, <1>3, <1>4, <1>5, <1>6 DEF Files, KeepInv

\* What a step of a file's task leaves alone.
LEMMA FileFrame ==
  ASSUME TypeOK, Calm, NamesApart, Contents, KeepInv, NEW p \in Files, FilePropagation(p)
  PROVE  /\ \A g \in Path \ {p} : /\ journal'[g] = journal[g] /\ task'[g] = task[g]
                                  /\ Exists(remote, g) => remote'[g] = remote[g]
         /\ \A g \in Files \ {p} : remote'[g] = remote[g]
         /\ \A g \in Path \ {p, TmpPath(p)} : Exists(local, g) => local'[g] = local[g]
         /\ \A g \in Files \ {p, TmpPath(p)} :
              local'[g] = local[g] \/ (SetAside(p) /\ g = make_conflict_path(p, stamp + 1))
<1>1. /\ task[p] # None
      /\ \/ SetAside(p) \/ Fetch(p) \/ SaveTmp(p) \/ PutInPlace(p)
         \/ Measure(p) \/ Store(p) \/ GiveUp(p) \/ Record(p)
  BY FileOutcome
<1>2. /\ TmpPath(p) \in Files
      /\ \A c \in Files : c = make_conflict_path(p, stamp + 1) => ~Exists(local, c)
  BY <1>1, OwnNames
<1>3. /\ DOMAIN local = Path /\ DOMAIN remote = Path /\ DOMAIN journal = Path /\ DOMAIN task = Path
      /\ p \in Path /\ Above(p) \subseteq Dirs /\ Files \cap Dirs = {} /\ Files \subseteq Path
  BY PathAssumption, ZenonT(60) DEF TypeOK, Maps, Files
<1>4. \A g \in Path \ {p} : task'[g] = task[g]
  BY <1>1, <1>3 DEF SetAside, Fetch, SaveTmp, PutInPlace, Measure, Store, GiveUp, Record, Becomes
<1>5. \A g \in Path \ {p} : journal'[g] = journal[g]
  <2>1. journal' = journal \/ \E row : journal' = [journal EXCEPT ![p] = row]
    BY <1>1 DEF SetAside, Fetch, SaveTmp, PutInPlace, Measure, Store, GiveUp, Record
  <2> QED
    BY <1>3, <2>1
<1>6. /\ \A g \in Path \ {p} : Exists(remote, g) => remote'[g] = remote[g]
      /\ \A g \in Files \ {p} : remote'[g] = remote[g]
  <2>1. \/ remote' = remote
        \/ \E e : remote' = [WithDirs(remote, Above(p), DirEntry) EXCEPT ![p] = e]
    BY <1>1 DEF SetAside, Fetch, SaveTmp, PutInPlace, Measure, Store, GiveUp, Record
  <2> QED
    BY <1>3, <2>1 DEF WithDirs, Exists
<1>7. /\ \A g \in Path \ {p, TmpPath(p)} : Exists(local, g) => local'[g] = local[g]
      /\ \A g \in Files \ {p, TmpPath(p)} :
           local'[g] = local[g] \/ (SetAside(p) /\ g = make_conflict_path(p, stamp + 1))
  <2>1. CASE SetAside(p)
    <3>1. PICK c \in Files : /\ c = make_conflict_path(p, stamp + 1)
                             /\ local' = [local EXCEPT ![p] = None, ![c] = local[p]]
      BY <2>1 DEF SetAside
    <3>2. \A g \in Path \ {p, c} : local'[g] = local[g]
      BY <1>3, <3>1
    <3> QED
      BY <1>2, <1>3, <2>1, <3>1, <3>2
  <2>2. CASE Fetch(p)
    BY <1>3, <2>2 DEF Fetch, WithDirs, Exists
  <2>3. CASE SaveTmp(p)
    BY <1>3, <2>3 DEF SaveTmp
  <2>4. CASE PutInPlace(p)
    BY <1>3, <2>4 DEF PutInPlace
  <2>5. CASE Measure(p) \/ Store(p) \/ GiveUp(p) \/ Record(p)
    BY <1>3, <2>5 DEF Measure, Store, GiveUp, Record
  <2> QED
    BY <1>1, <2>1, <2>2, <2>3, <2>4, <2>5
<1> QED
  BY <1>4, <1>5, <1>6, <1>7

\* No task disturbs the file of another, or its temporary file.
LEMMA Undisturbed ==
  ASSUME TypeOK, Calm, NamesApart, Contents, KeepInv, NEW p \in Files, FilePropagation(p),
         NEW g \in Files, g # p, task[g] # None
  PROVE  Still(g)
<1>1. task[p] # None
  BY FileOutcome
<1>2. /\ ~Temporary(p) /\ Temporary(TmpPath(p)) /\ ~Temporary(g) /\ Temporary(TmpPath(g))
      /\ TmpPath(g) \in Files /\ TmpPath(g) # TmpPath(p)
      /\ \A c \in Files : c = make_conflict_path(p, stamp + 1) => ~Temporary(c) /\ task[c] = None
  BY <1>1, OwnNames
<1>3. g \notin {p, TmpPath(p)} /\ TmpPath(g) \notin {p, TmpPath(p)}
  BY <1>2
<1>4. \A f \in Files \ {p, TmpPath(p)} :
        local'[f] = local[f] \/ f = make_conflict_path(p, stamp + 1)
  BY FileFrame
<1> QED
  BY <1>2, <1>3, <1>4 DEF Still

\* A task keeps its warrant while a step leaves its path, its row and the existing
\* directories above it alone.
LEMMA WarrantKept ==
  ASSUME NEW g \in Path, Above(g) \subseteq Path, Warranted(g), wanted' = wanted,
         task'[g] = task[g], journal'[g] = journal[g],
         task[g] # None => /\ Exists(local, g) => local'[g] = local[g]
                           /\ Exists(remote, g) => remote'[g] = remote[g]
                           /\ g \in Files => local'[g] = local[g] /\ remote'[g] = remote[g],
         \A d \in Above(g) : Exists(local, d) => Exists(local', d)
  PROVE  Warranted(g)'
<1> SUFFICES ASSUME task[g] # None
             PROVE  /\ (MayUpload(g) \/ Uploaded(g) \/ MayRename(g) \/ MayFetch(g) \/ Fetched(g))'
                    /\ (g \in Files /\ journal[g] # None => Unwanted(journal[g].body))'
  BY DEF Warranted
<1>1. (g \in Files /\ journal[g] # None => Unwanted(journal[g].body))'
  BY DEF Warranted, Unwanted
<1>2. CASE MayUpload(g)
  BY <1>1, <1>2 DEF MayUpload, Exists, Unwanted
<1>3. CASE Uploaded(g)
  BY <1>1, <1>3 DEF Uploaded, Exists, Holds
<1>4. CASE MayRename(g)
  BY <1>1, <1>4 DEF MayRename, Exists
<1>5. CASE MayFetch(g)
  BY <1>1, <1>5 DEF MayFetch, Exists, Unwanted, Holds
<1>6. CASE Fetched(g)
  BY <1>1, <1>6 DEF Fetched, Exists, Holds
<1> QED
  BY <1>2, <1>3, <1>4, <1>5, <1>6 DEF Warranted

\* The fields of a task that has moved on.
LEMMA TaskMoved ==
  ASSUME NEW t \in Task, NEW pc, NEW b, NEW e, NEW s
  PROVE  /\ LET u == [t EXCEPT !.pc = pc] IN
              u.op = t.op /\ u.pc = pc /\ u.body = t.body /\ u.etag = t.etag
         /\ LET u == [t EXCEPT !.pc = pc, !.size = s] IN u.op = t.op /\ u.pc = pc
         /\ LET u == [t EXCEPT !.pc = pc, !.body = b, !.etag = e] IN
              u.op = t.op /\ u.pc = pc /\ u.body = b /\ u.etag = e
BY DEF Task

\* A file's task stays warranted as it moves on.
LEMMA FileWarranted ==
  ASSUME TypeOK, Calm, NamesApart, Contents, KeepInv, NEW p \in Files, FilePropagation(p)
  PROVE  Warranted(p)'
<1>1. /\ task[p] # None /\ wanted' = wanted
      /\ \/ SetAside(p) \/ Fetch(p) \/ SaveTmp(p) \/ PutInPlace(p)
         \/ Measure(p) \/ Store(p) \/ GiveUp(p) \/ Record(p)
  BY FileOutcome
<1>2. /\ p \in Path /\ TmpPath(p) \in Path /\ TmpPath(p) # p /\ Above(p) \subseteq Dirs
      /\ Dirs \subseteq Path /\ p \notin Dirs /\ TmpPath(p) \notin Dirs
  BY <1>1, OwnNames, PathAssumption DEF Files
<1>3. /\ DOMAIN local = Path /\ DOMAIN remote = Path /\ DOMAIN task = Path
  BY ZenonT(60) DEF TypeOK, Maps
<1>4. task[p] \in Task /\ (Exists(local, p) => local[p] \in Body)
  BY <1>1, FileFacts
<1>5. Warranted(p) /\ Progress(p)
  BY <1>2 DEF KeepInv, Contents
<1>6. \A t : Becomes(p, t) => task'[p] = t
  BY <1>2, <1>3 DEF Becomes
<1>7. journal[p] # None => Unwanted(journal[p].body)
  BY <1>1, <1>5 DEF Warranted
<1>8. journal' = journal => (p \in Files /\ journal[p] # None => Unwanted(journal[p].body))'
  BY <1>1, <1>7 DEF Unwanted
<1>a. CASE SetAside(p)
  <2> DEFINE t == [task[p] EXCEPT !.pc = "renamed"]
  <2>1. task'[p] = t /\ t.op = task[p].op /\ t.pc = "renamed"
    BY <1>4, <1>6, <1>a, TaskMoved, SMT DEF SetAside
  <2> HIDE DEF t
  <2>2. PICK c \in Files : /\ c = make_conflict_path(p, stamp + 1)
                           /\ local' = [local EXCEPT ![p] = None, ![c] = local[p]]
    BY <1>a, ZenonT(60) DEF SetAside
  <2>3. c # p
    BY <1>1, <2>2, OwnNames
  <2>4. local'[p] = None
    BY <1>2, <1>3, <2>2, <2>3
  <2>5. Exists(remote, p) /\ remote' = remote /\ journal' = journal /\ task[p].op = "Conflict"
    BY <1>1, <1>5, <1>a DEF SetAside, Warranted, MayUpload, Uploaded, MayRename, MayFetch, Fetched
  <2>6. MayFetch(p)'
    BY <2>1, <2>4, <2>5 DEF MayFetch, Exists
  <2> QED
    BY <1>8, <2>5, <2>6 DEF Warranted
<1>b. CASE Fetch(p)
  <2> DEFINE t == [task[p] EXCEPT !.pc = "got", !.body = remote[p].body, !.etag = remote[p].etag]
  <2>1. /\ task'[p] = t /\ t.op = task[p].op /\ t.pc = "got"
        /\ t.body = remote[p].body /\ t.etag = remote[p].etag
    BY <1>4, <1>6, <1>b, TaskMoved, SMT DEF Fetch
  <2> HIDE DEF t
  <2>2. local'[p] = local[p] /\ \A d \in Above(p) : local'[d] # None
    <3>1. local' = WithDirs(local, Above(p), DirBody) /\ DirBody # None
      BY <1>b, DataTypes, NoneAssumption DEF Fetch
    <3> QED
      BY <1>2, <3>1 DEF WithDirs
  <2>3. MayFetch(p) /\ remote' = remote /\ journal' = journal
    BY <1>1, <1>5, <1>b DEF Fetch, Warranted, MayUpload, Uploaded, MayRename, MayFetch, Fetched
  <2>4. MayFetch(p)'
    BY <1>1, <1>b, <2>1, <2>2, <2>3 DEF Fetch, MayFetch, Exists, Unwanted, Holds
  <2> QED
    BY <1>8, <2>3, <2>4 DEF Warranted
<1>c. CASE SaveTmp(p)
  <2> DEFINE t == [task[p] EXCEPT !.pc = "written"]
  <2>1. /\ task'[p] = t /\ t.op = task[p].op /\ t.pc = "written"
        /\ t.body = task[p].body /\ t.etag = task[p].etag
    BY <1>4, <1>6, <1>c, TaskMoved, SMT DEF SaveTmp
  <2> HIDE DEF t
  <2>2. local'[p] = local[p] /\ \A d \in Above(p) : local'[d] = local[d]
    BY <1>2, <1>3, <1>c DEF SaveTmp
  <2>3. MayFetch(p) /\ remote' = remote /\ journal' = journal
    BY <1>1, <1>5, <1>c DEF SaveTmp, Warranted, MayUpload, Uploaded, MayRename, MayFetch, Fetched
  <2>4. MayFetch(p)'
    BY <1>1, <1>c, <2>1, <2>2, <2>3, SMT DEF SaveTmp, MayFetch, Exists, Unwanted, Holds
  <2> QED
    BY <1>8, <2>3, <2>4, SMT DEF Warranted
<1>d. CASE PutInPlace(p)
  <2> DEFINE t == [task[p] EXCEPT !.pc = "installed"]
  <2>1. /\ task'[p] = t /\ t.op = task[p].op /\ t.pc = "installed"
        /\ t.body = task[p].body /\ t.etag = task[p].etag
    BY <1>4, <1>6, <1>d, TaskMoved, SMT DEF PutInPlace
  <2> HIDE DEF t
  <2>2. MayFetch(p) /\ remote' = remote /\ journal' = journal
    BY <1>1, <1>5, <1>d DEF PutInPlace, Warranted, MayUpload, Uploaded, MayRename, MayFetch, Fetched
  <2>3. Fetched(p)'
    BY <1>d, <2>1, <2>2 DEF PutInPlace, MayFetch, Fetched, Exists, Holds
  <2> QED
    BY <1>8, <2>2, <2>3 DEF Warranted
<1>e. CASE Measure(p)
  <2> DEFINE t == [task[p] EXCEPT !.pc = "stated", !.size = local[p].size]
  <2>1. task'[p] = t /\ t.op = task[p].op /\ t.pc = "stated"
    BY <1>4, <1>6, <1>e, TaskMoved, SMT DEF Measure
  <2> HIDE DEF t
  <2>2. MayUpload(p) /\ remote' = remote /\ journal' = journal /\ local' = local
    BY <1>1, <1>5, <1>e DEF Measure, Warranted, MayUpload, Uploaded, MayRename, MayFetch, Fetched
  <2>3. MayUpload(p)'
    BY <1>1, <2>1, <2>2 DEF MayUpload, Exists, Unwanted
  <2> QED
    BY <1>8, <2>2, <2>3 DEF Warranted
<1>f. CASE Store(p)
  <2> DEFINE t == [task[p] EXCEPT !.pc = "stored", !.body = local[p], !.etag = nextEtag]
             e == [body |-> local[p], etag |-> nextEtag]
  <2>1. /\ task'[p] = t /\ t.op = task[p].op /\ t.pc = "stored"
        /\ t.body = local[p] /\ t.etag = nextEtag
    BY <1>4, <1>6, <1>f, TaskMoved, SMT DEF Store
  <2> HIDE DEF t
  <2>2. MayUpload(p) /\ journal' = journal /\ local' = local
    BY <1>1, <1>5, <1>f DEF Store, Warranted, MayUpload, Uploaded, MayRename, MayFetch, Fetched
  <2>3. remote'[p] = e
    BY <1>2, <1>f DEF Store, WithDirs
  <2>4. e \in RemoteEntry /\ e.body = local[p] /\ e.etag = nextEtag
    BY <1>4, <2>2 DEF RemoteEntry, TypeOK, MayUpload
  <2>5. Uploaded(p)'
    BY <1>f, <2>1, <2>2, <2>3, <2>4, NoneAssumption DEF Store, MayUpload, Uploaded, Exists, Holds
  <2> QED
    BY <1>8, <2>2, <2>5 DEF Warranted
<1>g. CASE GiveUp(p) \/ Record(p)
  BY <1>6, <1>g DEF GiveUp, Record, Warranted
<1> QED
  BY <1>1, <1>a, <1>b, <1>c, <1>d, <1>e, <1>f, <1>g

\* A temporary file comes with the write of its task and goes with the rename.
LEMMA FileTemps ==
  ASSUME TypeOK, Calm, NamesApart, Contents, KeepInv, NEW p \in Files, FilePropagation(p)
  PROVE  Temps'
<1>1. /\ task[p] # None
      /\ \/ SetAside(p) \/ Fetch(p) \/ SaveTmp(p) \/ PutInPlace(p)
         \/ Measure(p) \/ Store(p) \/ GiveUp(p) \/ Record(p)
  BY FileOutcome, SMT
<1>2. /\ ~Temporary(p) /\ TmpPath(p) # p /\ TmpPath(p) \in Files
      /\ Exists(local, TmpPath(p)) => task[p].pc = "written"
      /\ \A c \in Files : c = make_conflict_path(p, stamp + 1) => ~Temporary(c)
  BY <1>1, OwnNames
<1>3. /\ DOMAIN local = Path /\ DOMAIN task = Path /\ Files \subseteq Path
      /\ Above(p) \subseteq Dirs /\ Files \cap Dirs = {}
  BY PathAssumption, ZenonT(60) DEF TypeOK, Maps, Files
<1> SUFFICES ASSUME NEW g \in Files, Temporary(g)
             PROVE  /\ ~Exists(remote', g) /\ journal'[g] = None /\ task'[g] = None
                    /\ Exists(local', g) =>
                         \E q \in Files : TmpPath(q) = g /\ task'[q] # None /\ task'[q].pc = "written"
  BY DEF Temps, Temporary, Exists
<1>4. g # p /\ ~Exists(remote, g) /\ journal[g] = None /\ task[g] = None
  BY <1>2 DEF KeepInv, Temps
<1>5. ~Exists(remote', g) /\ journal'[g] = None /\ task'[g] = None
  BY <1>3, <1>4, FileFrame DEF Exists
<1>6. CASE g # TmpPath(p)
  <2>1. local'[g] = local[g]
    BY <1>2, <1>4, <1>6, FileFrame
  <2>2. \A q \in Files : TmpPath(q) = g => task'[q] = task[q]
    BY <1>3, <1>6, FileFrame
  <2> QED
    BY <1>5, <2>1, <2>2 DEF KeepInv, Temps, Exists
<1>7. CASE g = TmpPath(p)
  <2>1. CASE SaveTmp(p)
    <3>1. task[p] \in Task
      BY <1>1, FileFacts
    <3>2. task'[p] = [task[p] EXCEPT !.pc = "written"]
      BY <1>3, <2>1 DEF SaveTmp, Becomes
    <3>3. [task[p] EXCEPT !.pc = "written"] \in Task
      BY <3>1 DEF Task, Points
    <3>4. task'[p] # None /\ task'[p].pc = "written"
      BY <3>1, <3>2, <3>3, TaskMoved, NoneAssumption, SMT
    <3> QED
      BY <1>5, <1>7, <3>4
  <2>2. CASE PutInPlace(p)
    <3>1. local'[g] = None
      BY <1>2, <1>3, <1>7, <2>2 DEF PutInPlace
    <3> QED
      BY <1>5, <3>1 DEF Exists
  <2>3. CASE SetAside(p)
    <3>1. PICK c \in Files : /\ c = make_conflict_path(p, stamp + 1)
                             /\ local' = [local EXCEPT ![p] = None, ![c] = local[p]]
      BY <2>3 DEF SetAside
    <3>2. local'[g] = local[g] /\ ~Exists(local, g)
      BY <1>2, <1>3, <1>7, <2>3, <3>1 DEF SetAside
    <3> QED
      BY <1>5, <3>2 DEF Exists
  <2>4. CASE Fetch(p)
    <3>1. local'[g] = local[g] /\ ~Exists(local, g)
      BY <1>2, <1>3, <1>7, <2>4 DEF Fetch, WithDirs
    <3> QED
      BY <1>5, <3>1 DEF Exists
  <2>5. CASE Measure(p) \/ Store(p) \/ GiveUp(p) \/ Record(p)
    <3>1. local' = local /\ task[p].pc # "written"
      BY <2>5 DEF Measure, Store, GiveUp, Record
    <3> QED
      BY <1>2, <1>5, <1>7, <3>1 DEF Exists
  <2> QED
    BY <1>1, <2>1, <2>2, <2>3, <2>4, <2>5
<1> QED
  BY <1>6, <1>7

\* The next copy's name stays free: the second moves on with every copy.
LEMMA FileUnborn ==
  ASSUME TypeOK, Calm, NamesApart, Contents, KeepInv, NEW p \in Files, FilePropagation(p)
  PROVE  Unborn'
<1>1. /\ task[p] # None
      /\ \/ SetAside(p) \/ Fetch(p) \/ SaveTmp(p) \/ PutInPlace(p)
         \/ Measure(p) \/ Store(p) \/ GiveUp(p) \/ Record(p)
  BY FileOutcome
<1>2. /\ Temporary(TmpPath(p)) /\ (Exists(local, p) \/ Exists(remote, p))
      /\ stamp \in Nat
  BY <1>1, OwnNames DEF TypeOK
<1>3. stamp' \in {stamp, stamp + 1} /\ (SetAside(p) => stamp' = stamp + 1)
  BY <1>1 DEF SetAside, Fetch, SaveTmp, PutInPlace, Measure, Store, GiveUp, Record
<1> SUFFICES ASSUME NEW q \in Files, NEW ts \in Nat, NEW c \in Files, ts > stamp',
                    c = make_conflict_path(q, ts), ~Temporary(c)
             PROVE  ~Exists(local', c) /\ ~Exists(remote', c)
  BY DEF Unborn, Temporary, Exists
<1>4. ~Exists(local, c) /\ ~Exists(remote, c)
  <2>1. ts > stamp
    BY <1>2, <1>3, SMT
  <2> QED
    BY <2>1 DEF KeepInv, Unborn
<1>5. c # p /\ c # TmpPath(p)
  BY <1>1, <1>4, OwnNames
<1>6. ~(SetAside(p) /\ c = make_conflict_path(p, stamp + 1))
  <2>1. make_conflict_path(q, ts) = make_conflict_path(p, stamp + 1) => ts = stamp + 1
    BY <1>2, NameFacts, SMT
  <2> QED
    BY <1>2, <1>3, <2>1, SMT
<1> QED
  BY <1>4, <1>5, <1>6, FileFrame, SMT DEF Exists

\* A row keeps both sides, and stands for content that is there or unwanted.
LEMMA FileRows ==
  ASSUME TypeOK, Calm, NamesApart, Contents, KeepInv, NEW p \in Files, FilePropagation(p)
  PROVE  RowsStand' /\ Superseded'
<1>1. /\ task[p] # None /\ wanted' = wanted
      /\ \/ SetAside(p) \/ Fetch(p) \/ SaveTmp(p) \/ PutInPlace(p)
         \/ Measure(p) \/ Store(p) \/ GiveUp(p) \/ Record(p)
  BY FileOutcome
<1>2. /\ p \in Path /\ TmpPath(p) \in Files /\ TmpPath(p) # p /\ Temporary(TmpPath(p))
      /\ \A c \in Files : c = make_conflict_path(p, stamp + 1) => journal[c] = None
      /\ journal[TmpPath(p)] = None
  BY <1>1, OwnNames DEF Files, KeepInv, Temps
<1>3. /\ DOMAIN local = Path /\ DOMAIN journal = Path /\ DOMAIN task = Path /\ Files \subseteq Path
      /\ Above(p) \subseteq Dirs /\ Files \cap Dirs = {}
  BY PathAssumption, ZenonT(60) DEF TypeOK, Maps, Files
<1>4. Warranted(p) /\ Warranted(p)' /\ Progress(p) /\ task[p] \in Task /\ task[p].body \in Body
  BY <1>1, <1>2, FileFacts, FileWarranted DEF KeepInv, Contents
<1>5. ASSUME Record(p)
      PROVE  /\ Exists(remote', p) /\ Exists(local', p)
             /\ local'[p] = journal'[p].body /\ remote'[p].etag = journal'[p].etag
  <2>1. Exists(remote, p) /\ Holds(p) /\ local[p] = task[p].body
    BY <1>1, <1>4, <1>5 DEF Record, Warranted, MayUpload, Uploaded, MayRename, MayFetch, Fetched,
                            Progress
  <2>2. PICK row : /\ row.etag = task[p].etag /\ row.body = task[p].body
                   /\ journal' = [journal EXCEPT ![p] = row]
    BY <1>5 DEF Record
  <2>3. journal'[p] = row /\ local' = local /\ remote' = remote
    BY <1>2, <1>3, <1>5, <2>2 DEF Record
  <2> QED
    BY <1>4, <2>1, <2>2, <2>3, NoneAssumption DEF Exists, Holds
<1>6. ASSUME ~Record(p), journal'[p] # None
      PROVE  /\ Exists(remote', p) /\ (Exists(local', p) \/ Aside(p)')
             /\ Unwanted(journal[p].body)'
  <2>1. journal' = journal
    BY <1>1, <1>6 DEF SetAside, Fetch, SaveTmp, PutInPlace, Measure, Store, GiveUp
  <2>2. /\ Exists(remote, p) /\ (Exists(local, p) \/ Aside(p)) /\ Unwanted(journal[p].body)
    BY <1>1, <1>2, <1>4, <1>6, <2>1 DEF KeepInv, RowsStand, Warranted
  <2>3. Unwanted(journal[p].body)'
    BY <1>1, <2>1, <2>2 DEF Unwanted
  <2>4. CASE task'[p] # None
    <3>1. Exists(remote', p)
      <4>1. ~MayUpload(p)' => Exists(remote', p)
        BY <1>4, <2>4 DEF Warranted, Uploaded, MayRename, MayFetch, Fetched, Exists
      <4>2. MayUpload(p)' => remote' = remote
        <5>1. MayUpload(p)' => task'[p].pc # "stored"
          BY DEF MayUpload
        <5>2. Store(p) => task'[p].pc = "stored"
          BY <1>2, <1>3, <1>4, TaskMoved, SMT DEF Store, Becomes
        <5> QED
          BY <1>1, <1>6, <5>1, <5>2 DEF SetAside, Fetch, SaveTmp, PutInPlace, Measure, GiveUp
      <4> QED
        BY <2>2, <4>1, <4>2
    <3>2. Exists(local', p) \/ Aside(p)'
      <4>1. CASE SetAside(p) \/ Fetch(p) \/ SaveTmp(p)
        <5>1. /\ task'[p].op = task[p].op /\ task'[p].pc \in {"renamed", "got", "written"}
              /\ task[p].op \in {"Conflict", "Download"}
              /\ SetAside(p) => task[p].op = "Conflict"
          <6>1. CASE SetAside(p)
            BY <1>2, <1>3, <1>4, <6>1, TaskMoved, SMT DEF SetAside, Becomes
          <6>2. CASE Fetch(p) /\ ~SetAside(p)
            <7>1. \A t : Becomes(p, t) => task'[p] = t
              BY <1>2, <1>3 DEF Becomes
            <7>2. task'[p] = [task[p] EXCEPT !.pc = "got", !.body = remote[p].body,
                                             !.etag = remote[p].etag]
              BY <6>2, <7>1 DEF Fetch
            <7>3. task'[p].op = task[p].op /\ task'[p].pc = "got"
              BY <1>4, <7>2, TaskMoved, SMT
            <7> QED
              BY <6>2, <7>3 DEF Fetch
          <6>3. CASE SaveTmp(p) /\ ~SetAside(p)
            BY <1>2, <1>3, <1>4, <6>3, TaskMoved, SMT DEF SaveTmp, Becomes
          <6> QED
            BY <4>1, <6>1, <6>2, <6>3
        <5>2. CASE task[p].op = "Conflict"
          BY <2>4, <5>1, <5>2 DEF Aside
        <5>3. CASE task[p].op # "Conflict"
          <6>1. local'[p] = local[p]
            BY <1>2, <1>3, <4>1, <5>1, <5>3 DEF Fetch, SaveTmp, WithDirs
          <6> QED
            BY <2>2, <5>3, <6>1 DEF Aside, Exists
        <5> QED
          BY <5>2, <5>3
      <4>2. CASE PutInPlace(p)
        <5>1. local'[p] = local[TmpPath(p)] /\ local[TmpPath(p)] = task[p].body
          BY <1>1, <1>2, <1>3, <1>4, <4>2 DEF PutInPlace, Progress
        <5> QED
          BY <1>4, <5>1, NoneAssumption DEF Exists
      <4>3. CASE Measure(p) \/ Store(p) \/ GiveUp(p)
        BY <2>2, <4>3 DEF Measure, Store, GiveUp, Aside, Exists
      <4> QED
        BY <1>1, <1>6, <4>1, <4>2, <4>3
    <3> QED
      BY <2>3, <3>1, <3>2
  <2>5. CASE task'[p] = None
    <3>1. GiveUp(p)
      <4>1. \A t : t \in Task => t # None
        BY NoneAssumption
      <4>2. /\ [task[p] EXCEPT !.pc = "renamed"] \in Task
            /\ [task[p] EXCEPT !.pc = "written"] \in Task
            /\ [task[p] EXCEPT !.pc = "installed"] \in Task
        BY <1>4 DEF Task, Points
      <4>3. ~(SetAside(p) \/ SaveTmp(p) \/ PutInPlace(p))
        BY <1>2, <1>3, <2>5, <4>1, <4>2 DEF SetAside, SaveTmp, PutInPlace, Becomes
      <4>4. ASSUME Fetch(p) PROVE FALSE
        <5>1. remote[p] \in RemoteEntry
          BY <1>2, <2>2 DEF TypeOK, Maps, Exists
        <5>2. [task[p] EXCEPT !.pc = "got", !.body = remote[p].body, !.etag = remote[p].etag] \in Task
          BY <1>4, <5>1 DEF Task, Points, RemoteEntry
        <5> QED
          BY <1>2, <1>3, <2>5, <4>1, <4>4, <5>2 DEF Fetch, Becomes
      <4>5. ASSUME Measure(p) \/ Store(p) PROVE FALSE
        <5>1. local[p] \in Body /\ nextEtag \in Nat
          BY <1>1, <1>2, <1>4, <4>5, FileFacts, SMT
             DEF Measure, Store, Warranted, MayUpload, Uploaded, MayRename, MayFetch, Fetched, TypeOK
        <5>2. /\ [task[p] EXCEPT !.pc = "stated", !.size = local[p].size] \in Task
              /\ [task[p] EXCEPT !.pc = "stored", !.body = local[p], !.etag = nextEtag] \in Task
          BY <1>4, <5>1 DEF Task, Points, Body
        <5> QED
          BY <1>2, <1>3, <2>5, <4>1, <4>5, <5>2, SMTT(30) DEF Measure, Store, Becomes
      <4> QED
        BY <1>1, <1>6, <4>3, <4>4, <4>5
    <3> QED
      BY <2>2, <2>3, <3>1 DEF GiveUp, Aside, Exists
  <2> QED
    BY <2>4, <2>5
<1>7. ASSUME NEW g \in Path \ {p}, journal'[g] # None
      PROVE  /\ journal'[g] = journal[g] /\ task'[g] = task[g]
             /\ Exists(remote, g) /\ remote'[g] = remote[g]
             /\ (Exists(local, g) \/ g \in Files) => local'[g] = local[g]
  <2>1. journal'[g] = journal[g] /\ task'[g] = task[g] /\ Exists(remote, g)
    BY <1>7, FileFrame DEF KeepInv, RowsStand
  <2>2. g # TmpPath(p) /\ ~(SetAside(p) /\ g = make_conflict_path(p, stamp + 1) /\ g \in Files)
    BY <1>2, <1>7, <2>1
  <2> QED
    BY <1>3, <2>1, <2>2, FileFrame
<1>8. RowsStand'
  <2> SUFFICES ASSUME NEW g \in Path, journal'[g] # None
               PROVE  Exists(remote', g) /\ (Exists(local', g) \/ Aside(g)')
    BY DEF RowsStand, Exists
  <2>1. CASE g = p
    BY <1>5, <1>6, <2>1
  <2>2. CASE g # p
    <3>1. Exists(local, g) \/ Aside(g)
      BY <1>7, <2>2 DEF KeepInv, RowsStand
    <3> QED
      BY <1>7, <2>2, <3>1 DEF Exists, Aside
  <2> QED
    BY <2>1, <2>2
<1>9. Superseded'
  <2> SUFFICES ASSUME NEW g \in Files, journal'[g] # None,
                      local'[g] # journal'[g].body \/ remote'[g].etag # journal'[g].etag
               PROVE  Unwanted(journal[g].body)'
    BY DEF Superseded
  <2>1. CASE g = p
    BY <1>5, <1>6, <2>1
  <2>2. CASE g # p
    BY <1>1, <1>3, <1>7, <2>2 DEF KeepInv, Superseded, Unwanted
  <2> QED
    BY <2>1, <2>2
<1> QED
  BY <1>8, <1>9

\* A wanted version is one that was written.
LEMMA WantedVersions ==
  ASSUME TypeOK, Fresh, NEW v \in wanted
  PROVE  v \in 1..edits /\ Written(v) \in Body /\ Written(v) # None /\ Written(v).ver = v
<1>1. v \in 1..edits /\ edits \in 0..MaxEdits /\ MaxEdits \in Nat
  BY BoundTypes DEF Fresh, TypeOK
<1>2. v \in 1..MaxEdits /\ v \in Nat
  BY <1>1, SMT
<1>3. SizeOf(v) \in Nat
  BY <1>2, ConfigAssumption
<1>4. Written(v) \in Body
  BY <1>2, <1>3 DEF Written, Body
<1> QED
  BY <1>1, <1>4, NoneAssumption DEF Written

\* What a step of a file's task overwrites is unwanted, or somewhere else by then.
LEMMA FileNoLoss ==
  ASSUME TypeOK, Calm, NamesApart, Contents, KeepInv, NEW p \in Files, FilePropagation(p)
  PROVE  NoLoss'
<1>1. /\ task[p] # None /\ wanted' = wanted
      /\ \/ SetAside(p) \/ Fetch(p) \/ SaveTmp(p) \/ PutInPlace(p)
         \/ Measure(p) \/ Store(p) \/ GiveUp(p) \/ Record(p)
  BY FileOutcome, SMT
<1>2. /\ p \in Path /\ TmpPath(p) \in Files /\ TmpPath(p) \in Path /\ TmpPath(p) # p
      /\ Exists(local, TmpPath(p)) => task[p].pc = "written"
      /\ \A c \in Files : c = make_conflict_path(p, stamp + 1) => c # p
  BY <1>1, OwnNames DEF Files
<1>3. /\ DOMAIN local = Path /\ DOMAIN remote = Path /\ Files \subseteq Path
      /\ Above(p) \subseteq Dirs /\ Files \cap Dirs = {}
  BY PathAssumption, ZenonT(60) DEF TypeOK, Maps, Files
<1>4. Warranted(p)
  BY <1>2 DEF KeepInv
<1> SUFFICES ASSUME NEW v \in wanted
             PROVE  \E q \in Path : \/ local'[q] = Written(v)
                                    \/ remote'[q] # None /\ remote'[q].body = Written(v)
  BY <1>1 DEF NoLoss, Alive, Exists, Written
<1>5. Written(v) # None /\ Written(v).ver = v
  BY WantedVersions DEF KeepInv
<1>6. PICK q \in Path : \/ local[q] = Written(v)
                        \/ Exists(remote, q) /\ remote[q].body = Written(v)
  BY DEF KeepInv, NoLoss, Alive
<1>7. CASE local[q] = Written(v)
  <2>1. CASE q \notin {p, TmpPath(p)}
    BY <1>5, <1>7, <2>1, FileFrame DEF Exists
  <2>2. CASE q = TmpPath(p)
    <3>1. task[p].pc = "written"
      BY <1>2, <1>5, <1>7, <2>2 DEF Exists
    <3>2. PutInPlace(p)
      BY <1>1, <3>1 DEF SetAside, Fetch, SaveTmp, Measure, Store, GiveUp, Record
    <3>3. local'[p] = local[TmpPath(p)]
      BY <1>2, <1>3, <3>2 DEF PutInPlace
    <3> QED
      BY <1>2, <1>7, <2>2, <3>3
  <2>3. CASE q = p
    <3>1. CASE SetAside(p)
      <4>1. PICK c \in Files : /\ c = make_conflict_path(p, stamp + 1)
                               /\ local' = [local EXCEPT ![p] = None, ![c] = local[p]]
        BY <3>1 DEF SetAside
      <4>2. local'[c] = local[p] /\ c \in Path
        BY <1>2, <1>3, <4>1
      <4> QED
        BY <1>7, <2>3, <4>2
    <3>2. CASE PutInPlace(p)
      <4>1. MayFetch(p)
        BY <1>1, <1>4, <3>2 DEF PutInPlace, Warranted, MayUpload, Uploaded, MayRename, Fetched
      <4> QED
        BY <1>5, <1>7, <2>3, <4>1 DEF MayFetch, Exists, Unwanted
    <3>3. CASE Fetch(p)
      BY <1>2, <1>3, <1>7, <2>3, <3>3 DEF Fetch, WithDirs
    <3>4. CASE SaveTmp(p)
      BY <1>2, <1>3, <1>7, <2>3, <3>4 DEF SaveTmp
    <3>5. CASE Measure(p) \/ Store(p) \/ GiveUp(p) \/ Record(p)
      BY <1>7, <2>3, <3>5 DEF Measure, Store, GiveUp, Record
    <3> QED
      BY <1>1, <3>1, <3>2, <3>3, <3>4, <3>5
  <2> QED
    BY <2>1, <2>2, <2>3
<1>8. CASE Exists(remote, q) /\ remote[q].body = Written(v)
  <2>1. CASE q # p
    BY <1>8, <2>1, FileFrame DEF Exists
  <2>2. CASE q = p /\ ~Store(p)
    <3>1. remote' = remote
      BY <1>1, <2>2 DEF SetAside, Fetch, SaveTmp, PutInPlace, Measure, GiveUp, Record
    <3> QED
      BY <1>8, <3>1 DEF Exists
  <2>3. CASE q = p /\ Store(p)
    <3>1. MayUpload(p)
      BY <1>1, <1>4, <2>3 DEF Store, Warranted, Uploaded, MayRename, MayFetch, Fetched
    <3> QED
      BY <1>5, <1>8, <2>3, <3>1 DEF MayUpload, Unwanted
  <2> QED
    BY <2>1, <2>2, <2>3
<1> QED
  BY <1>6, <1>7, <1>8

\* A step of a file's task keeps the invariant.
LEMMA FileKeeps ==
  ASSUME TypeOK, Calm, NamesApart, Contents, KeepInv, NEW p \in Files, FilePropagation(p)
  PROVE  KeepInv'
<1>1. /\ task[p] # None /\ wanted' = wanted /\ edits' = edits /\ phase = "propagating"
      /\ phase' = phase /\ found' = found
  BY FileOutcome
<1>2. Snapshot' /\ Fresh'
  BY <1>1, SMT DEF KeepInv, Snapshot, NotFound, Fresh
<1>3. ASSUME NEW g \in Path PROVE Warranted(g)'
  <2>1. CASE g = p
    BY <2>1, FileWarranted
  <2>2. CASE g # p
    <3>1. /\ journal'[g] = journal[g] /\ task'[g] = task[g]
          /\ Exists(remote, g) => remote'[g] = remote[g]
          /\ g \in Files => remote'[g] = remote[g]
      BY <2>2, FileFrame
    <3>2. /\ Above(g) \subseteq Dirs /\ Above(g) \subseteq Path /\ Warranted(g)
          /\ p \notin Dirs /\ TmpPath(p) \notin Dirs /\ Dirs \subseteq Path
      BY PathAssumption DEF Files, KeepInv
    <3>3. \A d \in Above(g) : Exists(local, d) => Exists(local', d)
      <4>1. \A d \in Path \ {p, TmpPath(p)} : Exists(local, d) => local'[d] = local[d]
        BY FileFrame
      <4> QED
        BY <3>2, <4>1 DEF Exists
    <3>4. ASSUME task[g] # None, g \in Files PROVE local'[g] = local[g]
      BY <2>2, <3>4, Undisturbed DEF Still
    <3>5. ASSUME task[g] # None, Exists(local, g) PROVE local'[g] = local[g]
      <4>1. CASE g \in Files
        BY <3>4, <3>5, <4>1
      <4>2. CASE g \notin Files
        <5>1. g \in Path \ {p, TmpPath(p)}
          BY <2>2, <4>2, PathAssumption DEF Files
        <5> QED
          BY <3>5, <5>1, FileFrame
      <4> QED
        BY <4>1, <4>2
    <3> QED
      BY <1>1, <3>1, <3>2, <3>3, <3>4, <3>5, WarrantKept
  <2> QED
    BY <2>1, <2>2
<1>4. Temps' /\ Unborn' /\ RowsStand' /\ Superseded' /\ NoLoss'
  BY FileTemps, FileUnborn, FileRows, FileNoLoss
<1> QED
  BY <1>2, <1>3, <1>4 DEF KeepInv

\* A step that changes no file, takes nothing away and at most ends the tasks of
\* directories.
LEMMA CalmFrame ==
  ASSUME TypeOK, KeepInv, UNCHANGED <<wanted, stamp>>,
         \A g \in Path : /\ Exists(local, g) => local'[g] = local[g]
                         /\ Exists(remote, g) => remote'[g] = remote[g],
         \A g \in Files : /\ local'[g] = local[g] /\ remote'[g] = remote[g]
                          /\ journal'[g] = journal[g] /\ task'[g] = task[g],
         \A g \in Dirs : task'[g] = None \/ (task'[g] = task[g] /\ journal'[g] = journal[g])
  PROVE  /\ Temps' /\ Unborn' /\ Superseded' /\ NoLoss'
         /\ \A g \in Path : Warranted(g)'
<1>1. Temps'
  BY SMT DEF KeepInv, Temps, Exists, Temporary
<1>2. Unborn'
  BY DEF KeepInv, Unborn, Exists, Temporary
<1>3. Superseded'
  BY DEF KeepInv, Superseded, Unwanted
<1>4. NoLoss'
  <2> SUFFICES ASSUME NEW v \in wanted
               PROVE  \E q \in Path : \/ local'[q] = Written(v)
                                      \/ remote'[q] # None /\ remote'[q].body = Written(v)
    BY DEF NoLoss, Alive, Exists, Written
  <2>1. PICK q \in Path : \/ local[q] = Written(v)
                          \/ Exists(remote, q) /\ remote[q].body = Written(v)
    BY DEF KeepInv, NoLoss, Alive
  <2>2. Written(v) # None
    BY WantedVersions DEF KeepInv
  <2> QED
    BY <2>1, <2>2 DEF Exists
<1>5. ASSUME NEW g \in Path PROVE Warranted(g)'
  <2>1. g \in Files \/ g \in Dirs
    BY DEF Files
  <2>2. Above(g) \subseteq Path /\ Warranted(g)
    BY PathAssumption DEF KeepInv
  <2>3. \A d \in Above(g) : Exists(local, d) => Exists(local', d)
    BY <2>2 DEF Exists
  <2>4. CASE task'[g] = None
    BY <2>4 DEF Warranted
  <2>5. CASE task'[g] # None
    BY <2>1, <2>2, <2>3, <2>5, WarrantKept
  <2> QED
    BY <2>4, <2>5
<1> QED
  BY <1>1, <1>2, <1>3, <1>4, <1>5

\* A step of the directory phase makes directories and never removes any.
LEMMA DirOutcome ==
  ASSUME TypeOK, Calm, KeepInv, NEW d \in Dirs, DirPropagation(d)
  PROVE  /\ task' = [task EXCEPT ![d] = None] /\ task[d] # None /\ task[d].pc = "queued"
         /\ UNCHANGED <<wanted, stamp, edits, phase, found>> /\ phase = "propagating"
         /\ \/ local' = local
            \/ local' = WithDirs(local, Above(d) \cup {d}, DirBody)
         /\ remote' = remote \/ remote' = WithDirs(remote, {d}, DirEntry)
         /\ \/ journal' = journal
            \/ /\ journal' = [journal EXCEPT ![d] = DirRow]
               /\ Exists(local', d) /\ Exists(remote', d)
<1>1. d \in Path /\ Warranted(d) /\ ~Fault
  BY PathAssumption, NoFaults DEF KeepInv
<1>2. \A op : DirStep(d, op) =>
        /\ task[d] # None /\ task[d].op = op /\ task[d].pc = "queued"
        /\ UNCHANGED <<wanted, stamp, edits, phase, found>> /\ phase = "propagating"
  BY DEF DirStep, At, Propagating, history
<1>3. /\ \A row : Records(d, row) => journal' = [journal EXCEPT ![d] = row]
      /\ \A st : Ends(d, st) => task' = [task EXCEPT ![d] = None]
      /\ Fails(d) => task' = [task EXCEPT ![d] = None] /\ journal' = journal
  BY <1>1 DEF Records, Ends, Fails
<1>4. DirBody # None /\ DirEntry # None
  BY DataTypes, NoneAssumption
<1>5. /\ WithDirs(local, Above(d) \cup {d}, DirBody)[d] # None
      /\ WithDirs(remote, {d}, DirEntry)[d] # None
  BY <1>1, <1>4 DEF WithDirs
<1>6. CASE DirUpload(d)
  <2>1. DirStep(d, "Upload") /\ local' = local
    BY <1>6 DEF DirUpload
  <2>2. Exists(local, d)
    BY <1>1, <1>2, <2>1, SMT DEF Warranted, MayUpload, Uploaded, MayRename, MayFetch, Fetched
  <2>3. \/ /\ remote' = WithDirs(remote, {d}, DirEntry) /\ Records(d, DirRow) /\ Ends(d, "Ok")
        \/ remote' = remote /\ Fails(d)
    BY <1>1, <1>6 DEF DirUpload
  <2> QED
    BY <1>2, <1>3, <1>5, <2>1, <2>2, <2>3 DEF Exists
<1>7. CASE DirDownload(d)
  <2>1. DirStep(d, "Download") /\ remote' = remote
    BY <1>7 DEF DirDownload
  <2>2. Exists(remote, d)
    BY <1>1, <1>2, <2>1, SMT DEF Warranted, MayUpload, Uploaded, MayRename, MayFetch, Fetched
  <2>3. /\ local' = WithDirs(local, Above(d) \cup {d}, DirBody)
        /\ Records(d, DirRow) /\ Ends(d, "Ok")
    BY <1>1, <1>7 DEF DirDownload
  <2> QED
    BY <1>2, <1>3, <1>5, <2>1, <2>2, <2>3 DEF Exists
<1>8. CASE DirDeleteRemote(d) \/ DirDeleteLocal(d)
  <2>1. DirStep(d, "DeleteRemote") \/ DirStep(d, "DeleteLocal")
    BY <1>8 DEF DirDeleteRemote, DirDeleteLocal
  <2> QED
    BY <1>1, <1>2, <2>1, SMT DEF Warranted, MayUpload, Uploaded, MayRename, MayFetch, Fetched
<1>9. CASE DirConflict(d)
  BY <1>2, <1>9 DEF DirConflict, trees
<1> QED
  BY <1>6, <1>7, <1>8, <1>9 DEF DirPropagation

\* The directory phase keeps the invariant.
LEMMA DirKeeps ==
  ASSUME TypeOK, Calm, KeepInv, NEW d \in Dirs, DirPropagation(d)
  PROVE  KeepInv'
<1>1. /\ task' = [task EXCEPT ![d] = None] /\ task[d] # None /\ task[d].pc = "queued"
      /\ UNCHANGED <<wanted, stamp, edits, phase, found>> /\ phase = "propagating"
      /\ \/ local' = local
         \/ local' = WithDirs(local, Above(d) \cup {d}, DirBody)
      /\ remote' = remote \/ remote' = WithDirs(remote, {d}, DirEntry)
      /\ \/ journal' = journal
         \/ /\ journal' = [journal EXCEPT ![d] = DirRow]
            /\ Exists(local', d) /\ Exists(remote', d)
  BY DirOutcome
<1>2. /\ DOMAIN journal = Path /\ DOMAIN task = Path /\ d \in Path /\ Above(d) \subseteq Dirs
      /\ Files \subseteq Path /\ Files \cap Dirs = {} /\ Dirs \subseteq Path
  BY PathAssumption, ZenonT(60) DEF TypeOK, Maps, Files
<1>3. /\ \A g \in Path : Exists(local, g) => local'[g] = local[g]
      /\ \A g \in Files : local'[g] = local[g]
  BY <1>1, <1>2 DEF WithDirs, Exists
<1>4. /\ \A g \in Path : Exists(remote, g) => remote'[g] = remote[g]
      /\ \A g \in Files : remote'[g] = remote[g]
  BY <1>1, <1>2 DEF WithDirs, Exists
<1>5. /\ \A g \in Path \ {d} : task'[g] = task[g] /\ journal'[g] = journal[g]
      /\ task'[d] = None
  BY <1>1, <1>2
<1>6. /\ Temps' /\ Unborn' /\ Superseded' /\ NoLoss'
      /\ \A g \in Path : Warranted(g)'
  <2>1. \A g \in Files : journal'[g] = journal[g] /\ task'[g] = task[g]
    BY <1>2, <1>5
  <2>2. \A g \in Dirs : task'[g] = None \/ (task'[g] = task[g] /\ journal'[g] = journal[g])
    BY <1>2, <1>5
  <2> QED
    BY <1>1, <1>3, <1>4, <2>1, <2>2, CalmFrame, SMT
<1>7. RowsStand'
  <2> SUFFICES ASSUME NEW g \in Path, journal'[g] # None
               PROVE  Exists(remote', g) /\ (Exists(local', g) \/ Aside(g)')
    BY DEF RowsStand, Exists
  <2>1. CASE journal'[g] = journal[g]
    <3>1. Exists(remote, g) /\ (Exists(local, g) \/ Aside(g))
      BY <2>1 DEF KeepInv, RowsStand
    <3>2. Aside(g) => g # d
      BY <1>1 DEF Aside
    <3> QED
      BY <1>3, <1>4, <1>5, <3>1, <3>2 DEF Exists, Aside
  <2>2. CASE journal'[g] # journal[g]
    BY <1>1, <1>5, <2>2
  <2> QED
    BY <2>1, <2>2
<1>8. Snapshot' /\ Fresh'
  BY <1>1, SMT DEF KeepInv, Snapshot, NotFound, Fresh
<1> QED
  BY <1>6, <1>7, <1>8 DEF KeepInv

\* A row's content stays unwanted when a new version is wanted, and becomes so when
\* it is replaced.
LEMMA StaysUnwanted ==
  ASSUME TypeOK, Calm, Fresh, Contents, NEW g \in Files, journal[g] # None, NEW replaced,
         wanted' = (wanted \ replaced) \cup {edits + 1} \/ wanted' = wanted \ replaced,
         Unwanted(journal[g].body) \/ journal[g].body.ver \in replaced
  PROVE  journal[g].body.ver \notin wanted'
<1>1. Known(edits, journal[g].body) /\ edits \in Nat
  <2>1. Known(edits, journal[g].body)
    BY DEF Contents, Content, Sound, MayBeCut, Calm
  <2> QED
    BY <2>1, SMT DEF TypeOK
<1>2. journal[g].body.ver # edits + 1
  <2>1. CASE journal[g].body = Empty
    <3>1. journal[g].body.ver = 0
      BY <2>1, SMT DEF Empty
    <3> QED
      BY <1>1, <3>1, SMT
  <2>2. ASSUME NEW k \in 1..edits, journal[g].body = Written(k)
        PROVE  journal[g].body.ver # edits + 1
    <3>1. journal[g].body.ver = k
      BY <2>2, SMT DEF Written
    <3> QED
      BY <1>1, <3>1, SMT
  <2> QED
    BY <1>1, <2>1, <2>2 DEF Known
<1> QED
  BY <1>2, SMT DEF Unwanted

\* Edits between runs keep the invariant: a version is wanted where it was written,
\* and no longer the one it replaces there.
LEMMA EditKeeps ==
  ASSUME Calm, NamesApart, IdleHasNoTasks, EtagInv, Contents, KeepInv, Environment
  PROVE  KeepInv'
<1>t. TypeOK /\ Fresh /\ edits \in Nat
  BY SMT DEF EtagInv, KeepInv, TypeOK
<1>1. PICK p \in UserPaths : UserWrite(p) \/ RemoteWrite(p)
  BY DEF Environment, UserDelete, RemoteDelete, Calm
<1>2. /\ edits' = edits + 1 /\ phase = "idle" /\ task = Nothing
      /\ journal' = journal /\ phase' = phase /\ found' = found /\ task' = task /\ stamp' = stamp
  BY <1>1 DEF UserWrite, RemoteWrite, Edit, Calm, IdleHasNoTasks, run
<1>3. /\ DOMAIN local = Path /\ DOMAIN remote = Path /\ p \in Path /\ Files \subseteq Path
      /\ Files \cap Dirs = {} /\ (p \in Files \/ p \in Dirs) /\ Dirs \subseteq Path
  BY <1>t, PathAssumption, ZenonT(60) DEF TypeOK, Maps, Files
<1>4. \A g \in Path : task[g] = None /\ task'[g] = None
  BY <1>2 DEF Nothing
<1>5. Snapshot'
  BY <1>2, SMT DEF KeepInv, Snapshot, NotFound
<1>6. \A g \in Path : Warranted(g)'
  BY <1>4 DEF Warranted
<1>7. p \in Files =>
        ~Temporary(p) /\ \A q \in Files : \A ts \in Nat : p # make_conflict_path(q, ts)
  BY DEF NamesApart
<1>8. \A g \in Path : journal[g] # None => Exists(local, g) /\ Exists(remote, g)
  BY <1>4 DEF KeepInv, RowsStand, Aside
<1>9. /\ wanted' \subseteq wanted \cup {edits + 1}
      /\ p \in Dirs => wanted' = wanted
  <2>1. /\ UserWrite(p) => Wants(p, LocalVersions({p}))
        /\ RemoteWrite(p) => Wants(p, RemoteVersions({p}))
    BY DEF UserWrite, RemoteWrite
  <2>2. \A replaced : Wants(p, replaced) =>
          /\ wanted' \subseteq wanted \cup {edits + 1}
          /\ p \in Dirs => wanted' = wanted \ replaced
    BY <1>2, <1>3 DEF Wants
  <2>3. /\ p \in Dirs /\ UserWrite(p) => LocalVersions({p}) = {}
        /\ p \in Dirs /\ RemoteWrite(p) => RemoteVersions({p}) = {}
    BY DEF UserWrite, RemoteWrite, LocalVersions, RemoteVersions
  <2> QED
    BY <1>1, <2>1, <2>2, <2>3
<1>10. Fresh'
  BY <1>t, <1>2, <1>9, SMT DEF Fresh
<1>11. CASE p \in Dirs
  <2>1. \A g \in Path : /\ Exists(local, g) => local'[g] = local[g]
                        /\ Exists(remote, g) => remote'[g] = remote[g]
    BY <1>1, <1>3, <1>11 DEF UserWrite, RemoteWrite, Exists
  <2>2. \A g \in Files : local'[g] = local[g] /\ remote'[g] = remote[g]
    BY <1>1, <1>3, <1>11 DEF UserWrite, RemoteWrite
  <2>3. Temps' /\ Unborn' /\ Superseded' /\ NoLoss'
    BY <1>t, <1>2, <1>9, <1>11, <2>1, <2>2, CalmFrame
  <2>4. RowsStand'
    BY <1>2, <1>8, <2>1 DEF RowsStand, Exists
  <2> QED
    BY <1>5, <1>6, <1>10, <2>3, <2>4 DEF KeepInv
<1>12. CASE p \in Files /\ UserWrite(p)
  <2> DEFINE old == LocalVersions({p})
  <2>1. /\ local' = [local EXCEPT ![p] = Written(edits + 1)] /\ remote' = remote
        /\ wanted' = (wanted \ old) \cup {edits + 1}
    BY <1>2, <1>3, <1>12 DEF UserWrite, Wants
  <2>2. local'[p] = Written(edits + 1) /\ \A g \in Path \ {p} : local'[g] = local[g]
    BY <1>3, <2>1
  <2>3. Exists(local, p) => local[p].ver \in old
    BY DEF LocalVersions
  <2>4. Written(edits + 1) # None
    <3>1. edits + 1 \in 1..MaxEdits
      BY <1>t, <1>12, BoundTypes, SMT DEF UserWrite, Edit
    <3>2. Written(edits + 1) \in Body
      BY <1>t, <3>1, ConfigAssumption, SMT DEF Written, Body
    <3> QED
      BY <3>2, NoneAssumption
  <2> HIDE DEF old
  <2>5. Temps'
    BY <1>2, <1>3, <1>7, <1>12, <2>1, <2>2 DEF KeepInv, Temps, Exists, Temporary
  <2>6. Unborn'
    BY <1>2, <1>3, <1>7, <1>12, <2>1, <2>2, SMT DEF KeepInv, Unborn, Exists, Temporary
  <2>7. RowsStand'
    BY <1>2, <1>8, <2>1, <2>2, <2>4 DEF RowsStand, Exists
  <2>8. Superseded'
    <3> SUFFICES ASSUME NEW g \in Files, journal[g] # None,
                        local'[g] # journal[g].body \/ remote[g].etag # journal[g].etag
                 PROVE  journal[g].body.ver \notin wanted'
      BY <1>2, <2>1 DEF Superseded, Unwanted
    <3>1. Unwanted(journal[g].body) \/ journal[g].body.ver \in old
      <4>1. local[g] # journal[g].body \/ remote[g].etag # journal[g].etag
            => Unwanted(journal[g].body)
        BY DEF KeepInv, Superseded
      <4> QED
        BY <1>3, <1>8, <2>2, <2>3, <4>1
    <3> QED
      BY <1>t, <2>1, <3>1, StaysUnwanted
  <2>9. NoLoss'
    <3> SUFFICES ASSUME NEW v \in wanted'
                 PROVE  \E q \in Path : \/ local'[q] = Written(v)
                                        \/ remote[q] # None /\ remote[q].body = Written(v)
      BY <2>1 DEF NoLoss, Alive, Exists, Written
    <3>1. CASE v = edits + 1
      BY <1>3, <2>2, <3>1
    <3>2. CASE v # edits + 1
      <4>1. v \in wanted /\ v \notin old
        BY <2>1, <3>2
      <4>2. PICK q \in Path : \/ local[q] = Written(v)
                              \/ Exists(remote, q) /\ remote[q].body = Written(v)
        BY <4>1 DEF KeepInv, NoLoss, Alive
      <4>3. Written(v) # None /\ Written(v).ver = v
        BY <1>t, <4>1, WantedVersions
      <4>4. local[q] = Written(v) => q # p
        BY <2>3, <4>1, <4>3 DEF Exists
      <4> QED
        BY <2>2, <4>2, <4>4 DEF Exists
    <3> QED
      BY <3>1, <3>2
  <2> QED
    BY <1>5, <1>6, <1>10, <2>5, <2>6, <2>7, <2>8, <2>9 DEF KeepInv
<1>13. CASE p \in Files /\ RemoteWrite(p)
  <2> DEFINE old == RemoteVersions({p})
             e   == [body |-> Written(edits + 1), etag |-> nextEtag]
  <2>1. /\ remote' = [remote EXCEPT ![p] = e] /\ local' = local
        /\ wanted' = (wanted \ old) \cup {edits + 1}
    BY <1>2, <1>3, <1>13 DEF RemoteWrite, Wants
  <2>2. remote'[p] = e /\ \A g \in Path \ {p} : remote'[g] = remote[g]
    BY <1>3, <2>1
  <2>3. Exists(remote, p) => remote[p].body.ver \in old
    BY DEF RemoteVersions
  <2>4. e # None /\ e.body = Written(edits + 1)
    <3>1. edits + 1 \in 1..MaxEdits
      BY <1>t, <1>13, BoundTypes, SMT DEF RemoteWrite, Edit
    <3>2. Written(edits + 1) \in Body
      BY <1>t, <3>1, ConfigAssumption, SMT DEF Written, Body
    <3>3. e \in RemoteEntry
      BY <1>t, <3>2 DEF RemoteEntry, TypeOK
    <3> QED
      BY <3>3, NoneAssumption
  <2> HIDE DEF old, e
  <2>5. Temps'
    BY <1>2, <1>3, <1>7, <1>13, <2>1, <2>2 DEF KeepInv, Temps, Exists, Temporary
  <2>6. Unborn'
    BY <1>2, <1>3, <1>7, <1>13, <2>1, <2>2, SMT DEF KeepInv, Unborn, Exists, Temporary
  <2>7. RowsStand'
    BY <1>2, <1>8, <2>1, <2>2, <2>4 DEF RowsStand, Exists
  <2>8. Superseded'
    <3> SUFFICES ASSUME NEW g \in Files, journal[g] # None,
                        local[g] # journal[g].body \/ remote'[g].etag # journal[g].etag
                 PROVE  journal[g].body.ver \notin wanted'
      BY <1>2, <2>1 DEF Superseded, Unwanted
    <3>1. Unwanted(journal[g].body) \/ journal[g].body.ver \in old
      <4>1. local[g] # journal[g].body \/ remote[g].etag # journal[g].etag
            => Unwanted(journal[g].body)
        BY DEF KeepInv, Superseded
      <4>2. Exists(remote, g) /\ journal[g].etag = remote[g].etag
            => journal[g].body = remote[g].body
        BY DEF EtagInv, FileEtags, Pairs
      <4> QED
        BY <1>3, <1>8, <2>2, <2>3, <4>1, <4>2
    <3> QED
      BY <1>t, <2>1, <3>1, StaysUnwanted
  <2>9. NoLoss'
    <3> SUFFICES ASSUME NEW v \in wanted'
                 PROVE  \E q \in Path : \/ local[q] = Written(v)
                                        \/ remote'[q] # None /\ remote'[q].body = Written(v)
      BY <2>1 DEF NoLoss, Alive, Exists, Written
    <3>1. CASE v = edits + 1
      BY <1>3, <2>2, <2>4, <3>1
    <3>2. CASE v # edits + 1
      <4>1. v \in wanted /\ v \notin old
        BY <2>1, <3>2
      <4>2. PICK q \in Path : \/ local[q] = Written(v)
                              \/ Exists(remote, q) /\ remote[q].body = Written(v)
        BY <4>1, SMT DEF KeepInv, NoLoss, Alive
      <4>3. Written(v).ver = v
        BY <1>t, <4>1, WantedVersions
      <4>4. Exists(remote, q) /\ remote[q].body = Written(v) => q # p
        BY <2>3, <4>1, <4>3
      <4> QED
        BY <2>2, <4>2, <4>4 DEF Exists
    <3> QED
      BY <3>1, <3>2
  <2> QED
    BY <1>5, <1>6, <1>10, <2>5, <2>6, <2>7, <2>8, <2>9, SMT DEF KeepInv
<1> QED
  BY <1>1, <1>3, <1>11, <1>12, <1>13

\* reconcile_all asks only for what is warranted: with a row both sides exist, and
\* the side that has not changed holds what the row stands for.
LEMMA ReconcileKeeps ==
  ASSUME Calm, LengthsTell, IdleHasNoTasks, EtagInv, Contents, KeepInv, reconcile_all
  PROVE  KeepInv'
<1>t. TypeOK /\ ~Fault /\ conflict_strategy = "KeepBoth" /\ edits \in 0..MaxEdits
  BY NoFaults DEF EtagInv, Calm, TypeOK
<1>1. /\ found.loc = local /\ found.rem = remote /\ task = Nothing
      /\ UNCHANGED <<local, remote, journal, stamp, wanted, edits>>
      /\ phase' = "propagating" /\ found' = NotFound
  BY DEF reconcile_all, KeepInv, Snapshot, IdleHasNoTasks, trees, history
<1> DEFINE I(g) == Reconcile(local[g], remote[g], journal[g], "KeepBoth")
<1>2. \A g \in Path : task'[g] = IF I(g) = "Ignore" THEN None ELSE Queued(I(g))
  <2>1. PICK unread : /\ IF unread = {} THEN NoFault ELSE Fault
                      /\ task' = [g \in Path |-> IF Instruction(g, unread) = "Ignore" THEN None
                                                 ELSE Queued(Instruction(g, unread))]
    BY DEF reconcile_all
  <2>2. unread = {}
    BY <1>t, <2>1
  <2>3. \A g \in Path : Instruction(g, {}) = I(g)
    BY <1>t, <1>1 DEF Instruction, Baseline
  <2> QED
    BY <2>1, <2>2, <2>3
<1>3. \A g \in Path : journal[g] # None => Exists(local, g) /\ Exists(remote, g)
  BY <1>1 DEF KeepInv, RowsStand, Aside, Nothing
<1>4. ASSUME NEW g \in Path
      PROVE  \/ I(g) = "Ignore"
             \/ I(g) = "Upload" /\ Exists(local, g) /\ journal[g] = None /\ ~Exists(remote, g)
             \/ I(g) = "Download" /\ Exists(remote, g) /\ journal[g] = None /\ ~Exists(local, g)
             \/ I(g) = "Conflict" /\ Exists(local, g) /\ Exists(remote, g) /\ journal[g] = None
             \/ /\ Exists(local, g) /\ Exists(remote, g) /\ journal[g] # None
                /\ \/ /\ I(g) = "Upload" /\ local[g].size # journal[g].size
                      /\ remote[g].etag = journal[g].etag
                   \/ /\ I(g) = "Download" /\ local[g].size = journal[g].size
                      /\ remote[g].etag # journal[g].etag
                   \/ /\ I(g) = "Conflict" /\ local[g].size # journal[g].size
                      /\ remote[g].etag # journal[g].etag
  <2>1. Resolution("KeepBoth") = "Conflict"
    BY DEF Resolution
  <2> HIDE DEF Resolution
  <2>2. CASE journal[g] = None
    BY <2>2 DEF Reconcile, Exists
  <2>3. CASE journal[g] # None
    BY <1>3, <2>1, <2>3 DEF Reconcile, Exists
  <2> QED
    BY <2>2, <2>3
<1>5. \A g \in Path : ~Exists(local, g) /\ ~Exists(remote, g) => I(g) = "Ignore"
  BY <1>4
<1> HIDE DEF I
<1>6. \A op : Queued(op).op = op /\ Queued(op).pc = "queued"
  BY DEF Queued
<1>7. Temps'
  <2> SUFFICES ASSUME NEW g \in Files, Temporary(g)
               PROVE  /\ ~Exists(remote, g) /\ journal[g] = None /\ task'[g] = None
                      /\ ~Exists(local, g)
    BY <1>1 DEF Temps, Temporary, Exists
  <2>1. ~Exists(remote, g) /\ journal[g] = None /\ ~Exists(local, g)
    BY <1>1 DEF KeepInv, Temps, Nothing, Files
  <2> QED
    BY <1>2, <1>5, <2>1 DEF Files
<1>8. Unborn'
  BY <1>1 DEF KeepInv, Unborn, Exists, Temporary
<1>9. RowsStand'
  BY <1>1, <1>3 DEF RowsStand, Exists
<1>10. Superseded'
  BY <1>1 DEF KeepInv, Superseded, Unwanted
<1>11. ASSUME NEW g \in Path PROVE Warranted(g)'
  <2> SUFFICES ASSUME I(g) # "Ignore", task'[g] # None PROVE Warranted(g)'
    BY <1>2 DEF Warranted
  <2>1. task'[g].op = I(g) /\ task'[g].pc = "queued"
    BY <1>2, <1>6
  <2>2. ASSUME g \in Files, journal[g] # None
        PROVE  /\ Unwanted(journal[g].body)
               /\ I(g) = "Upload" => Unwanted(remote[g].body)
               /\ I(g) = "Download" => Unwanted(local[g])
    <3>1. /\ Exists(local, g) /\ Exists(remote, g)
          /\ local[g].size # journal[g].size \/ remote[g].etag # journal[g].etag
          /\ I(g) = "Upload" => remote[g].etag = journal[g].etag
          /\ I(g) = "Download" => local[g].size = journal[g].size
      BY <1>3, <1>4, <2>2
    <3>2. /\ Known(edits, local[g]) /\ Known(edits, journal[g].body)
          /\ journal[g].size = journal[g].body.size
      BY <2>2, <3>1 DEF Contents, Content, Sound, MayBeCut, Calm
    <3>3. Unwanted(journal[g].body)
      BY <2>2, <3>1, <3>2, SMT DEF KeepInv, Superseded
    <3>4. I(g) = "Upload" => journal[g].body = remote[g].body
      BY <2>2, <3>1 DEF EtagInv, FileEtags, Pairs
    <3>5. I(g) = "Download" => local[g] = journal[g].body
      BY <1>t, <3>1, <3>2, LengthsIdentify, SMT
    <3> QED
      BY <3>3, <3>4, <3>5
  <2>3. (g \in Files /\ journal[g] # None => Unwanted(journal[g].body))'
    BY <1>1, <2>2 DEF Unwanted
  <2>4. CASE I(g) = "Upload"
    <3>1. Exists(local, g) /\ (g \in Files /\ Exists(remote, g) => Unwanted(remote[g].body))
      BY <1>4, <2>2, <2>4
    <3>2. MayUpload(g)'
      BY <1>1, <2>1, <2>4, <3>1 DEF MayUpload, Exists, Unwanted
    <3> QED
      BY <2>3, <3>2 DEF Warranted
  <2>5. CASE I(g) = "Download"
    <3>1. Exists(remote, g) /\ (g \in Files /\ Exists(local, g) => Unwanted(local[g]))
      BY <1>4, <2>2, <2>5
    <3>2. MayFetch(g)'
      BY <1>1, <2>1, <2>5, <3>1 DEF MayFetch, Exists, Unwanted
    <3> QED
      BY <2>3, <3>2 DEF Warranted
  <2>6. CASE I(g) = "Conflict"
    <3>1. Exists(local, g) /\ Exists(remote, g)
      BY <1>4, <2>6
    <3>2. MayRename(g)'
      BY <1>1, <2>1, <2>6, <3>1 DEF MayRename, Exists
    <3> QED
      BY <2>3, <3>2 DEF Warranted
  <2> QED
    BY <1>4, <2>4, <2>5, <2>6
<1>12. Snapshot' /\ Fresh' /\ NoLoss'
  BY <1>1 DEF KeepInv, Snapshot, NotFound, Fresh, NoLoss, Alive, Exists, Written
<1> QED
  BY <1>7, <1>8, <1>9, <1>10, <1>11, <1>12 DEF KeepInv

\* Every step keeps the invariant.
LEMMA KeepNext ==
  ASSUME Calm, NamesApart, LengthsTell, IdleHasNoTasks, EtagInv, Contents, KeepInv, [Next]_vars
  PROVE  KeepInv'
<1>t. TypeOK /\ ~Fault
  BY NoFaults DEF EtagInv
<1>k. ASSUME UNCHANGED <<local, remote, journal, task, stamp, wanted, edits>>, Snapshot'
      PROVE  KeepInv'
  <2>1. /\ Temps' /\ Unborn' /\ Superseded' /\ NoLoss'
        /\ \A g \in Path : Warranted(g)'
    BY <1>t, <1>k, CalmFrame
  <2>2. RowsStand' /\ Fresh'
    BY <1>k DEF KeepInv, RowsStand, Exists, Aside, Fresh
  <2> QED
    BY <1>k, <2>1, <2>2 DEF KeepInv
<1>1. CASE Environment
  BY <1>1, EditKeeps
<1>2. CASE Crash \/ AbortRun
  <2>1. ~Crash
    BY <1>t, SMT DEF Crash, TypeOK, Calm
  <2> QED
    BY <1>t, <1>2, <2>1 DEF AbortRun
<1>3. CASE StartRun \/ FinishRun \/ UNCHANGED vars
  <2>1. UNCHANGED <<local, remote, journal, task, stamp, wanted, edits, found>>
    BY <1>3 DEF StartRun, FinishRun, vars, trees, history, budgets
  <2>2. phase = "discovering" => phase' = "discovering"
    BY <1>3 DEF StartRun, FinishRun, vars
  <2>3. Snapshot'
    BY <2>1, <2>2 DEF KeepInv, Snapshot, NotFound
  <2> QED
    BY <1>k, <2>1, <2>3
<1>4. CASE discover_local \/ discover_remote
  <2>1. UNCHANGED <<local, remote, journal, task, stamp, wanted, edits, phase>>
    BY <1>4 DEF discover_local, discover_remote, trees, history, budgets
  <2>2. Snapshot'
    <3>1. phase = "discovering" /\ found'.loc \in {None, local} /\ found'.rem \in {None, remote}
      BY <1>t, <1>4 DEF discover_local, discover_remote, KeepInv, Snapshot, TypeOK
    <3> QED
      BY <2>1, <3>1 DEF Snapshot
  <2> QED
    BY <1>k, <2>1, <2>2, SMT
<1>5. CASE reconcile_all
  BY <1>5, ReconcileKeeps
<1>6. ASSUME NEW d \in Dirs, DirPropagation(d) PROVE KeepInv'
  BY <1>t, <1>6, DirKeeps
<1>7. ASSUME NEW p \in Files, FilePropagation(p) PROVE KeepInv'
  BY <1>t, <1>7, FileKeeps
<1> QED
  BY <1>1, <1>2, <1>3, <1>4, <1>5, <1>6, <1>7 DEF Next, run_sync

\* A folder before its first run satisfies the invariant.
LEMMA InitKeeps == Init => KeepInv
<1> SUFFICES ASSUME Init PROVE KeepInv
  OBVIOUS
<1>1. /\ \A g \in Path : local[g] = None /\ remote[g] = None /\ journal[g] = None /\ task[g] = None
      /\ wanted = {} /\ found = NotFound
  BY DEF Init, Nothing
<1>2. Temps /\ Unborn /\ RowsStand /\ Superseded
  BY <1>1 DEF Temps, Unborn, RowsStand, Superseded, Exists, Files
<1>3. \A g \in Path : Warranted(g)
  BY <1>1 DEF Warranted
<1>4. Snapshot /\ Fresh /\ NoLoss
  BY <1>1 DEF Snapshot, NotFound, Fresh, NoLoss
<1> QED
  BY <1>2, <1>3, <1>4 DEF KeepInv

(****************************************************************************)
(* A run that ends well leaves its rows.                                    *)
(****************************************************************************)

\* A step of a file's task, when nothing fails, ends with a row, with an error or
\* without the file on the server, and leaves the other files' rows alone.
LEMMA FileLeavesRow ==
  ASSUME TypeOK, Steady, NEW p \in Files, FilePropagation(p), NotOnServer(p)
  PROVE  /\ phase' = phase /\ found' = found /\ phase = "propagating" /\ (had_error => had_error')
         /\ \A g \in Files \ {p} : /\ journal'[g] = journal[g] /\ task'[g] = task[g]
                                   /\ Exists(remote', g) => Exists(remote, g)
         /\ NotOnServer(p)' /\ (had_error' \/ HasRowOrTask(p)')
<1>1. /\ p \in Path /\ Above(p) \subseteq Dirs /\ Files \cap Dirs = {} /\ Files \subseteq Path
      /\ DOMAIN remote = Path /\ DOMAIN journal = Path /\ DOMAIN task = Path
      /\ p \notin Dirs /\ \A g \in Path : Above(g) \subseteq Dirs
  BY PathAssumption, FileFacts, ZenonT(60) DEF Maps, Files
<1>2. ~Fault
  BY SMT DEF TypeOK, Steady, Fault
<1>3. phase' = phase /\ found' = found /\ phase = "propagating"
  BY FileMoves DEF Propagating
<1>4. \A g \in Path : (p \in Above(g)) = FALSE
  BY <1>1, SMT
<1>5. \A g \in Files : Without(remote, p)[g] = IF g = p THEN None ELSE remote[g]
  BY <1>1, <1>4 DEF Without, Within
<1>6. \A g \in Files : WithDirs(remote, Above(p), DirEntry)[g] = remote[g]
  BY <1>1 DEF WithDirs
<1>7. /\ \A row : Records(p, row) => journal' = [journal EXCEPT ![p] = row]
      /\ \A st : Ends(p, st) => task' = [task EXCEPT ![p] = None] /\ (had_error => had_error')
      /\ \A t : Goes(p, t) => task' = [task EXCEPT ![p] = t] /\ had_error' = had_error
      /\ Fails(p) => task' = [task EXCEPT ![p] = None] /\ journal' = journal /\ had_error'
  BY <1>2, ZenonT(60) DEF Records, Ends, Goes, Fails
<1>8. /\ \A op : FileStart(p, op) => task[p] # None /\ task[p].op \in op
      /\ \A op, pc : FileStep(p, op, pc) => task[p] # None /\ task[p].op \in op
      /\ task[p] # None => task[p] \in Task
  BY FileFacts DEF FileStart, FileStep, At
<1>9. \A t \in Task, pc \in Points : \A b, e, s :
        /\ [t EXCEPT !.pc = pc].op = t.op
        /\ [t EXCEPT !.pc = pc, !.body = b].op = t.op
        /\ [t EXCEPT !.pc = pc, !.body = b, !.etag = e].op = t.op
        /\ [t EXCEPT !.pc = pc, !.size = s].op = t.op
  BY DEF Task
<1>10. ASSUME NEW t, Goes(p, t) PROVE t # None
  <2>1. file_statuses \in Maps({"Ok", "Syncing", "Error"})
    BY DEF TypeOK
  <2>2. DOMAIN file_statuses = Path
    BY <2>1, Zenon DEF Maps
  <2>3. file_statuses'[p] = "Syncing" /\ task'[p] = t
    BY <1>1, <1>10, <2>2 DEF Goes
  <2>4. ASSUME NEW st \in {"Ok", "Error", None}, Ends(p, st) PROVE FALSE
    BY <1>1, <2>2, <2>3, <2>4, NoneAssumption DEF Ends
  <2>5. PICK u \in Moved : Goes(p, u)
    BY <2>4, FileMoves
  <2> QED
    BY <1>1, <2>3, <2>5, NoneAssumption DEF Goes, Moved
<1> DEFINE GivenUp == Fails(p) /\ remote' = remote
           GoesOn == /\ \E t : Goes(p, t) /\ t.op # "DeleteLocal"
                     /\ journal' = journal /\ \A g \in Files \ {p} : remote'[g] = remote[g]
           Rowed == /\ \E row \in Row : journal' = [journal EXCEPT ![p] = row]
                    /\ (\E st : Ends(p, st)) /\ remote' = remote
           Taken == /\ journal' = [journal EXCEPT ![p] = None] /\ (\E st : Ends(p, st))
                    /\ \A g \in Files : Exists(remote', g) => Exists(remote, g)
                    /\ ~Exists(remote', p)
<1>11. GivenUp \/ GoesOn \/ Rowed \/ Taken
  <2>1. CASE ConflictRename(p)
    <3>1. [task[p] EXCEPT !.pc = "renamed"].op # "DeleteLocal"
      BY <1>8, <1>9, <2>1, SMT DEF ConflictRename, Points
    <3> QED
      BY <1>2, <2>1, <3>1, ZenonT(60) DEF ConflictRename
  <2>2. CASE Get(p)
    <3>1. [task[p] EXCEPT !.pc = "got", !.body = remote[p].body, !.etag = remote[p].etag].op # "DeleteLocal"
      BY <1>8, <1>9, <2>2, SMT DEF Get, Points
    <3> QED
      BY <1>2, <2>2, <3>1, ZenonT(60) DEF Get
  <2>3. CASE WriteTmp(p)
    <3>1. [task[p] EXCEPT !.pc = "written"].op # "DeleteLocal"
      BY <1>8, <1>9, <2>3, SMT DEF WriteTmp, Points
    <3> QED
      BY <1>2, <2>3, <3>1, ZenonT(60) DEF WriteTmp
  <2>4. CASE Install(p)
    <3>1. [task[p] EXCEPT !.pc = "installed"].op # "DeleteLocal"
      BY <1>8, <1>9, <2>4, SMT DEF Install, Points
    <3> QED
      BY <1>2, <2>4, <3>1, ZenonT(60) DEF Install
  <2>5. CASE Stat(p)
    <3>1. PICK n : Goes(p, [task[p] EXCEPT !.pc = "stated", !.size = n])
      BY <2>5, ZenonT(60) DEF Stat
    <3>2. [task[p] EXCEPT !.pc = "stated", !.size = n].op # "DeleteLocal"
      BY <1>8, <1>9, <2>5, SMT DEF Stat, Points
    <3> QED
      BY <2>5, <3>1, <3>2, ZenonT(60) DEF Stat, trees
  <2>6. CASE Put(p)
    <3> DEFINE b == [ver |-> local[p].ver, size |-> task[p].size]
    <3>1. [task[p] EXCEPT !.pc = "stored", !.body = b, !.etag = nextEtag].op # "DeleteLocal"
      BY <1>8, <1>9, <2>6, SMT DEF Put, Points
    <3>2. /\ journal' = journal
          /\ \/ /\ remote' = [WithDirs(remote, Above(p), DirEntry) EXCEPT
                               ![p] = [body |-> b, etag |-> nextEtag]]
                /\ Goes(p, [task[p] EXCEPT !.pc = "stored", !.body = b, !.etag = nextEtag])
             \/ remote' = remote /\ Fails(p)
      BY <1>2, <2>6 DEF Put
    <3> HIDE DEF b
    <3>3. \A e : \A g \in Files \ {p} : [WithDirs(remote, Above(p), DirEntry) EXCEPT ![p] = e][g] = remote[g]
      BY <1>1, <1>6, ZenonT(60) DEF WithDirs
    <3> QED
      BY <3>1, <3>2, <3>3, ZenonT(60)
  <2>7. CASE RecordDownload(p)
    <3> DEFINE row == [etag |-> task[p].etag, body |-> task[p].body,
                       size |-> IF Exists(local, p) THEN local[p].size ELSE 0]
    <3>1. task[p] # None /\ Records(p, row) /\ Ends(p, "Ok") /\ remote' = remote
      BY <1>8, <2>7 DEF RecordDownload, trees
    <3>2. row \in Row
      BY <1>1, <3>1, FileFacts DEF Row, Body
    <3> QED
      BY <1>7, <3>1, <3>2
  <2>8. CASE RecordUpload(p)
    <3> DEFINE row == [etag |-> task[p].etag, size |-> task[p].size, body |-> task[p].body]
    <3>1. task[p] # None /\ Records(p, row) /\ Ends(p, "Ok") /\ remote' = remote
      BY <1>8, <2>8 DEF RecordUpload, trees
    <3>2. row \in Row
      BY <1>1, <3>1, FileFacts DEF Row
    <3> QED
      BY <1>7, <3>1, <3>2
  <2>9. CASE delete_local(p)
    <3>1. task[p] # None /\ task[p].op = "DeleteLocal"
      BY <1>8, <2>9, SMT DEF delete_local
    <3>2. Records(p, None) /\ Ends(p, None) /\ remote' = remote
      BY <1>2, <2>9 DEF delete_local
    <3> QED
      BY <1>7, <3>1, <3>2 DEF NotOnServer, Exists
  <2>10. CASE delete_remote(p)
    <3>1. Records(p, None) /\ Ends(p, None) /\ remote' = Without(remote, p)
      BY <1>2, <2>10 DEF delete_remote
    <3> QED
      BY <1>5, <1>7, <3>1 DEF Exists
  <2> QED
    BY <2>1, <2>2, <2>3, <2>4, <2>5, <2>6, <2>7, <2>8, <2>9, <2>10 DEF FilePropagation
<1> DEFINE Goal == /\ had_error => had_error'
                   /\ \A g \in Files \ {p} : /\ journal'[g] = journal[g] /\ task'[g] = task[g]
                                             /\ Exists(remote', g) => Exists(remote, g)
                   /\ NotOnServer(p)' /\ (had_error' \/ HasRowOrTask(p)')
<1>12. ASSUME GivenUp PROVE Goal
  BY <1>1, <1>7, <1>12 DEF NotOnServer, HasRowOrTask, Exists
<1>13. ASSUME GoesOn PROVE Goal
  BY <1>1, <1>7, <1>10, <1>13, SMT DEF NotOnServer, HasRowOrTask, Exists
<1>14. ASSUME Rowed PROVE Goal
  BY <1>1, <1>7, <1>14, NoneAssumption DEF NotOnServer, HasRowOrTask, Exists
<1>15. ASSUME Taken PROVE Goal
  BY <1>1, <1>7, <1>15 DEF NotOnServer, HasRowOrTask, Exists
<1>16. Goal
  BY <1>11, <1>12, <1>13, <1>14, <1>15
<1> QED
  BY <1>3, <1>16

\* A step of a directory's task takes no file's row and puts no file on the server.
LEMMA DirLeavesRows ==
  ASSUME TypeOK, NEW d \in Dirs, DirPropagation(d)
  PROVE  /\ phase' = phase /\ found' = found /\ phase = "propagating" /\ (had_error => had_error')
         /\ \A g \in Files : /\ journal'[g] = journal[g] /\ task'[g] = task[g]
                             /\ Exists(remote', g) => Exists(remote, g)
<1>1. /\ d \in Path /\ \A g \in Files : g \in Path /\ g # d
      /\ DOMAIN remote = Path /\ DOMAIN journal = Path /\ DOMAIN task = Path
  <2>1. remote \in Maps(RemoteEntry) /\ journal \in Maps(Row) /\ task \in Maps(Task)
    BY DEF TypeOK
  <2> QED
    BY <2>1, PathAssumption, ZenonT(60) DEF Maps, Files
<1>2. \A op : DirStep(d, op) => phase' = phase /\ found' = found /\ phase = "propagating"
  BY DEF DirStep, Propagating
<1> DEFINE Same(g) == journal'[g] = journal[g] /\ task'[g] = task[g]
<1>3. /\ \A row, st : Records(d, row) /\ Ends(d, st)
                      => (had_error => had_error') /\ \A g \in Files : Same(g)
      /\ Fails(d) => (had_error => had_error') /\ \A g \in Files : Same(g)
  BY <1>1, ZenonT(60) DEF Records, Ends, Fails
<1>4. \A g \in Files : /\ Exists(Without(remote, d), g) => Exists(remote, g)
                       /\ Exists(WithDirs(remote, {d}, DirEntry), g) => Exists(remote, g)
  BY <1>1 DEF Without, WithDirs, Exists
<1> DEFINE Ended == (\E row, st : Records(d, row) /\ Ends(d, st)) \/ Fails(d)
<1>5. CASE DirUpload(d)
  <2>1. /\ DirStep(d, "Upload") /\ Ended
        /\ remote' \in {remote, WithDirs(remote, {d}, DirEntry)}
    BY <1>5 DEF DirUpload
  <2> QED
    BY <1>2, <1>3, <1>4, <2>1
<1>6. CASE DirDownload(d)
  <2>1. DirStep(d, "Download") /\ Ended /\ remote' = remote
    BY <1>6 DEF DirDownload
  <2> QED
    BY <1>2, <1>3, <2>1
<1>7. CASE DirDeleteRemote(d)
  <2>1. DirStep(d, "DeleteRemote") /\ Ended /\ remote' \in {remote, Without(remote, d)}
    BY <1>7 DEF DirDeleteRemote
  <2> QED
    BY <1>2, <1>3, <1>4, <2>1
<1>8. CASE DirDeleteLocal(d)
  <2>1. DirStep(d, "DeleteLocal") /\ Ended /\ remote' = remote
    BY <1>8 DEF DirDeleteLocal
  <2> QED
    BY <1>2, <1>3, <2>1
<1>9. CASE DirConflict(d)
  BY <1>1, <1>2, <1>9 DEF DirConflict, trees
<1> QED
  BY <1>5, <1>6, <1>7, <1>8, <1>9 DEF DirPropagation

\* What reconcile decides for a file on the server without a row is a transfer, and it
\* deletes the local copy only of what the server does not have.
LEMMA ReconcileLeavesTask ==
  ASSUME NEW loc, NEW rem, NEW row, NEW strategy \in Strategies
  PROVE  /\ Reconcile(loc, rem, row, strategy) = "DeleteLocal" => rem = None
         /\ rem # None /\ row = None => Reconcile(loc, rem, row, strategy) # "Ignore"
<1>1. Resolution(strategy) # "DeleteLocal"
  BY DEF Resolution, Strategies
<1> HIDE DEF Resolution
<1> QED
  BY <1>1 DEF Reconcile

\* Every step keeps the invariant.
LEMMA RowNext ==
  ASSUME Steady, TypeOK, IdleHasNoTasks, RowInv, [Next]_vars
  PROVE  RowInv'
<1>1. Files \subseteq Path /\ ~Fault /\ NotFound.rem = None
  BY SMT DEF Files, TypeOK, Steady, Fault, NotFound
<1>2. phase # "propagating" => \A p \in Path : task[p] = None
  BY DEF IdleHasNoTasks, Nothing
<1>3. CASE Environment
  <2>1. /\ phase = "idle" /\ phase' = phase /\ task' = task /\ found' = found
    BY <1>3 DEF Environment, UserWrite, UserDelete, RemoteWrite, RemoteDelete, Edit, Steady, run
  <2> QED
    BY <1>1, <1>2, <2>1 DEF RowInv, SeenIsThere, NotOnServer
<1>4. CASE Crash \/ AbortRun
  <2>1. phase' = "idle" /\ found' = NotFound /\ \A p \in Path : task'[p] = None
    BY <1>1, <1>4 DEF Crash, AbortRun, Nothing
  <2> QED
    BY <1>1, <2>1 DEF RowInv, SeenIsThere, NotOnServer
<1>5. CASE StartRun \/ FinishRun
  <2>1. /\ remote' = remote /\ task' = task /\ found' = found
        /\ phase # "discovering" /\ phase' # "propagating"
    BY <1>5 DEF StartRun, FinishRun, trees
  <2> QED
    BY <2>1 DEF RowInv, SeenIsThere, NotOnServer, Exists
<1>6. CASE discover_local \/ discover_remote
  <2>1. /\ remote' = remote /\ task' = task /\ phase = "discovering" /\ phase' = phase
        /\ found'.rem \in {found.rem, remote}
    BY <1>6 DEF discover_local, discover_remote, trees, TypeOK
  <2> QED
    BY <2>1 DEF RowInv, SeenIsThere, NotOnServer, Exists
<1>7. CASE reconcile_all
  <2>1. /\ phase = "discovering" /\ found.rem = remote /\ remote' = remote /\ journal' = journal
        /\ found' = NotFound
    BY <1>7 DEF reconcile_all, RowInv, SeenIsThere, trees
  <2>2. task' = [p \in Path |-> IF Instruction(p, {}) = "Ignore" THEN None
                                ELSE Queued(Instruction(p, {}))]
    BY <1>1, <1>7 DEF reconcile_all
  <2>3. ASSUME NEW p \in Files
        PROVE  /\ Instruction(p, {}) = "DeleteLocal" => ~Exists(remote, p)
               /\ Exists(remote, p) /\ journal[p] = None => Instruction(p, {}) # "Ignore"
    BY <2>1, ReconcileLeavesTask, ConfigAssumption DEF Instruction, Baseline, Exists
  <2>4. ASSUME NEW p \in Files
        PROVE  /\ task'[p] = None => Instruction(p, {}) = "Ignore"
               /\ task'[p] # None => task'[p].op = Instruction(p, {})
    <3>1. /\ Instruction(p, {}) # "Ignore" => Queued(Instruction(p, {})) # None
          /\ Queued(Instruction(p, {})).op = Instruction(p, {})
      BY <1>1, QueuedTypes, NoneAssumption DEF Queued
    <3> QED
      BY <1>1, <2>2, <3>1
  <2> QED
    BY <1>1, <2>1, <2>3, <2>4 DEF RowInv, SeenIsThere, NotOnServer, HasRowOrTask, Exists
<1>8. ASSUME NEW d \in Dirs, DirPropagation(d) PROVE RowInv'
  <2>1. /\ phase' = phase /\ found' = found /\ phase = "propagating" /\ (had_error => had_error')
        /\ \A g \in Files : /\ journal'[g] = journal[g] /\ task'[g] = task[g]
                            /\ Exists(remote', g) => Exists(remote, g)
    BY <1>8, DirLeavesRows
  <2> QED
    BY <2>1 DEF RowInv, SeenIsThere, NotOnServer, HasRowOrTask
<1>9. ASSUME NEW p \in Files, FilePropagation(p) PROVE RowInv'
  <2>1. /\ phase' = phase /\ found' = found /\ phase = "propagating" /\ (had_error => had_error')
        /\ \A g \in Files \ {p} : /\ journal'[g] = journal[g] /\ task'[g] = task[g]
                                  /\ Exists(remote', g) => Exists(remote, g)
        /\ NotOnServer(p)' /\ (had_error' \/ HasRowOrTask(p)')
    BY <1>9, FileLeavesRow DEF RowInv
  <2>2. \A g \in Files \ {p} : NotOnServer(g)' /\ (had_error' \/ HasRowOrTask(g)')
    BY <2>1 DEF RowInv, NotOnServer, HasRowOrTask
  <2> QED
    BY <2>1, <2>2 DEF RowInv, SeenIsThere
<1>10. CASE UNCHANGED vars
  BY <1>10 DEF vars, trees, RowInv, SeenIsThere, NotOnServer, HasRowOrTask, Exists
<1> QED
  BY <1>3, <1>4, <1>5, <1>6, <1>7, <1>8, <1>9, <1>10 DEF Next, run_sync

\* Before the first run there is nothing on the server and nothing was seen.
LEMMA InitRows == Init => RowInv
<1> SUFFICES ASSUME Init PROVE RowInv
  OBVIOUS
<1>1. \A p \in Path : remote[p] = None /\ task[p] = None
  BY DEF Init, Nothing
<1>2. found.rem = None
  BY DEF Init, NotFound
<1> QED
  BY <1>1, <1>2 DEF RowInv, SeenIsThere, NotOnServer, HasRowOrTask, Exists, Files

(****************************************************************************)
(* The theorems.                                                            *)
(****************************************************************************)

\* The statuses follow the tasks, and tasks there are only in a run.
THEOREM TasksInvariant == Spec => []TaskInv
BY TaskInit, TaskNext, PTL DEF Spec

\* A path is shown as Syncing exactly while a transfer of it is in progress.
THEOREM StatusesExact == Spec => []StatusTracksTask
BY TasksInvariant, PTL DEF TaskInv

\* As long as no transfer touches the files of another and nobody edits during a
\* run, contents stay whole, but for what a failed write leaves at a temporary name,
\* and tasks true to the files they work on, through failures and crashes.
THEOREM ContentsInvariant ==
  ~EditsDuringRun => (Spec /\ [][TransfersApart]_vars => [](Contents /\ DirsFirst))
<1> SUFFICES ASSUME ~EditsDuringRun
             PROVE  Spec /\ [][TransfersApart]_vars => [](Contents /\ DirsFirst)
  OBVIOUS
<1>1. TaskInv /\ (Contents /\ DirsFirst) /\ [Next]_vars /\ [TransfersApart]_vars
      => (Contents /\ DirsFirst)'
  <2> SUFFICES ASSUME TaskInv, Contents, DirsFirst, [Next]_vars, [TransfersApart]_vars
               PROVE  (Contents /\ DirsFirst)'
    OBVIOUS
  <2>1. \A p \in Files : FilePropagation(p) => \A g \in Active \ {p} : Still(g)
    BY DEF TransfersApart, Still, vars
  <2> QED
    BY <2>1, ContentsNext DEF TaskInv
<1> QED
  BY <1>1, InitContents, TasksInvariant, PTL DEF Spec

\* What the engine would leave alone between runs is in sync, for any number of
\* parallel transfers: when lengths tell versions apart, nobody edits during a run
\* and no transfer touches the files of another, no failure, cut write, lost reply,
\* unwritten row or crash makes run_sync overlook a difference. Each hypothesis is
\* needed: reconcile compares sizes, a transfer reads a file twice, and transfers of
\* one stem share a temporary file.
THEOREM IgnoredIsInSync ==
  LengthsTell /\ ~EditsDuringRun => (Spec /\ [][TransfersApart]_vars => []IgnoreIsSound)
<1> SUFFICES ASSUME LengthsTell, ~EditsDuringRun
             PROVE  Spec /\ [][TransfersApart]_vars => []IgnoreIsSound
  OBVIOUS
<1>1. EtagInv /\ (Contents /\ DirsFirst) => IgnoreIsSound
  BY IgnoredAgree DEF EtagInv
<1>2. Spec /\ [][TransfersApart]_vars => [](Contents /\ DirsFirst)
  BY ContentsInvariant
<1> QED
  BY <1>1, <1>2, EtagsInvariant, PTL

\* The invariant behind NothingLost holds throughout, with the contents it needs.
THEOREM KeepInvariant ==
  Calm /\ NamesApart /\ LengthsTell => (Spec => [](Contents /\ DirsFirst /\ KeepInv))
<1> SUFFICES ASSUME Calm, NamesApart, LengthsTell
             PROVE  Spec => [](Contents /\ DirsFirst /\ KeepInv)
  OBVIOUS
<1>1. TaskInv /\ EtagInv /\ (Contents /\ DirsFirst /\ KeepInv) /\ [Next]_vars
      => (Contents /\ DirsFirst /\ KeepInv)'
  <2> SUFFICES ASSUME TaskInv, EtagInv, Contents, DirsFirst, KeepInv, [Next]_vars
               PROVE  (Contents /\ DirsFirst /\ KeepInv)'
    OBVIOUS
  <2>1. TypeOK /\ IdleHasNoTasks /\ ~EditsDuringRun
    BY DEF TaskInv, Calm
  <2>2. \A p \in Files : FilePropagation(p) => \A g \in Active \ {p} : Still(g)
    BY <2>1, Undisturbed DEF Active
  <2>3. Contents' /\ DirsFirst'
    BY <2>1, <2>2, ContentsNext
  <2>4. KeepInv'
    BY <2>1, KeepNext
  <2> QED
    BY <2>3, <2>4
<1>2. Init => Contents /\ DirsFirst /\ KeepInv
  BY InitContents, InitKeeps
<1> QED
  BY <1>1, <1>2, TasksInvariant, EtagsInvariant, PTL DEF Spec

\* KeepBoth loses no version: with any number of files, directories and parallel
\* transfers, what somebody wrote and nobody replaced where they had it stays whole
\* on one of the two sides, however edits on both sides conflict. No hypothesis can
\* be dropped: TLC finds a lost version without each of them.
THEOREM NothingLost ==
  Calm /\ NamesApart /\ LengthsTell => (Spec => []NoLoss)
<1> SUFFICES ASSUME Calm, NamesApart, LengthsTell PROVE Spec => []NoLoss
  OBVIOUS
<1>1. Spec => [](Contents /\ DirsFirst /\ KeepInv)
  BY KeepInvariant
<1>2. Contents /\ DirsFirst /\ KeepInv => NoLoss
  BY DEF KeepInv
<1> QED
  BY <1>1, <1>2, PTL

\* What the server holds in a run that nothing disturbs has a row or a task that will
\* leave one, unless an error was met.
THEOREM RowsInvariant == Steady => (Spec => []RowInv)
<1> SUFFICES ASSUME Steady PROVE Spec => []RowInv
  OBVIOUS
<1>1. TaskInv /\ RowInv /\ [Next]_vars => RowInv'
  BY RowNext DEF TaskInv
<1> QED
  BY <1>1, InitRows, TasksInvariant, PTL DEF Spec

\* A run that ends without an error has a row for every file that is on both sides,
\* whatever directories there are.
THEOREM RunLeavesFileRows ==
  Steady => (Spec => [][FinishRun /\ ~had_error =>
               \A p \in Files : Exists(local, p) /\ Exists(remote, p) => journal[p] # None]_vars)
<1> SUFFICES ASSUME Steady
             PROVE  Spec => [][FinishRun /\ ~had_error =>
                      \A p \in Files : Exists(local, p) /\ Exists(remote, p) => journal[p] # None]_vars
  OBVIOUS
<1>1. RowInv => (FinishRun /\ ~had_error =>
        \A p \in Files : Exists(local, p) /\ Exists(remote, p) => journal[p] # None)
  BY DEF RowInv, HasRowOrTask, FinishRun, Nothing, Files
<1> QED
  BY <1>1, RowsInvariant, PTL

\* The same for every path, in a folder without directories. A directory that both
\* sides have already gets no row ("unhandled dir instruction"), so the hypothesis
\* cannot be dropped, and neither can the others: a journal write that fails, and an
\* edit during the run, leave a file without its row.
THEOREM RowsAreLeft == Steady /\ Dirs = {} => (Spec => RunLeavesRows)
<1> SUFFICES ASSUME Steady, Dirs = {} PROVE Spec => RunLeavesRows
  OBVIOUS
<1>1. RowInv => (FinishRun /\ ~had_error =>
        \A p \in Path : Exists(local, p) /\ Exists(remote, p) => journal[p] # None)
  BY DEF RowInv, HasRowOrTask, FinishRun, Nothing, Files
<1> QED
  BY <1>1, RowsInvariant, PTL DEF RunLeavesRows

=============================================================================
