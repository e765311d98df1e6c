----------------------------- MODULE SyncEngine -----------------------------
(****************************************************************************)
(* SyncEngine::run_sync for one folder: discovery, reconciliation, the      *)
(* sequential directory phase and the parallel file tasks, run again and    *)
(* again against a local tree and a server that change under it, requests   *)
(* that fail or whose reply is lost, journal writes that fail silently, and *)
(* crashes that keep only the trees and the journal.                        *)
(*                                                                          *)
(* A path keeps its kind: Dirs are directories wherever they exist, all     *)
(* other paths are files. Each discovery walk is one snapshot.              *)
(****************************************************************************)
EXTENDS Reconcile, Paths, Integers, FiniteSets

CONSTANTS
  Path,           \* every relative path that can occur
  Dirs,           \* those that name directories
  UserPaths,      \* the paths the user and the other clients work on
  SizeOf(_),      \* the length of the n-th version written
  conflict_strategy,
  max_parallel_transfers,
  tus_threshold,
  EditsDuringRun, \* may the trees change while a run is in progress?
  Deletes,        \* may the user and the other clients delete?
  SameSecond,     \* may two conflicts carry the same timestamp?
  MaxEdits, MaxFaults, MaxCrashes   \* bounds on the environment

Files == Path \ Dirs

ASSUME PathAssumption ==
  /\ IsFiniteSet(Path) /\ Dirs \subseteq Path
  /\ UserPaths \subseteq Path
  /\ \A p \in Path  : Above(p) \subseteq Dirs
  /\ \A p \in Files : TmpPath(p) \in Files

ASSUME ConfigAssumption ==
  /\ conflict_strategy \in Strategies
  /\ max_parallel_transfers \in Nat \ {0}
  /\ tus_threshold \in Nat
  /\ {EditsDuringRun, Deletes, SameSecond} \subseteq BOOLEAN
  /\ {MaxEdits, MaxFaults, MaxCrashes} \subseteq Nat
  /\ \A n \in 1..MaxEdits : SizeOf(n) \in Nat

VARIABLES
  local,      \* the local tree: the body at each path, or None
  remote,     \* the space: body and etag at each path, or None
  journal,    \* SyncJournalDb: the row of each path, or None
  phase,      \* where run_sync is
  found,      \* what the two discovery walks returned so far
  task,       \* the instruction of each path and how far it got, or None
  had_error,
  status,     \* SyncState.status
  file_statuses,
  nextEtag,   \* the server's next etag
  stamp,      \* the second of the latest conflict copy
  wanted,     \* history: versions written that nobody replaced or deleted on purpose
  created,    \* history: versions written to a path that neither side had
  edits, faults, crashes

trees   == <<local, remote>>
run     == <<phase, found, task, had_error>>
shown   == <<status, file_statuses>>
history == <<wanted, created>>
budgets == <<edits, faults, crashes>>
vars == <<local, remote, journal, phase, found, task, had_error, status,
          file_statuses, nextEtag, stamp, wanted, created, edits, faults, crashes>>

(****************************************************************************)
(* Data. A body is a version and a length: a body shorter than its version  *)
(* is a truncated copy. Etag 0 is the empty etag; the server never issues   *)
(* it. A row's body is a history field no action reads: what the server     *)
(* held under the row's etag.                                               *)
(****************************************************************************)
NoEtag  == 0
DirEtag == 1
Body    == [ver : Nat, size : Nat]
Empty   == [ver |-> 0, size |-> 0]   \* a file without content
DirBody == Empty
Written(n) == [ver |-> n, size |-> SizeOf(n)]

RemoteEntry == [body : Body, etag : Nat]
DirEntry    == [body |-> DirBody, etag |-> DirEtag]
Row         == [etag : Nat, size : Nat, body : Body]
DirRow      == [etag |-> NoEtag, size |-> 0, body |-> DirBody]

\* The suspension points of a propagation task.
Points == {"queued", "renamed", "got", "written", "installed",   \* GET
           "stated", "stored"}                                   \* PUT
Task == [op : Instructions \ {"Ignore"}, pc : Points, body : Body,
         etag : Nat, size : Nat]
Queued(op) == [op |-> op, pc |-> "queued", body |-> DirBody,
               etag |-> NoEtag, size |-> 0]

\* None is no value of any of these, nor a file status.
ASSUME NoneAssumption ==
  None \notin Body /\ None \notin RemoteEntry /\ None \notin Row /\ None \notin Task
  /\ None \notin {"Ok", "Syncing", "Error"}

\* Partial maps from paths.
Maps(S) == [Path -> S \cup {None}]
Nothing == [p \in Path |-> None]
NotFound == [loc |-> None, rem |-> None]
Exists(tree, p) == tree[p] # None
Within(p) == {p} \cup {q \in Path : p \in Above(q)}

\* A tree after a recursive removal, and after create_dir_all or MKCOLs.
Without(tree, p) == [q \in Path |-> IF q \in Within(p) THEN None ELSE tree[q]]
WithDirs(tree, ds, dir) ==
  [q \in Path |-> IF q \in ds /\ tree[q] = None THEN dir ELSE tree[q]]

LocalVersions(ps)  == {local[p].ver : p \in {q \in ps : Exists(local, q)}}
RemoteVersions(ps) == {remote[p].body.ver : p \in {q \in ps : Exists(remote, q)}}

Init ==
  /\ local = Nothing /\ remote = Nothing /\ journal = Nothing
  /\ phase = "idle" /\ found = NotFound /\ task = Nothing /\ had_error = FALSE
  /\ status = "Idle" /\ file_statuses = Nothing
  /\ nextEtag = DirEtag + 1 /\ stamp = 0
  /\ wanted = {} /\ created = {}
  /\ edits = 0 /\ faults = 0 /\ crashes = 0

(****************************************************************************)
(* The environment: the user in the local folder, other clients in the      *)
(* space. The n-th edit writes version n.                                   *)
(****************************************************************************)
Edit ==
  /\ edits < MaxEdits /\ edits' = edits + 1
  /\ EditsDuringRun \/ phase = "idle"
  /\ UNCHANGED <<journal, run, shown, stamp, faults, crashes>>

\* Who writes a file wants the new version in place of the one it replaces.
Wants(p, replaced) ==
  LET new == IF p \in Files THEN {edits'} ELSE {}
  IN /\ wanted' = (wanted \ replaced) \cup new
     /\ created' = created \cup (IF Exists(local, p) \/ Exists(remote, p) THEN {} ELSE new)

UserWrite(p) ==
  /\ Edit
  /\ \A d \in Above(p) : Exists(local, d)
  /\ p \in Dirs => ~Exists(local, p)
  /\ local' = [local EXCEPT ![p] = IF p \in Dirs THEN DirBody ELSE Written(edits')]
  /\ Wants(p, LocalVersions({p}))
  /\ UNCHANGED <<remote, nextEtag>>

UserDelete(p) ==
  /\ Deletes /\ Edit /\ Exists(local, p)
  /\ local' = Without(local, p)
  /\ wanted' = wanted \ LocalVersions(Within(p))
  /\ UNCHANGED <<remote, nextEtag, created>>

RemoteWrite(p) ==
  /\ Edit
  /\ \A d \in Above(p) : Exists(remote, d)
  /\ p \in Dirs => ~Exists(remote, p)
  /\ remote' = [remote EXCEPT ![p] =
                  IF p \in Dirs THEN DirEntry
                  ELSE [body |-> Written(edits'), etag |-> nextEtag]]
  /\ nextEtag' = nextEtag + 1
  /\ Wants(p, RemoteVersions({p}))
  /\ UNCHANGED local

RemoteDelete(p) ==
  /\ Deletes /\ Edit /\ Exists(remote, p)
  /\ remote' = Without(remote, p)
  /\ wanted' = wanted \ RemoteVersions(Within(p))
  /\ UNCHANGED <<local, nextEtag, created>>

\* A request, a file operation or a journal write fails.
Fault == faults < MaxFaults /\ faults' = faults + 1
NoFault == UNCHANGED faults

\* The daemon dies and is started again: SyncState and the tasks are gone. Between
\* runs there is nothing to lose but the statuses shown.
Crash ==
  /\ crashes < MaxCrashes /\ crashes' = crashes + 1
  /\ phase # "idle"
  /\ phase' = "idle" /\ found' = NotFound /\ task' = Nothing /\ had_error' = FALSE
  /\ status' = "Idle" /\ file_statuses' = Nothing
  /\ UNCHANGED <<trees, journal, nextEtag, stamp, history, edits, faults>>

(****************************************************************************)
(* run_sync: discovery and reconciliation.                                  *)
(****************************************************************************)
StartRun ==
  /\ phase = "idle"
  /\ phase' = "discovering" /\ status' = "Syncing"
  /\ UNCHANGED <<trees, journal, found, task, had_error, file_statuses,
                 nextEtag, stamp, history, budgets>>

\* No token, or a walk fails: the ? operator returns, the status stays Syncing.
AbortRun ==
  /\ phase = "discovering" /\ (found.loc = None \/ found.rem = None) /\ Fault
  /\ phase' = "idle" /\ found' = NotFound
  /\ UNCHANGED <<trees, journal, task, had_error, shown, nextEtag, stamp,
                 history, edits, crashes>>

discover_local ==
  /\ phase = "discovering" /\ found.loc = None
  /\ found' = [found EXCEPT !.loc = local]
  /\ UNCHANGED <<trees, journal, phase, task, had_error, shown, nextEtag,
                 stamp, history, budgets>>

discover_remote ==
  /\ phase = "discovering" /\ found.rem = None
  /\ found' = [found EXCEPT !.rem = remote]
  /\ UNCHANGED <<trees, journal, phase, task, had_error, shown, nextEtag,
                 stamp, history, budgets>>

\* A row that cannot be read counts as no row.
Baseline(p, unread) == IF p \in unread THEN None ELSE journal[p]

Instruction(p, unread) ==
  Reconcile(found.loc[p], found.rem[p], Baseline(p, unread), conflict_strategy)

reconcile_all ==
  /\ phase = "discovering" /\ found.loc # None /\ found.rem # None
  /\ \E unread \in {{}} \cup {{p} : p \in {q \in Path : journal[q] # None}} :
       /\ IF unread = {} THEN NoFault ELSE Fault
       /\ task' = [p \in Path |-> IF Instruction(p, unread) = "Ignore" THEN None
                                  ELSE Queued(Instruction(p, unread))]
  /\ phase' = "propagating" /\ found' = NotFound /\ had_error' = FALSE
  /\ UNCHANGED <<trees, journal, shown, nextEtag, stamp, history, edits, crashes>>

(****************************************************************************)
(* Propagation. A task ends with the status it leaves behind; the journal   *)
(* write before that may fail without anybody noticing.                     *)
(****************************************************************************)
At(p, op, pc) == task[p] # None /\ task[p].op \in op /\ task[p].pc = pc

\* Mutant: an error path that forgets to clear the status.
Ends_ErrorKeepsStatus(p, st) ==
  /\ task' = [task EXCEPT ![p] = None]
  /\ file_statuses' = IF st = "Error" THEN file_statuses
                      ELSE [file_statuses EXCEPT ![p] = st]
  /\ had_error' = (had_error \/ st = "Error")

Ends(p, st) ==
  /\ task' = [task EXCEPT ![p] = None]
  /\ file_statuses' = [file_statuses EXCEPT ![p] = st]
  /\ had_error' = (had_error \/ st = "Error")

Goes(p, t) ==
  /\ task' = [task EXCEPT ![p] = t]
  /\ file_statuses' = [file_statuses EXCEPT ![p] = "Syncing"]
  /\ UNCHANGED had_error

Records(p, row) ==
  \/ journal' = [journal EXCEPT ![p] = row] /\ NoFault
  \/ UNCHANGED journal /\ Fault

Fails(p) == Ends(p, "Error") /\ UNCHANGED journal

Propagating == phase = "propagating" /\ UNCHANGED <<phase, found, status,
                                           history, edits, crashes>>

\* Directories, one after the other in any order, before every file.
DirStep(d, op) ==
  /\ Propagating /\ At(d, {op}, "queued")
  /\ UNCHANGED <<nextEtag, stamp>>

DirUpload(d) ==
  /\ DirStep(d, "Upload")
  /\ UNCHANGED local
  /\ LET made == WithDirs(remote, {d}, DirEntry)
         parents == \A a \in Above(d) : Exists(remote, a)
     IN \/ parents /\ remote' = made /\ Records(d, DirRow) /\ Ends(d, "Ok")
        \/ ~parents /\ UNCHANGED remote /\ NoFault /\ Fails(d)
        \/ remote' \in {remote, IF parents THEN made ELSE remote} /\ Fault /\ Fails(d)

DirDownload(d) ==
  /\ DirStep(d, "Download")
  /\ UNCHANGED remote
  /\ \/ /\ local' = WithDirs(local, Above(d) \cup {d}, DirBody)
        /\ Records(d, DirRow) /\ Ends(d, "Ok")
     \/ UNCHANGED local /\ Fault /\ Fails(d)

DirDeleteRemote(d) ==
  /\ DirStep(d, "DeleteRemote")
  /\ UNCHANGED local
  /\ \/ remote' = Without(remote, d) /\ Records(d, None) /\ Ends(d, None)
     \/ remote' \in {remote, Without(remote, d)} /\ Fault /\ Fails(d)

DirDeleteLocal(d) ==
  /\ DirStep(d, "DeleteLocal")
  /\ UNCHANGED remote
  /\ \/ local' = Without(local, d) /\ Records(d, None) /\ Ends(d, None)
     \/ UNCHANGED local /\ Fault /\ Fails(d)

\* "unhandled dir instruction": logged, and neither an error nor a row.
DirConflict(d) ==
  /\ DirStep(d, "Conflict")
  /\ task' = [task EXCEPT ![d] = None]
  /\ UNCHANGED <<trees, journal, file_statuses, had_error, faults>>

\* A file task runs while it holds one of the semaphore's permits.
Active == {p \in Files : task[p] # None /\ task[p].pc # "queued"}

FileStart(p, op) ==
  /\ Propagating /\ At(p, op, "queued")
  /\ \A d \in Dirs : task[d] = None
  /\ Cardinality(Active) < max_parallel_transfers

FileStep(p, op, pc) == Propagating /\ At(p, op, pc)

\* KeepBoth: the local copy moves aside under the current second's name.
ConflictRename(p) ==
  /\ FileStart(p, {"Conflict"})
  /\ UNCHANGED <<remote, journal, nextEtag>>
  /\ \/ \E ts \in {stamp + 1} \cup (IF SameSecond THEN {stamp} ELSE {}) :
          /\ make_conflict_path(p, ts) \in Files
          /\ Exists(local, p)
          /\ local' = [local EXCEPT ![p] = None, ![make_conflict_path(p, ts)] = local[p]]
          /\ stamp' = ts /\ NoFault
          /\ Goes(p, [task[p] EXCEPT !.pc = "renamed"])
     \/ ~Exists(local, p) /\ NoFault /\ UNCHANGED <<local, stamp>> /\ Fails(p)
     \/ Fault /\ UNCHANGED <<local, stamp>> /\ Fails(p)

\* Mutant: a reply without an ETag header leaves no etag at all.
Get_NoDefaultEtag(p) ==
  /\ FileStart(p, {"Download"}) \/ FileStep(p, {"Conflict"}, "renamed")
  /\ UNCHANGED <<remote, journal, nextEtag, stamp>>
  /\ Exists(remote, p) /\ local' = WithDirs(local, Above(p), DirBody) /\ Fault
  /\ Goes(p, [task[p] EXCEPT !.pc = "got", !.body = remote[p].body, !.etag = None])

\* propagate_download up to the body: GET, then the parent directories.
Get(p) ==
  /\ \/ FileStart(p, {"Download"})
     \/ FileStep(p, {"Conflict"}, "renamed")
  /\ UNCHANGED <<remote, journal, nextEtag, stamp>>
  /\ LET dirs == WithDirs(local, Above(p), DirBody)
     IN \/ /\ Exists(remote, p) /\ local' = dirs
           /\ \/ /\ NoFault
                 /\ Goes(p, [task[p] EXCEPT !.pc = "got", !.body = remote[p].body,
                                            !.etag = remote[p].etag])
              \/ /\ Fault   \* the reply carries no ETag header
                 /\ Goes(p, [task[p] EXCEPT !.pc = "got", !.body = remote[p].body])
        \/ ~Exists(remote, p) /\ NoFault /\ UNCHANGED local /\ Fails(p)
        \/ Fault /\ local' \in {local, dirs} /\ Fails(p)

\* The first n bytes of a body.
Beginning(body, n) == IF n = 0 THEN Empty ELSE [body EXCEPT !.size = n]

WriteTmp(p) ==
  /\ FileStep(p, {"Download", "Conflict"}, "got")
  /\ UNCHANGED <<remote, journal, nextEtag, stamp>>
  /\ LET parents == \A d \in Above(p) : Exists(local, d)
     IN \/ /\ parents /\ NoFault
           /\ local' = [local EXCEPT ![TmpPath(p)] = task[p].body]
           /\ Goes(p, [task[p] EXCEPT !.pc = "written"])
        \/ ~parents /\ NoFault /\ UNCHANGED local /\ Fails(p)
        \/ /\ Fault /\ Fails(p)   \* a write that fails leaves what it wrote
           /\ \/ UNCHANGED local
              \/ /\ parents
                 /\ \E n \in 0..task[p].body.size :
                      local' = [local EXCEPT ![TmpPath(p)] = Beginning(task[p].body, n)]

\* Mutant: the result of the rename is not looked at.
Install_Unchecked(p) ==
  /\ FileStep(p, {"Download", "Conflict"}, "written")
  /\ UNCHANGED <<remote, journal, nextEtag, stamp>>
  /\ Goes(p, [task[p] EXCEPT !.pc = "installed"])
  /\ LET tmp == TmpPath(p)
     IN \/ /\ Exists(local, tmp) /\ NoFault
           /\ local' = IF tmp = p THEN local
                       ELSE [local EXCEPT ![tmp] = None, ![p] = local[tmp]]
        \/ Fault /\ local' = [local EXCEPT ![tmp] = None]

Install(p) ==
  /\ FileStep(p, {"Download", "Conflict"}, "written")
  /\ UNCHANGED <<remote, journal, nextEtag, stamp>>
  /\ LET tmp == TmpPath(p)
     IN \/ /\ Exists(local, tmp) /\ NoFault
           /\ local' = IF tmp = p THEN local
                       ELSE [local EXCEPT ![tmp] = None, ![p] = local[tmp]]
           /\ Goes(p, [task[p] EXCEPT !.pc = "installed"])
        \/ ~Exists(local, tmp) /\ NoFault /\ UNCHANGED local /\ Fails(p)
        \/ Fault /\ local' = [local EXCEPT ![tmp] = None] /\ Fails(p)

\* Mutants: the etag is asked for again after the transfer; it is left empty; a
\* conflict's download is not recorded.
RecordDownload_LateEtag(p) ==
  /\ FileStep(p, {"Download", "Conflict"}, "installed")
  /\ UNCHANGED <<trees, nextEtag, stamp>>
  /\ Records(p, [etag |-> IF Exists(remote, p) THEN remote[p].etag ELSE NoEtag,
                 body |-> task[p].body,
                 size |-> IF Exists(local, p) THEN local[p].size ELSE 0])
  /\ Ends(p, "Ok")

RecordDownload_EmptyEtag(p) ==
  /\ FileStep(p, {"Download", "Conflict"}, "installed")
  /\ UNCHANGED <<trees, nextEtag, stamp>>
  /\ Records(p, [etag |-> NoEtag, body |-> task[p].body,
                 size |-> IF Exists(local, p) THEN local[p].size ELSE 0])
  /\ Ends(p, "Ok")

RecordDownload_NotConflict(p) ==
  /\ FileStep(p, {"Download", "Conflict"}, "installed")
  /\ UNCHANGED <<trees, nextEtag, stamp>>
  /\ IF task[p].op = "Conflict" THEN UNCHANGED <<journal, faults>>
     ELSE Records(p, [etag |-> task[p].etag, body |-> task[p].body,
                      size |-> IF Exists(local, p) THEN local[p].size ELSE 0])
  /\ Ends(p, "Ok")

\* The row's size is the length of whatever lies at the path by now.
RecordDownload(p) ==
  /\ FileStep(p, {"Download", "Conflict"}, "installed")
  /\ UNCHANGED <<trees, nextEtag, stamp>>
  /\ Records(p, [etag |-> task[p].etag, body |-> task[p].body,
                 size |-> IF Exists(local, p) THEN local[p].size ELSE 0])
  /\ Ends(p, "Ok")

Stat(p) ==
  /\ FileStart(p, {"Upload"})
  /\ UNCHANGED <<trees, journal, nextEtag, stamp, faults>>
  /\ Goes(p, [task[p] EXCEPT !.pc = "stated",
                !.size = IF Exists(local, p) THEN local[p].size ELSE 0])

\* PUT or TUS: the body read now is sent under the length taken before. A body
\* that grew is cut off there, one that shrank makes the request fail. Only PUT
\* answers a missing parent by creating the collections and trying once more.
Put(p) ==
  /\ FileStep(p, {"Upload"}, "stated")
  /\ UNCHANGED <<local, journal, stamp>>
  /\ LET size    == task[p].size
         parents == \A d \in Above(p) : Exists(remote, d)
         sound   == Exists(local, p) /\ local[p].size >= size
                    /\ (parents \/ size < tus_threshold)
         body    == [ver |-> local[p].ver, size |-> size]
         stored  == [WithDirs(remote, Above(p), DirEntry) EXCEPT
                       ![p] = [body |-> body, etag |-> nextEtag]]
     IN \/ /\ sound /\ remote' = stored /\ nextEtag' = nextEtag + 1
           /\ \/ /\ NoFault
                 /\ Goes(p, [task[p] EXCEPT !.pc = "stored", !.body = body,
                                            !.etag = nextEtag])
              \/ /\ Fault   \* the reply carries no ETag header
                 /\ Goes(p, [task[p] EXCEPT !.pc = "stored", !.body = body])
              \/ Fault /\ Fails(p)   \* the reply is lost
        \/ ~sound /\ NoFault /\ UNCHANGED <<remote, nextEtag>> /\ Fails(p)
        \/ /\ Fault /\ Fails(p) /\ UNCHANGED nextEtag   \* after some of the MKCOLs
           /\ \E ds \in SUBSET Above(p) :
                /\ sound \/ ds = {}
                /\ \A d \in ds : Above(d) \subseteq ds
                /\ remote' = WithDirs(remote, ds, DirEntry)

RecordUpload(p) ==
  /\ FileStep(p, {"Upload"}, "stored")
  /\ UNCHANGED <<trees, nextEtag, stamp>>
  /\ Records(p, [etag |-> task[p].etag, size |-> task[p].size, body |-> task[p].body])
  /\ Ends(p, "Ok")

delete_local(p) ==
  /\ FileStart(p, {"DeleteLocal"})
  /\ UNCHANGED <<remote, nextEtag, stamp>>
  /\ \/ local' = Without(local, p) /\ Records(p, None) /\ Ends(p, None)
     \/ UNCHANGED local /\ Fault /\ Fails(p)

delete_remote(p) ==
  /\ FileStart(p, {"DeleteRemote"})
  /\ UNCHANGED <<local, nextEtag, stamp>>
  /\ \/ remote' = Without(remote, p) /\ Records(p, None) /\ Ends(p, None)
     \/ remote' \in {remote, Without(remote, p)} /\ Fault /\ Fails(p)

FinishRun ==
  /\ phase = "propagating" /\ task = Nothing
  /\ phase' = "idle" /\ status' = IF had_error THEN "Error" ELSE "Idle"
  /\ had_error' = FALSE
  /\ UNCHANGED <<trees, journal, found, task, file_statuses, nextEtag, stamp,
                 history, budgets>>

Environment == \E p \in UserPaths :
  UserWrite(p) \/ UserDelete(p) \/ RemoteWrite(p) \/ RemoteDelete(p)

DirPropagation(d) == DirUpload(d) \/ DirDownload(d) \/ DirDeleteRemote(d)
                     \/ DirDeleteLocal(d) \/ DirConflict(d)

FilePropagation(p) == ConflictRename(p) \/ Get(p) \/ WriteTmp(p) \/ Install(p)
                      \/ RecordDownload(p) \/ Stat(p) \/ Put(p) \/ RecordUpload(p)
                      \/ delete_local(p) \/ delete_remote(p)

run_sync == \/ StartRun \/ AbortRun \/ discover_local \/ discover_remote
            \/ reconcile_all
            \/ \E d \in Dirs : DirPropagation(d)
            \/ \E p \in Files : FilePropagation(p)
            \/ FinishRun

Next == Environment \/ Crash \/ run_sync

Spec == Init /\ [][Next]_vars

\* The poll loop asks for a sync of every folder for ever and a run's steps are
\* futures tokio polls until they complete.
FairSpec == Spec /\ WF_vars(run_sync)

(****************************************************************************)
(* Properties.                                                              *)
(****************************************************************************)

\* Every variable keeps its type: the trees, the journal and the state of a
\* run_sync with its tasks.
TypeOK ==
  /\ local \in Maps(Body) /\ remote \in Maps(RemoteEntry) /\ journal \in Maps(Row)
  /\ phase \in {"idle", "discovering", "propagating"}
  /\ found \in [loc : Maps(Body) \cup {None}, rem : Maps(RemoteEntry) \cup {None}]
  /\ task \in Maps(Task)
  /\ had_error \in BOOLEAN
  /\ status \in {"Idle", "Syncing", "Error"}
  /\ file_statuses \in Maps({"Ok", "Syncing", "Error"})
  /\ nextEtag \in Nat /\ stamp \in Nat
  /\ wanted \subseteq Nat /\ created \subseteq Nat
  /\ edits \in 0..MaxEdits /\ faults \in 0..MaxFaults /\ crashes \in 0..MaxCrashes

\* The engine's name for a download in progress. What an interrupted one leaves
\* there is synced like any other file, and the next may stop at the same length.
Temporary(p) == TmpPath(p) = p

\* What the engine would Ignore is in sync: once no run is in progress, a file
\* that reconcile leaves alone has the same content on both sides. Temporary files
\* are excepted.
IgnoreIsSound ==
  phase = "idle" =>
    \A p \in {q \in Files : ~Temporary(q)} :
      /\ Exists(local, p) /\ Exists(remote, p)
      /\ Reconcile(local[p], remote[p], journal[p], conflict_strategy) = "Ignore"
      => local[p] = remote[p].body

\* The journal never pairs an etag with a body the server did not hold under
\* it: when a row's etag is the server's current one, the content run_sync
\* transferred for that row is the content on the server.
RowMatchesServer ==
  \A p \in Files :
    /\ Exists(remote, p) /\ journal[p] # None
    /\ journal[p].etag = remote[p].etag
    => journal[p].body = remote[p].body

\* A path is shown as Syncing exactly while a transfer of it is in progress,
\* through failures, aborted runs and crashes.
StatusTracksTask == \A p \in Path : file_statuses[p] = "Syncing" <=> p \in Active

Alive(v) == \E p \in Path :
  \/ local[p] = Written(v)
  \/ Exists(remote, p) /\ remote[p].body = Written(v)

\* No version is lost: what somebody wrote, and nobody replaced or deleted
\* where they had it, is still whole somewhere on one of the two sides. With
\* edits on both sides this is what KeepBoth promises.
NoLoss == \A v \in wanted : Alive(v)

\* A file that somebody created where neither side had one survives until
\* somebody replaces or deletes it: run_sync propagates it and never removes it.
CreatedSurvives == \A v \in wanted \cap created : Alive(v)

\* propagate_download puts in place exactly the body it fetched: what the rename
\* installs is what the GET returned, whatever other tasks do meanwhile.
InstalledIsFetched ==
  \A p \in Files : At(p, {"Download", "Conflict"}, "installed") => local[p] = task[p].body

\* A run that ends without an error has a journal row for every path that is on
\* both sides; a path without one comes back when somebody deletes it.
RunLeavesRows ==
  [][FinishRun /\ ~had_error =>
       \A p \in Path : Exists(local, p) /\ Exists(remote, p) => journal[p] # None]_vars

Agree(p) ==
  \/ ~Exists(local, p) /\ ~Exists(remote, p)
  \/ Exists(local, p) /\ Exists(remote, p) /\ local[p] = remote[p].body

\* Once edits and failures cease, the two sides become equal and stay equal.
Converges == <>[](\A p \in Path : Agree(p))

=============================================================================
