------------------------------ MODULE Accounts -------------------------------
(****************************************************************************)
(* The daemon's accounts: sign-in through the browser, the config in memory *)
(* and on disk, the keychain, the token managers, the folders served for an *)
(* account, the pollers that watch its spaces, and restarts in between.     *)
(* The scheduler, the engines and the polled ids gain a folder together     *)
(* (Daemon); here they are the one set served.                              *)
(****************************************************************************)
EXTENDS Integers, FiniteSets, Discovery

CONSTANTS
  None,
  Account,      \* ids, one per sign-in attempt
  User,         \* who signs in where: a server URL with a user id
  OAuthOnly,    \* users of oc10 servers without a discovery document
  Classic,      \* users of oc10 servers
  Folder, Space,
  Entered,      \* the host the user types
  Answer,       \* what the network may answer to a sign-in
  MaxFaults, MaxCrashes, MaxChanges

Entry == [who : User, folder : SUBSET Folder]
Config == [Account -> Entry \cup {None}]

ASSUME AccountsAssumption ==
  /\ None \notin User \cup Space \cup Folder \cup Entry /\ OAuthOnly \subseteq Classic /\ Classic \subseteq User
  /\ Entered \in Seq(STRING) \ {<<>>}
  /\ \A net \in Answer : net.webfinger.kind \in {"unreachable", "other", "jrd"} /\ {net.document, net.installed} \subseteq BOOLEAN
  /\ {MaxFaults, MaxCrashes, MaxChanges} \subseteq Nat

VARIABLES
  up,           \* is the daemon past its start?
  cfg, disk,    \* the config in memory and in owncloud.toml
  torn,         \* does owncloud.toml miss some of what was written last?
  keychain,     \* accounts with tokens in the keychain
  tms,          \* accounts with a token manager
  served,       \* folders with engine, schedule and poll
  space,        \* per folder id given out: its space
  stage,        \* per attempt: where it is
  who,          \* per attempt: whose it is
  poller,       \* per account: None, or what its poll has read
  spaces,       \* per user: the spaces on the server
  \* history, read by no action
  said,         \* per attempt: the results broadcast
  quiet,        \* attempts that ended with a timeout, a crash, a keychain entry that
                \* could not be deleted or a listener without an address
  skipped,      \* accounts that the last start passed over
  removed,      \* accounts removed by the user
  vanished,     \* folders whose space was off the server while they were configured
  lost,         \* accounts that a start did not find in a torn file
  taken,        \* folders a poller took out of the config
  faults, crashes, changes

stores  == <<cfg, disk, torn, keychain>>
service == <<tms, served, space>>
attempts == <<stage, who, said>>
history == <<quiet, skipped, removed, vanished, lost, taken>>
counts  == <<faults, crashes, changes>>
vars == <<up, stores, service, attempts, poller, spaces, history, counts>>

NoAccounts == [a \in Account |-> None]
NewAccount(u) == [who |-> u, folder |-> {}]

FoldersOf(entry) == IF entry = None THEN {} ELSE entry.folder

Init ==
  /\ up = TRUE /\ cfg = NoAccounts /\ disk = NoAccounts /\ keychain = {} /\ tms = {}
  /\ served = {} /\ space = [f \in Folder |-> None]
  /\ stage = [a \in Account |-> "new"] /\ who = [a \in Account |-> None]
  /\ poller = [a \in Account |-> None] /\ spaces \in [User -> {Space}]
  /\ said = [a \in Account |-> {}] /\ quiet = {} /\ skipped = {} /\ removed = {}
  /\ vanished = {} /\ torn = FALSE /\ lost = {} /\ taken = {}
  /\ faults = 0 /\ crashes = 0 /\ changes = 0

Fault == faults < MaxFaults /\ faults' = faults + 1
Works(ok) == IF ok THEN UNCHANGED faults ELSE Fault

\* The configs that a beginning of c's text may spell: some of its accounts, the last
\* of them perhaps without all of its folders. No text at all is a config without
\* accounts. A text that ends within a line keeps the daemon from starting: a behaviour
\* in which Starts is never taken.
Beginnings(c) ==
  {d \in Config :
     /\ \A a \in Account : d[a] # None =>
          c[a] # None /\ d[a].who = c[a].who /\ d[a].folder \subseteq c[a].folder
     /\ \A a, b \in Account : None \notin {d[a], d[b]} /\ d[a] # c[a] /\ d[b] # c[b] => a = b}

\* AppConfig::save of what memory now holds. It fails before the file is opened, which
\* empties it, or while the text is written.
save(ok) ==
  IF ok THEN disk' = cfg' /\ torn' = FALSE
  ELSE \/ UNCHANGED <<disk, torn>>
       \/ disk' \in Beginnings(cfg') /\ torn' = (disk' # cfg')

(****************************************************************************)
(* A sign-in. Every failure is broadcast.                                   *)
(****************************************************************************)

Says(a, e) == said' = [said EXCEPT ![a] = @ \cup {e}]
To(a, s) == stage' = [stage EXCEPT ![a] = s]
Fails(a) == To(a, "done") /\ Says(a, "failed")
At(a, s) == up /\ stage[a] = s
Silent(a, s) == To(a, s) /\ UNCHANGED said

\* The command: bind the callback's port, ask for its number, then leave the rest to a
\* task. Without the number the command ends with no event. Ids are fresh; which one
\* is taken makes no difference.
AddAccount(a, u) ==
  /\ At(a, "new") /\ a = CHOOSE b \in Account : stage[b] = "new"
  /\ who' = [who EXCEPT ![a] = u]
  /\ \/ Silent(a, "discover") /\ UNCHANGED <<quiet, faults>>
     \/ Fault /\ Fails(a) /\ UNCHANGED quiet
     \/ Fault /\ Silent(a, "done") /\ quiet' = quiet \cup {a}
  /\ UNCHANGED <<up, stores, service, poller, spaces, skipped, removed, vanished, lost, taken, crashes, changes>>

\* The answers of u's server when nothing is wrong with it.
Healthy(u, net) ==
  net.webfinger.kind # "unreachable" /\ net.installed /\ net.document = (u \notin OAuthOnly)

\* Where the browser ends up: a server that lost its document for a moment is taken
\* for one that only has the OAuth2 app, whose pages it does not have.
BrowserAt(u, flow) == IF (flow = "oauth2") = (u \in OAuthOnly) THEN "callback" ELSE "astray"

\* Mutant: a server that cannot be reached ends the task without an event.
Discover_Silent(a) ==
  /\ At(a, "discover")
  /\ \E ok \in BOOLEAN : Works(ok) /\ Silent(a, IF ok THEN "callback" ELSE "done")
  /\ UNCHANGED <<up, stores, service, who, poller, spaces, history, crashes, changes>>

\* The task of AddAccount up to the browser; a URL that cannot be parsed or a
\* verifier that cannot be made fails as well.
Discover(a) ==
  /\ At(a, "discover")
  /\ \/ \E net \in Answer :
          /\ net.document => who[a] \notin OAuthOnly
          /\ Works(Healthy(who[a], net))
          /\ LET s == set_up(Entered, net) IN
             IF s = Failed THEN Fails(a) ELSE Silent(a, BrowserAt(who[a], s.flow))
     \/ Fault /\ Fails(a)
  /\ UNCHANGED <<up, stores, service, who, poller, spaces, history, crashes, changes>>

\* The browser's request comes in, its code is exchanged for tokens, they are
\* saved, and only then is there a token manager.
ExchangeAndSave(a) ==
  /\ At(a, "callback")
  /\ \E ok \in BOOLEAN :
       /\ Works(ok)
       /\ IF ok THEN /\ keychain' = keychain \cup {a} /\ tms' = tms \cup {a}
                     /\ Silent(a, "identity")
          ELSE Fails(a) /\ UNCHANGED <<keychain, tms>>
  /\ UNCHANGED <<up, cfg, disk, torn, served, space, who, poller, spaces, history, crashes, changes>>

\* A server that advertises spaces is oCIS, any other is Classic; the type is kept
\* in the config.
detect_server_type(u) == IF u \in Classic THEN "Classic" ELSE "Ocis"

\* The type, then /me or cloud/user.
resolve_identity(a) ==
  /\ At(a, "identity")
  /\ \E ok \in BOOLEAN : Works(ok) /\ Silent(a, IF ok THEN "enroll" ELSE "cleanup")
  /\ UNCHANGED <<up, stores, service, who, poller, spaces, history, crashes, changes>>

SameUser(a) == \E b \in Account : cfg[b] # None /\ cfg[b].who = who[a]

\* Mutant: the user is not compared with those configured.
Enroll_Unchecked(a) ==
  /\ At(a, "enroll")
  /\ cfg' = [cfg EXCEPT ![a] = NewAccount(who[a])] /\ save(TRUE)
  /\ To(a, "respond") /\ Says(a, "completed")
  /\ UNCHANGED <<up, keychain, service, who, poller, spaces, history, counts>>

\* Mutant: success is announced whether or not the config could be saved.
Enroll_SaveIgnored(a) ==
  /\ At(a, "enroll") /\ ~SameUser(a)
  /\ \E ok \in BOOLEAN :
       /\ Works(ok) /\ cfg' = [cfg EXCEPT ![a] = NewAccount(who[a])] /\ save(ok)
       /\ To(a, "respond") /\ Says(a, "completed")
  /\ UNCHANGED <<up, keychain, service, who, poller, spaces, history, crashes, changes>>

\* Check, push and save under one lock. A config that cannot be saved keeps the
\* account in memory.
Enroll(a) ==
  /\ At(a, "enroll")
  /\ \/ SameUser(a) /\ Silent(a, "cleanup") /\ UNCHANGED <<cfg, disk, torn, faults>>
     \/ /\ ~SameUser(a)
        /\ \E ok \in BOOLEAN :
             /\ Works(ok) /\ cfg' = [cfg EXCEPT ![a] = NewAccount(who[a])] /\ save(ok)
             /\ IF ok THEN To(a, "respond") /\ Says(a, "completed") ELSE Silent(a, "cleanup")
  /\ UNCHANGED <<up, keychain, service, who, poller, spaces, history, crashes, changes>>

\* Mutant: only the keychain is cleaned up.
Cleanup_KeepsManager(a) ==
  /\ At(a, "cleanup") /\ keychain' = keychain \ {a} /\ Fails(a)
  /\ UNCHANGED <<up, cfg, disk, torn, service, who, poller, spaces, history, counts>>

\* Error page, token manager, keychain; an entry that stays is only logged.
Cleanup(a) ==
  /\ At(a, "cleanup") /\ tms' = tms \ {a} /\ Fails(a)
  /\ \E ok \in BOOLEAN :
       /\ Works(ok) /\ keychain' = IF ok THEN keychain \ {a} ELSE keychain
       /\ quiet' = IF ok THEN quiet ELSE quiet \cup {a}
  /\ UNCHANGED <<up, cfg, disk, torn, served, space, who, poller, spaces, skipped, removed, vanished, lost,
                 taken, crashes, changes>>

\* The browser's page is best effort.
Respond(a) ==
  /\ At(a, "respond") /\ Silent(a, "done")
  /\ UNCHANGED <<up, stores, service, who, poller, spaces, history, counts>>

\* Five minutes after the callback began to listen, wherever it is. A keychain
\* write that has begun goes on.
TimesOut(a) ==
  /\ up /\ stage[a] \in {"callback", "astray", "identity", "enroll", "cleanup", "respond"}
  /\ Fails(a) /\ quiet' = quiet \cup {a}
  /\ keychain' \in {keychain} \cup IF stage[a] = "callback" THEN {keychain \cup {a}} ELSE {}
  /\ UNCHANGED <<up, cfg, disk, torn, service, who, poller, spaces, skipped, removed, vanished, lost, taken,
                 counts>>

SignIn(a) ==
  \/ Discover(a) \/ ExchangeAndSave(a) \/ resolve_identity(a) \/ Enroll(a) \/ Cleanup(a) \/ Respond(a) \/ TimesOut(a)

(****************************************************************************)
(* Commands on an account.                                                  *)
(****************************************************************************)

\* The account leaves the config; what serves its folders stays.
RemoveAccount(a) ==
  /\ up /\ cfg[a] # None /\ cfg' = [cfg EXCEPT ![a] = None]
  /\ \E ok \in BOOLEAN : Works(ok) /\ save(ok)
  /\ removed' = removed \cup {a}
  /\ UNCHANGED <<up, keychain, service, attempts, poller, spaces, quiet, skipped, vanished, lost, taken,
                 crashes, changes>>

\* Folder ids are fresh; which one is taken makes no difference.
NextId == CHOOSE f \in Folder \cup {None} :
            IF \A g \in Folder : space[g] # None THEN f = None ELSE f \in Folder /\ space[f] = None

\* Mutant: a folder whose engine could not be set up is configured all the same.
AddFolder_Unserved(a, f, s) ==
  /\ up /\ cfg[a] # None /\ a \in tms /\ f = NextId
  /\ space' = [space EXCEPT ![f] = s]
  /\ cfg' = [cfg EXCEPT ![a].folder = @ \cup {f}] /\ save(TRUE)
  /\ served' \in {served, served \cup {f}}
  /\ UNCHANGED <<up, keychain, tms, attempts, poller, spaces, history, counts>>

\* oc10 has no spaces: one id stands for all a user has.
Offered(u) == IF detect_server_type(u) = "Classic" THEN {CHOOSE s \in Space : TRUE} ELSE Space

\* A space of SetAccountFolders, or AddAccountSpace, once its directory and its
\* engine could be made. A failed save is only logged. The offered spaces come
\* from an earlier listing: the space may be gone by now.
AddFolder(a, f, s) ==
  /\ up /\ cfg[a] # None /\ a \in tms /\ f = NextId
  /\ s \in Offered(cfg[a].who) /\ space' = [space EXCEPT ![f] = s] /\ served' = served \cup {f}
  /\ cfg' = [cfg EXCEPT ![a].folder = @ \cup {f}]
  /\ vanished' = IF s \in spaces[cfg[a].who] THEN vanished ELSE vanished \cup {f}
  /\ \E ok \in BOOLEAN : Works(ok) /\ save(ok)
  /\ UNCHANGED <<up, keychain, tms, attempts, poller, spaces, quiet, skipped, removed, lost, taken,
                 crashes, changes>>

\* The dismissed spaces matter only for announcements, which the GUI logs and this
\* module leaves out; but the config is saved, with all that memory holds.
DismissSpace(a) ==
  /\ up /\ cfg[a] # None /\ UNCHANGED cfg
  /\ \E ok \in BOOLEAN : Works(ok) /\ save(ok)
  /\ UNCHANGED <<up, keychain, service, attempts, poller, spaces, history, crashes, changes>>

(****************************************************************************)
(* A poll: read the config, list the spaces, take out what is gone.         *)
(****************************************************************************)

Idle == [at |-> "idle", known |-> {}]

ReadConfig(a) ==
  /\ up /\ poller[a] = Idle /\ cfg[a] # None
  /\ poller' = [poller EXCEPT ![a] = [at |-> "list", known |-> cfg[a].folder]]
  /\ UNCHANGED <<up, stores, service, attempts, spaces, history, counts>>

\* known becomes the folders that were read and whose space is not in the list.
list_spaces(a) ==
  /\ up /\ poller[a] # None /\ poller[a].at = "list"
  /\ \E ok \in BOOLEAN :
       LET missing == {f \in poller[a].known : space[f] \notin spaces[who[a]]} IN
       /\ Works(ok)
       /\ poller' = [poller EXCEPT ![a] =
            IF ok /\ missing # {} THEN [at |-> "remove", known |-> missing] ELSE Idle]
  /\ UNCHANGED <<up, stores, service, attempts, spaces, history, crashes, changes>>

\* Mutant: what is configured by now is removed, read before the listing or not.
RemoveGone_Revisited(a) ==
  /\ up /\ poller[a] # None /\ poller[a].at = "remove" /\ cfg[a] # None
  /\ cfg' = [cfg EXCEPT ![a].folder = {}] /\ taken' = taken \cup cfg[a].folder
  /\ poller' = [poller EXCEPT ![a] = Idle] /\ save(TRUE)
  /\ UNCHANGED <<up, keychain, service, attempts, spaces, quiet, skipped, removed, vanished, lost, counts>>

\* Under the lock, folders that are still there; the engines are not told.
RemoveGone(a) ==
  /\ up /\ poller[a] # None /\ poller[a].at = "remove"
  /\ poller' = [poller EXCEPT ![a] = Idle]
  /\ IF cfg[a] = None THEN UNCHANGED <<cfg, taken>>
     ELSE /\ cfg' = [cfg EXCEPT ![a].folder = @ \ poller[a].known]
          /\ taken' = taken \cup (cfg[a].folder \cap poller[a].known)
  /\ \E ok \in BOOLEAN : Works(ok) /\ save(ok)
  /\ UNCHANGED <<up, keychain, service, attempts, spaces, quiet, skipped, removed, vanished, lost,
                 crashes, changes>>

Poll(a) == ReadConfig(a) \/ list_spaces(a) \/ RemoveGone(a)

(****************************************************************************)
(* Server and process.                                                      *)
(****************************************************************************)

\* Spaces come and go, where there are spaces.
ServerChanges(u, s) ==
  /\ detect_server_type(u) = "Ocis" /\ changes < MaxChanges /\ changes' = changes + 1
  /\ spaces' = [spaces EXCEPT ![u] = IF s \in @ THEN @ \ {s} ELSE @ \cup {s}]
  /\ vanished' = vanished \cup
       {f \in Folder : space[f] = s /\ s \in spaces[u] /\ \E a \in Account :
          who[a] = u /\ f \in FoldersOf(cfg[a]) \cup FoldersOf(disk[a])}
  /\ UNCHANGED <<up, stores, service, attempts, poller, quiet, skipped, removed, lost, taken, faults, crashes>>

\* A crash, or Quit: attempts end without a word. A crash within save, which may
\* come with any command, leaves a beginning of the text.
Stops ==
  /\ up /\ crashes < MaxCrashes /\ crashes' = crashes + 1 /\ up' = FALSE
  /\ \/ UNCHANGED <<disk, torn>>
     \/ disk' \in Beginnings(cfg) /\ torn' = (disk' # cfg)
  /\ cfg' = NoAccounts /\ tms' = {} /\ served' = {} /\ poller' = [a \in Account |-> None]
  /\ quiet' = quiet \cup {a \in Account : stage[a] \notin {"new", "done"}}
  /\ stage' = [a \in Account |-> IF stage[a] = "new" THEN "new" ELSE "done"]
  /\ UNCHANGED <<keychain, space, who, said, spaces, skipped, removed, vanished, lost, taken,
                 faults, changes>>

\* Accounts with tokens in the keychain and a discovery document, but for those
\* where one of the two cannot be had. There is no fallback for servers without a
\* document.
Able == {a \in keychain : disk[a] # None /\ disk[a].who \notin OAuthOnly}
build_token_managers(bad) == tms' = Able \ bad /\ skipped' = {a \in Account : disk[a] # None} \ tms'

\* Folders of accounts without a token manager are skipped.
init_sync == served' = UNION {disk[a].folder : a \in tms'}

\* Classic accounts have no spaces to poll.
SpawnPollers ==
  poller' = [a \in Account |->
               IF a \in tms' /\ detect_server_type(disk[a].who) = "Ocis" THEN Idle ELSE None]

Starts ==
  /\ ~up /\ up' = TRUE /\ cfg' = disk /\ torn' = FALSE
  /\ lost' = lost \cup {a \in Account : torn /\ "completed" \in said[a] /\ disk[a] = None}
  /\ \E bad \in SUBSET Able :
       /\ IF bad = {} THEN UNCHANGED faults ELSE Fault
       /\ build_token_managers(bad)
  /\ init_sync /\ SpawnPollers
  /\ UNCHANGED <<disk, keychain, space, attempts, spaces, quiet, removed, vanished, taken,
                 crashes, changes>>

Commands ==
  \E a \in Account :
    \/ \E u \in User : AddAccount(a, u)
    \/ RemoveAccount(a)
    \/ \E f \in Folder, s \in Space : AddFolder(a, f, s)
    \/ DismissSpace(a)

Next ==
  \/ Commands \/ Stops \/ Starts
  \/ \E a \in Account : SignIn(a) \/ Poll(a)
  \/ \E u \in User, s \in Space : ServerChanges(u, s)

Spec == Init /\ [][Next]_vars

\* The timer of a callback that listens goes off. Nothing bounds the requests of
\* discovery, and nothing else need happen for an attempt to end.
Fairness == \A a \in Account : WF_vars(TimesOut(a))

FairSpec == Spec /\ Fairness

(****************************************************************************)
(* Properties.                                                              *)
(****************************************************************************)

Stage == {"new", "discover", "callback", "astray", "identity", "enroll", "cleanup", "respond", "done"}

\* The stores hold accounts of known users, and what is given out stays given out.
TypeOK ==
  /\ up \in BOOLEAN /\ torn \in BOOLEAN
  /\ cfg \in Config /\ disk \in Config
  /\ keychain \subseteq Account /\ tms \subseteq Account
  /\ served \subseteq Folder /\ space \in [Folder -> Space \cup {None}]
  /\ stage \in [Account -> Stage] /\ who \in [Account -> User \cup {None}]
  /\ poller \in [Account -> {None} \cup
                   [at : {"idle", "list", "remove"}, known : SUBSET Folder]]
  /\ spaces \in [User -> SUBSET Space]
  /\ said \in [Account -> SUBSET {"completed", "failed"}]
  /\ quiet \subseteq Account /\ skipped \subseteq Account /\ removed \subseteq Account /\ lost \subseteq Account
  /\ vanished \subseteq Folder /\ taken \subseteq Folder
  /\ faults \in 0..MaxFaults /\ crashes \in 0..MaxCrashes /\ changes \in 0..MaxChanges

\* No user of a server is configured twice, in memory or on disk, however many
\* sign-ins overlap: check and push share one lock.
AccountsDistinct ==
  \A a, b \in Account :
    /\ cfg[a] # None /\ cfg[b] # None /\ cfg[a].who = cfg[b].who => a = b
    /\ disk[a] # None /\ disk[b] # None /\ disk[a].who = disk[b].who => a = b

\* An attempt that reported an error leaves no credentials behind, neither in
\* memory nor in the keychain. Exceptions: timeouts, crashes, and a keychain that
\* refuses to delete.
FailedLeavesNothing ==
  \A a \in Account \ quiet : "failed" \in said[a] => a \notin tms /\ a \notin keychain

\* An account announced as added stays usable until it is removed: it is in memory
\* with its tokens over restarts and failing saves, and it is on disk, or the file is
\* torn and the next save that succeeds mends it. Only a start from a torn file loses
\* it.
CompletedSurvives ==
  \A a \in Account \ (removed \cup lost) :
    "completed" \in said[a] =>
      /\ a \in keychain /\ (~torn => disk[a] # None)
      /\ up => cfg[a] # None /\ (a \notin skipped => a \in tms)

\* Every folder in the config is served, except those of accounts that the last
\* start could not authenticate.
ConfiguredIsServed ==
  up => \A a \in Account \ skipped : cfg[a] # None => cfg[a].folder \subseteq served

\* A poller takes out only folders whose space was off the server at some moment
\* since they were added: a folder added during the poll is not judged by a list
\* made before it.
OnlyGoneTaken == taken \subseteq vanished

\* Every attempt that gets past discovery, or fails in it, ends with an event, unless
\* the daemon stops or cannot tell the port it listens on.
AttemptAnswered ==
  \A a \in Account : stage[a] \notin {"new", "discover"} ~> said[a] # {} \/ a \in quiet

=============================================================================
