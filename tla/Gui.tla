--------------------------------- MODULE Gui ---------------------------------
(****************************************************************************)
(* The GUI's copy of the daemon's accounts and folders, and the wizard that *)
(* changes them: commands one way, a snapshot and broadcast events the      *)
(* other way, over one connection that may be cut and made again (GuiLink). *)
(* How the daemon's sign-in and poller work inside is module Accounts'.     *)
(****************************************************************************)
EXTENDS Scheduler, Integers, Sequences, FiniteSets, Functions

CONSTANTS
  Account, Folder, Space,
  Known0,         \* the account configured at the start, with one folder
  BroadcastCap,   \* events a subscriber may be behind (256 in the code)
  WireCap,        \* events in the socket and the GUI's channel (64)
  CmdCap,         \* commands on their way to the main loop (64)
  MaxClicks,
  MaxUpsets       \* lost connections, polls, failures and vanished spaces, together

ASSUME GuiAssumption ==
  /\ Known0 \in Account /\ None \notin Account \cup Folder \cup Space
  /\ IsFiniteSet(Account) /\ IsFiniteSet(Folder)
  /\ None \notin [account : Account, space : Space]
  /\ {BroadcastCap, WireCap, CmdCap} \subseteq Nat \ {0}
  /\ {MaxClicks, MaxUpsets} \subseteq Nat

VARIABLES
  \* daemon
  configured,     \* accounts in the config
  folder,         \* per id: None or its account and space, in the config
  used,           \* folder ids given out
  sched,          \* the scheduler's flags
  running,        \* folders with a task in run_sync
  announcing,     \* per folder and outcome: tasks past finish_sync
  signing,        \* accounts whose sign-in is under way
  credentials,    \* accounts with a token manager
  listing,        \* accounts with a ListSpaces task
  \* connection
  link,           \* "down", "connected", "subscribed", "snapped", "streaming"
  queue,          \* the subscriber's part of the broadcast channel
  wire,
  cmds,           \* commands of this connection
  inbox,          \* commands of earlier ones that reached the main loop
  \* GUI
  accounts,       \* app.accounts
  view,           \* app.active_view
  \* history, read by no action
  lagged,         \* events were dropped since the last snapshot
  raced,          \* a removal crossed a snapshot or event, or got lost
  dropped,        \* folders whose forced sync the scheduler turned down
  lost,           \* a command or a connection was lost
  unanswered,     \* a sign-in ended without an event, or a listing without a list
  clicks, upsets

config == <<configured, folder, used, credentials>>
jobs   == <<sched, running, announcing>>
tasks  == <<signing, listing>>
history == <<lagged, raced, dropped, lost, unanswered>>
counts == <<clicks, upsets>>
vars == <<config, jobs, tasks, link, queue, wire, cmds, inbox, accounts, view, history, counts>>

Upset == upsets < MaxUpsets /\ upsets' = upsets + 1

At(name, a) == [at |-> name, account |-> a, offered |-> {}, selected |-> {},
                path |-> FALSE, error |-> FALSE]
SyncStatus == At("SyncStatus", None)

FolderView(f, s, status) == [id |-> f, space |-> s, status |-> status]
FoldersOf(a) == {f \in Folder : folder[f] # None /\ folder[f].account = a}

Init ==
  /\ configured = {Known0} /\ credentials = {Known0}
  /\ \E f \in Folder, s \in Space :
       /\ folder = [g \in Folder |-> IF g = f THEN [account |-> Known0, space |-> s] ELSE None]
       /\ used = {f}
       /\ sched = [g \in Folder |-> IF g = f THEN Default ELSE None]
  /\ running = {} /\ announcing = [f \in Folder |-> [ok \in BOOLEAN |-> 0]]
  /\ signing = {} /\ listing = {}
  /\ link = "down" /\ queue = <<>> /\ wire = <<>> /\ cmds = <<>> /\ inbox = <<>>
  /\ accounts = <<>> /\ view = SyncStatus
  /\ lagged = FALSE /\ raced = FALSE /\ dropped = {} /\ lost = FALSE /\ unanswered = FALSE
  /\ clicks = 0 /\ upsets = 0

(****************************************************************************)
(* Connection: subscribe first, then take the snapshot, write it, and only  *)
(* then forward events.                                                     *)
(****************************************************************************)

\* Mutant: the receiver is created when the loop begins to forward.
Listening_Late == link = "streaming"

Listening == link \in {"subscribed", "snapped", "streaming"}

\* A full channel forgets its oldest event; the reader is told, and goes on.
broadcast(events) ==
  LET q == queue \o events
      over == Len(q) - BroadcastCap
  IN IF ~Listening THEN UNCHANGED <<queue, lagged>>
     ELSE IF over <= 0 THEN queue' = q /\ UNCHANGED lagged
     ELSE queue' = SubSeq(q, over + 1, Len(q)) /\ lagged' = TRUE

Connect ==
  /\ link = "down" /\ link' = "connected" /\ view' = SyncStatus
  /\ UNCHANGED <<config, jobs, tasks, queue, wire, cmds, inbox, accounts, history, counts>>

Subscribe ==
  /\ link = "connected" /\ link' = "subscribed"
  /\ UNCHANGED <<config, jobs, tasks, queue, wire, cmds, inbox, accounts, view, history, counts>>

folder_status(s) ==
  IF s = None THEN "Idle"
  ELSE IF s.paused THEN "Paused" ELSE IF s.running THEN "Syncing" ELSE "Idle"

Pending == inbox \o cmds

\* The daemon goes through a set in some order.
Ordered(S) == CHOOSE s \in Bijection(1..Cardinality(S), S) : TRUE

AccountSnapshot ==
  LET fs(a) == Ordered({FolderView(f, folder[f].space, folder_status(sched[f])) :
                          f \in FoldersOf(a)})
      as == Ordered(configured)
  IN [ev |-> "AccountSnapshot",
      accounts |-> [i \in DOMAIN as |-> [id |-> as[i], folders |-> fs(as[i])]]]

\* Both locks are held while the snapshot is taken.
snapshot ==
  /\ link = "subscribed" /\ link' = "snapped"
  /\ Len(wire) < WireCap /\ wire' = Append(wire, AccountSnapshot)
  /\ lagged' = FALSE
  /\ raced' = (\E i \in DOMAIN Pending : Pending[i].cmd = "RemoveAccount")
  /\ UNCHANGED <<config, jobs, tasks, queue, cmds, inbox, accounts, view, dropped, lost, unanswered, counts>>

Streams ==
  /\ link = "snapped" /\ link' = "streaming"
  /\ UNCHANGED <<config, jobs, tasks, queue, wire, cmds, inbox, accounts, view, history, counts>>

Forward ==
  /\ link = "streaming" /\ queue # <<>> /\ Len(wire) < WireCap
  /\ wire' = Append(wire, Head(queue)) /\ queue' = Tail(queue)
  /\ UNCHANGED <<config, jobs, tasks, link, cmds, inbox, accounts, view, history, counts>>

\* The connection ends, for instance because an event cut short the reading of a
\* command and the next frame made no sense. Commands not yet read are lost,
\* events already received are still handled.
Drop ==
  /\ link # "down" /\ Upset
  /\ link' = "down" /\ queue' = <<>> /\ lost' = TRUE
  /\ cmds' = <<>> /\ \E n \in 0..Len(cmds) : inbox' = inbox \o SubSeq(cmds, 1, n)
  /\ UNCHANGED <<config, jobs, tasks, wire, accounts, view, lagged, raced, dropped, unanswered, clicks>>

(****************************************************************************)
(* The daemon: handle_command, one command at a time.                       *)
(****************************************************************************)

Event(name, a) == [ev |-> name, account |-> a]

\* The main loop has the commands of earlier connections, and those of this one
\* once its snapshot is written.
Handles(name) ==
  /\ inbox # <<>> \/ (link = "streaming" /\ cmds # <<>>)
  /\ Head(Pending).cmd = name
  /\ UNCHANGED <<link, wire, accounts, view, raced, lost>>
Leaves(rest) ==
  IF inbox # <<>> THEN inbox' = rest \o Tail(inbox) /\ UNCHANGED cmds
  ELSE cmds' = rest \o Tail(cmds) /\ UNCHANGED inbox
Done == Leaves(<<>>)

TriggerSync ==
  /\ Handles("TriggerSync") /\ Done
  /\ LET f == Head(Pending).folder
     IN /\ sched' = [sched EXCEPT ![f] = force_request_sync(@)]
        /\ dropped' = IF sched'[f].pending THEN dropped \ {f} ELSE dropped \cup {f}
        /\ broadcast(<<[ev |-> "SyncStarted", folder |-> f]>>)
  /\ UNCHANGED <<config, running, announcing, tasks, unanswered, counts>>

\* What these two broadcast is only logged by the GUI.
PauseFolder ==
  /\ Handles("PauseFolder") /\ Done
  /\ sched' = [sched EXCEPT ![Head(Pending).folder] = pause(@)]
  /\ UNCHANGED <<config, running, announcing, tasks, queue, lagged, unanswered, dropped, counts>>

ResumeFolder ==
  /\ Handles("ResumeFolder") /\ Done
  /\ sched' = [sched EXCEPT ![Head(Pending).folder] = resume(@)]
  /\ UNCHANGED <<config, running, announcing, tasks, queue, lagged, unanswered, dropped, counts>>

\* The port for the callback is bound, or the attempt ends at once: with an event
\* when the port cannot be bound, without one when its number cannot be read.
AddAccount ==
  /\ Handles("AddAccount") /\ Done
  /\ \E a \in Account \ (configured \cup signing \cup credentials) :
       \/ signing' = signing \cup {a} /\ UNCHANGED <<queue, lagged, unanswered, upsets>>
       \/ Upset /\ broadcast(<<Event("AccountAddFailed", a)>>) /\ UNCHANGED <<signing, unanswered>>
       \/ Upset /\ unanswered' = TRUE /\ UNCHANGED <<signing, queue, lagged>>
  /\ UNCHANGED <<config, jobs, listing, dropped, clicks>>

\* Scheduler, engines and token manager keep what they have.
RemoveAccount ==
  /\ Handles("RemoveAccount") /\ Done
  /\ configured' = configured \ {Head(Pending).account}
  /\ folder' = [f \in Folder |-> IF f \in FoldersOf(Head(Pending).account) THEN None ELSE folder[f]]
  /\ UNCHANGED <<used, credentials, jobs, tasks, queue, lagged, unanswered, dropped, counts>>

Servable(a) == a \in configured /\ a \in credentials

ListSpaces ==
  /\ Handles("ListSpaces") /\ Done
  /\ LET a == Head(Pending).account
     IN IF Servable(a)
        THEN listing' = listing \cup {a} /\ UNCHANGED <<queue, lagged, unanswered>>
        ELSE /\ broadcast(<<Event("AccountSpaceFailed", a)>>)
             /\ unanswered' = TRUE /\ UNCHANGED listing
  /\ UNCHANGED <<config, jobs, signing, dropped, counts>>

\* One space of SetAccountFolders or AddAccountSpace: directory, engine, config,
\* scheduler, event.
AddFolder(a, s) ==
  \/ \E f \in Folder \ used :
       /\ used' = used \cup {f}
       /\ folder' = [folder EXCEPT ![f] = [account |-> a, space |-> s]]
       /\ sched' = [sched EXCEPT ![f] = request_sync(add_folder(@))]
       /\ broadcast(<<[ev |-> "AccountFolderAdded", account |-> a, folder |-> f, space |-> s]>>)
       /\ UNCHANGED upsets
  \/ /\ Upset /\ broadcast(<<Event("AccountSpaceFailed", a)>>)
     /\ UNCHANGED <<used, folder, sched>>

\* The loop over the spaces awaits between them: the command stays at the head.
AddFolders ==
  /\ Handles("AddFolders")
  /\ LET c == Head(Pending)
     IN IF Servable(c.account)
        THEN \E s \in c.spaces :
               /\ AddFolder(c.account, s)
               /\ Leaves(IF c.spaces = {s} THEN <<>> ELSE <<[c EXCEPT !.spaces = @ \ {s}]>>)
        ELSE /\ broadcast(<<Event("AccountSpaceFailed", c.account)>>) /\ Done
             /\ UNCHANGED <<used, folder, sched, upsets>>
  /\ UNCHANGED <<configured, credentials, running, announcing, tasks, unanswered, dropped, clicks>>

handle_command == TriggerSync \/ PauseFolder \/ ResumeFolder \/ AddAccount \/ RemoveAccount
                  \/ ListSpaces \/ AddFolders

(****************************************************************************)
(* The daemon: tick, sync tasks, sign-ins, listings, polls.                 *)
(****************************************************************************)

daemonOnly == <<link, wire, cmds, inbox, accounts, view, raced, dropped, lost>>

scheduler_tick ==
  LET ready == {f \in Folder : ready_to_run(sched[f])}
      ids == Ordered(ready)
  IN /\ ready # {}
     /\ sched' = [f \in Folder |-> IF f \in ready THEN start_sync(sched[f]) ELSE sched[f]]
     /\ running' = running \cup ready
     /\ broadcast([i \in DOMAIN ids |-> [ev |-> "SyncStarted", folder |-> ids[i]]])
     /\ UNCHANGED <<config, announcing, tasks, daemonOnly, unanswered, counts>>

\* finish_sync under the lock, the event after it: another task may come between.
run_sync(f, ok) ==
  /\ f \in running /\ announcing[f][ok] = 0 /\ running' = running \ {f}
  /\ sched' = [sched EXCEPT ![f] = finish_sync(@)]
  /\ announcing' = [announcing EXCEPT ![f][ok] = 1]
  /\ IF ok THEN UNCHANGED upsets ELSE Upset
  /\ UNCHANGED <<config, tasks, queue, daemonOnly, lagged, unanswered, clicks>>

\* Mutant: a failed run is not announced.
Announce_OkOnly(f, ok) ==
  /\ announcing[f][ok] = 1 /\ announcing' = [announcing EXCEPT ![f][ok] = 0]
  /\ broadcast(IF ok THEN <<[ev |-> "SyncFinished", folder |-> f, ok |-> ok]>> ELSE <<>>)
  /\ UNCHANGED <<config, sched, running, tasks, daemonOnly, unanswered, counts>>

Announce(f, ok) ==
  /\ announcing[f][ok] = 1 /\ announcing' = [announcing EXCEPT ![f][ok] = 0]
  /\ broadcast(<<[ev |-> "SyncFinished", folder |-> f, ok |-> ok]>>)
  /\ UNCHANGED <<config, sched, running, tasks, daemonOnly, unanswered, counts>>

poll(f) ==
  /\ Upset
  /\ sched' = [sched EXCEPT ![f] = request_sync(@)]
  /\ UNCHANGED <<config, running, announcing, tasks, queue, daemonOnly, lagged, unanswered, clicks>>

SignedIn(a) ==
  /\ a \in signing /\ signing' = signing \ {a}
  /\ configured' = configured \cup {a} /\ credentials' = credentials \cup {a}
  /\ broadcast(<<Event("AccountAddCompleted", a)>>)
  /\ UNCHANGED <<folder, used, jobs, listing, daemonOnly, unanswered, counts>>

\* Mutant: a sign-in that fails ends without an event.
SignInFails_Silent(a) ==
  /\ a \in signing /\ signing' = signing \ {a} /\ Upset
  /\ UNCHANGED <<config, jobs, listing, queue, lagged, daemonOnly, unanswered, clicks>>

SignInFails(a) ==
  /\ a \in signing /\ signing' = signing \ {a} /\ Upset
  /\ broadcast(<<Event("AccountAddFailed", a)>>)
  /\ UNCHANGED <<config, jobs, listing, daemonOnly, unanswered, clicks>>

Listed(a) ==
  /\ a \in listing /\ listing' = listing \ {a}
  /\ \/ broadcast(<<Event("SpacesListed", a)>>) /\ UNCHANGED <<unanswered, upsets>>
     \/ /\ Upset /\ broadcast(<<Event("AccountSpaceFailed", a)>>) /\ unanswered' = TRUE
  /\ UNCHANGED <<config, jobs, signing, daemonOnly, clicks>>

\* The poller, which runs for accounts known at the start, takes a folder out of
\* the config whose space is gone.
SpaceGone(f) ==
  /\ Upset /\ folder[f] # None /\ folder[f].account = Known0
  /\ broadcast(<<[ev |-> "SpaceRemoved", account |-> folder[f].account, folder |-> f]>>)
  /\ folder' = [folder EXCEPT ![f] = None]
  /\ UNCHANGED <<configured, used, credentials, jobs, tasks, daemonOnly, unanswered, clicks>>

(****************************************************************************)
(* The GUI: events.                                                         *)
(****************************************************************************)

First(S) == CHOOSE i \in S : \A j \in S : i <= j

find_account(a) == {i \in DOMAIN accounts : accounts[i].id = a}

HoldsFolder(f, i) == {j \in DOMAIN accounts[i].folders : accounts[i].folders[j].id = f}
find_folder(f) == {i \in DOMAIN accounts : HoldsFolder(f, i) # {}}

set_folder_status(f, status) ==
  IF find_folder(f) = {} THEN accounts
  ELSE LET i == First(find_folder(f)) IN
       [accounts EXCEPT ![i].folders[First(HoldsFolder(f, i))].status = status]

\* Vec::retain: the members of s at the positions in keep, in their order. There is
\* one such sequence.
Retained(s, keep) ==
  {[n \in DOMAIN g |-> s[g[n]]] :
     g \in {h \in [1..Cardinality(keep) -> keep] : \A m, n \in DOMAIN h : m < n => h[m] < h[n]}}

\* The daemon hands commands on only while the connection stands; a writer that
\* has not noticed its end yet still takes one.
send(c, sent) ==
  \/ sent /\ link # "down" /\ Len(cmds) < CmdCap /\ cmds' = Append(cmds, c) /\ UNCHANGED lost
  \/ sent /\ link = "down" /\ lost' = TRUE /\ UNCHANGED cmds
  \/ ~sent /\ (link = "down" \/ Len(cmds) = CmdCap) /\ lost' = TRUE /\ UNCHANGED cmds

Command(name, a) == [cmd |-> name, account |-> a]
FolderCommand(name, f) == [cmd |-> name, folder |-> f]

Receives(name) ==
  /\ wire # <<>> /\ Head(wire).ev = name /\ wire' = Tail(wire)
  /\ UNCHANGED <<config, jobs, tasks, link, queue, inbox, lagged, raced, dropped, unanswered, counts>>

OnSyncStarted ==
  /\ Receives("SyncStarted")
  /\ accounts' = set_folder_status(Head(wire).folder, "Syncing")
  /\ UNCHANGED <<view, cmds, lost>>

OnSyncFinished ==
  /\ Receives("SyncFinished")
  /\ accounts' = set_folder_status(Head(wire).folder, IF Head(wire).ok THEN "Idle" ELSE "Error")
  /\ UNCHANGED <<view, cmds, lost>>

\* Whichever attempt failed, a waiting wizard goes back to its first page.
OnAccountAddFailed ==
  /\ Receives("AccountAddFailed")
  /\ view' = IF view.at = "AddAccountWaiting"
             THEN [At("AddAccount", None) EXCEPT !.error = TRUE] ELSE view
  /\ UNCHANGED <<accounts, cmds, lost>>

OnAccountAddCompleted ==
  /\ Receives("AccountAddCompleted")
  /\ accounts' = Append(accounts, [id |-> Head(wire).account, folders |-> <<>>])
  /\ \E sent \in BOOLEAN : send(Command("ListSpaces", Head(wire).account), sent)
  /\ UNCHANGED view

\* The list opens its page whatever page is shown. A new account has the
\* personal space (here: any one) ticked, later only missing spaces are offered.
OnSpacesListed ==
  /\ Receives("SpacesListed")
  /\ LET a == Head(wire).account
         fs == IF find_account(a) = {} THEN <<>> ELSE accounts[First(find_account(a))].folders
     IN IF fs = <<>>
        THEN \E personal \in Space :
               view' = [At("PickSpaces", a) EXCEPT !.offered = Space, !.selected = {personal}]
        ELSE view' = [At("PickSpaces", a) EXCEPT
                        !.offered = Space \ {fs[i].space : i \in DOMAIN fs}]
  /\ UNCHANGED <<accounts, cmds, lost>>

\* Mutant: the reason is logged on every page.
OnAccountSpaceFailed_Logs ==
  /\ Receives("AccountSpaceFailed")
  /\ UNCHANGED <<view, accounts, cmds, lost>>

OnAccountSpaceFailed ==
  /\ Receives("AccountSpaceFailed")
  /\ view' = IF view.at \in {"PickSpaces", "PickRootFolder"} /\ view.account = Head(wire).account
             THEN [view EXCEPT !.error = TRUE] ELSE view
  /\ UNCHANGED <<accounts, cmds, lost>>

OnAccountFolderAdded ==
  /\ Receives("AccountFolderAdded")
  /\ LET e == Head(wire) IN
     /\ accounts' = IF find_account(e.account) = {} THEN accounts
                    ELSE [accounts EXCEPT ![First(find_account(e.account))].folders =
                            Append(@, FolderView(e.folder, e.space, "Idle"))]
     /\ view' = IF view.at = "PickRootFolder" /\ view.account = e.account THEN SyncStatus ELSE view
  /\ UNCHANGED <<cmds, lost>>

OnSpaceRemoved ==
  /\ Receives("SpaceRemoved")
  /\ LET e == Head(wire)
         i == First(find_account(e.account))
     IN IF find_account(e.account) = {} THEN UNCHANGED accounts
        ELSE \E fs \in Retained(accounts[i].folders,
                               DOMAIN accounts[i].folders \ HoldsFolder(e.folder, i)) :
               accounts' = [accounts EXCEPT ![i].folders = fs]
  /\ UNCHANGED <<view, cmds, lost>>

OnAccountSnapshot ==
  /\ Receives("AccountSnapshot") /\ accounts' = Head(wire).accounts
  /\ UNCHANGED <<view, cmds, lost>>

handle_daemon_event ==
  OnSyncStarted \/ OnSyncFinished \/ OnAccountAddFailed \/ OnAccountAddCompleted
  \/ OnSpacesListed \/ OnAccountSpaceFailed \/ OnAccountFolderAdded \/ OnSpaceRemoved
  \/ OnAccountSnapshot

(****************************************************************************)
(* The GUI: what a page lets the user do.                                   *)
(****************************************************************************)

\* A page is the set of presses its controls offer; a control without on_press
\* offers none. Typing, links to the web and the language (GuiLink) are left out.
Link(page) == <<"NavigateTo", page>>
Back == Link(SyncStatus)

sidebar == {Back} \cup {Link(At(name, None)) : name \in {"AddAccount", "GeneralSettings", "About"}}

\* A folder's badge, by the status shown.
folder_row(a, row) ==
  {CASE row.status = "Idle"    -> <<"ForceSyncFolder", row.id>>
     [] row.status = "Syncing" -> <<"PauseFolder", row.id>>
     [] row.status = "Paused"  -> <<"ResumeFolder", row.id>>
     [] row.status = "Error"   -> Link(At("FolderErrors", a))}

account_section(account) ==
  {Link(At("AccountSettings", account.id))}
    \cup UNION {folder_row(account.id, account.folders[j]) : j \in DOMAIN account.folders}

empty_state_view == {Link(At("AddAccount", None))}

sync_status_view ==
  IF accounts = <<>> THEN empty_state_view
  ELSE UNION {account_section(accounts[i]) : i \in DOMAIN accounts}

account_settings_view(a) == {Back, <<"RemoveAccount", a>>, <<"AddSpaceClicked", a>>}
add_account_view         == {Back, <<"AddAccountSubmit">>}
add_account_waiting_view == {Back}
pick_spaces_view(offered, selected) ==
  {Back} \cup {<<"ToggleSpaceSelection", s>> : s \in offered}
         \cup IF selected # {} THEN {<<"PickSpacesNext">>} ELSE {}
pick_root_folder_view(path) ==
  {Back, <<"PickRootFolderBrowse">>} \cup IF path THEN {<<"PickRootFolderSubmit">>} ELSE {}
general_settings_view    == {Back}
folder_errors_view       == {Back}
about_view               == {}

\* The page of an account that is listed no more is empty, its errors give way to
\* the overview.
content ==
  CASE view.at = "SyncStatus"        -> sync_status_view
    [] view.at = "AddAccount"        -> add_account_view
    [] view.at = "AccountSettings"   ->
         IF find_account(view.account) # {} THEN account_settings_view(view.account) ELSE {}
    [] view.at = "AddAccountWaiting" -> add_account_waiting_view
    [] view.at = "PickSpaces"        -> pick_spaces_view(view.offered, view.selected)
    [] view.at = "PickRootFolder"    -> pick_root_folder_view(view.path)
    [] view.at = "GeneralSettings"   -> general_settings_view
    [] view.at = "About"             -> about_view
    [] view.at = "FolderErrors"      ->
         IF find_account(view.account) # {} THEN folder_errors_view ELSE sync_status_view

Pressed(p) ==
  /\ p \in sidebar \cup content
  /\ UNCHANGED <<config, jobs, tasks, link, queue, wire, inbox, lagged, dropped, unanswered, upsets>>

\* Presses that neither send a command nor leave the wizard are not counted.
Click == clicks < MaxClicks /\ clicks' = clicks + 1

\* Bounds: there is an id for every folder and account that is asked for.
Asked(name) == {i \in DOMAIN Pending : Pending[i].cmd = name}
RoomForFolders ==
  Cardinality(used) + (Cardinality(Asked("AddFolders")) + 1) * Cardinality(Space) <= Cardinality(Folder)
RoomForAccount ==
  Cardinality(configured \cup signing \cup credentials)
    + Cardinality(Asked("AddAccount")) < Cardinality(Account)
NoCommand == UNCHANGED <<cmds, lost, raced, accounts, clicks>>

NavigateTo(page) ==
  /\ Pressed(Link(page)) /\ Click /\ page # view /\ view' = page
  /\ UNCHANGED <<cmds, lost, raced, accounts>>

\* An empty URL is refused, as is any while the daemon cannot be told.
AddAccountSubmit ==
  /\ Pressed(<<"AddAccountSubmit">>) /\ Click /\ RoomForAccount
  /\ \/ view' = [view EXCEPT !.error = TRUE] /\ UNCHANGED <<cmds, lost>>
     \/ \E sent \in BOOLEAN :
          /\ send([cmd |-> "AddAccount"], sent)
          /\ view' = IF sent THEN At("AddAccountWaiting", None) ELSE [view EXCEPT !.error = TRUE]
  /\ UNCHANGED <<accounts, raced>>

ToggleSpaceSelection(s) ==
  /\ Pressed(<<"ToggleSpaceSelection", s>>) /\ NoCommand
  /\ view' = [view EXCEPT !.selected = IF s \in @ THEN @ \ {s} ELSE @ \cup {s}]

\* AddAccountSpace for each space, or the page that asks for a directory.
PickSpacesNext ==
  /\ Pressed(<<"PickSpacesNext">>) /\ RoomForFolders
  /\ LET is == find_account(view.account)
         has_folders == is # {} /\ accounts[First(is)].folders # <<>>
     IN IF has_folders
        THEN /\ view' = At("AccountSettings", view.account) /\ Click
             /\ \E sent \in BOOLEAN :
                  send([cmd |-> "AddFolders", account |-> view.account, spaces |-> view.selected], sent)
        ELSE /\ view' = [At("PickRootFolder", view.account) EXCEPT !.selected = view.selected]
             /\ UNCHANGED <<cmds, lost, clicks>>
  /\ UNCHANGED <<accounts, raced>>

PickRootFolderPicked ==
  /\ Pressed(<<"PickRootFolderBrowse">>) /\ NoCommand
  /\ view' = [view EXCEPT !.path = TRUE, !.error = FALSE]

\* SetAccountFolders; the page stays until an answer comes.
PickRootFolderSubmit ==
  /\ Pressed(<<"PickRootFolderSubmit">>) /\ Click /\ RoomForFolders
  /\ \E sent \in BOOLEAN :
       send([cmd |-> "AddFolders", account |-> view.account, spaces |-> view.selected], sent)
  /\ UNCHANGED <<accounts, view, raced>>

AddSpaceClicked ==
  /\ Pressed(<<"AddSpaceClicked", view.account>>) /\ Click
  /\ \E sent \in BOOLEAN : send(Command("ListSpaces", view.account), sent)
  /\ UNCHANGED <<accounts, view, raced>>

\* What the daemon makes of it is shown at once; a forced sync is not.
SendAndShow(p, name, f, after) ==
  /\ Pressed(<<p, f>>) /\ Click
  /\ \E sent \in BOOLEAN : send(FolderCommand(name, f), sent)
  /\ accounts' = IF after = None THEN accounts ELSE set_folder_status(f, after)
  /\ UNCHANGED <<view, raced>>

ForceSyncFolder(f) == SendAndShow("ForceSyncFolder", "TriggerSync", f, None)
PauseClicked(f)    == SendAndShow("PauseFolder", "PauseFolder", f, "Paused")
ResumeClicked(f)   == SendAndShow("ResumeFolder", "ResumeFolder", f, "Idle")

\* Is an event on its way that would bring account a back into the list?
Revives(q, a) ==
  \E i \in DOMAIN q :
    \/ q[i].ev = "AccountAddCompleted" /\ q[i].account = a
    \/ q[i].ev = "AccountSnapshot" /\ \E j \in DOMAIN q[i].accounts : q[i].accounts[j].id = a

\* The list is changed without waiting for the daemon.
RemoveClicked ==
  /\ Pressed(<<"RemoveAccount", view.account>>) /\ Click /\ view' = SyncStatus
  /\ accounts' \in Retained(accounts, DOMAIN accounts \ find_account(view.account))
  /\ \E sent \in BOOLEAN :
       /\ send(Command("RemoveAccount", view.account), sent)
       /\ raced' = (raced \/ ~sent \/ link # "streaming" \/ Revives(queue \o wire, view.account))

User ==
  \/ \E p \in sidebar \cup content : p[1] = "NavigateTo" /\ NavigateTo(p[2])
  \/ AddAccountSubmit \/ PickSpacesNext \/ PickRootFolderPicked
  \/ PickRootFolderSubmit \/ AddSpaceClicked \/ RemoveClicked
  \/ \E s \in Space : ToggleSpaceSelection(s)
  \/ \E f \in Folder : ForceSyncFolder(f) \/ PauseClicked(f) \/ ResumeClicked(f)

Transport == Connect \/ Subscribe \/ snapshot \/ Streams \/ Forward
SyncTask == \E f \in Folder, ok \in BOOLEAN : run_sync(f, ok) \/ Announce(f, ok)
AccountTask == \E a \in Account : SignedIn(a) \/ SignInFails(a) \/ Listed(a)

Next ==
  \/ Transport \/ Drop \/ handle_command \/ scheduler_tick \/ SyncTask \/ AccountTask
  \/ handle_daemon_event \/ User
  \/ \E f \in Folder : poll(f) \/ SpaceGone(f)

Spec == Init /\ [][Next]_vars

\* The GUI reconnects (GuiLink), the loops of daemon and GUI go on, and so do the
\* sync tasks. Sign-ins and listings need not end: the timeout of a sign-in begins
\* after discovery, and no request has one.
Fairness ==
  /\ WF_vars(Transport) /\ WF_vars(handle_command) /\ WF_vars(scheduler_tick)
  /\ WF_vars(SyncTask) /\ WF_vars(handle_daemon_event)

FairSpec == Spec /\ Fairness

(****************************************************************************)
(* Properties.                                                              *)
(****************************************************************************)

Status == {"Idle", "Syncing", "Paused", "Error"}
FolderRow == [id : Folder, space : Space, status : Status]
AccountEntry == [id : Account, folders : Seq(FolderRow)]
View == {"SyncStatus", "AddAccount", "AddAccountWaiting", "AccountSettings", "PickSpaces",
         "PickRootFolder", "GeneralSettings", "FolderErrors", "About"}
Page == [at : View, account : Account \cup {None}, offered : SUBSET Space,
         selected : SUBSET Space, path : BOOLEAN, error : BOOLEAN]

DaemonEvent ==
  [ev : {"AccountSnapshot"}, accounts : Seq(AccountEntry)]
  \cup [ev : {"SyncStarted"}, folder : Folder]
  \cup [ev : {"SyncFinished"}, folder : Folder, ok : BOOLEAN]
  \cup [ev : {"AccountAddFailed", "AccountAddCompleted", "SpacesListed"}, account : Account]
  \cup [ev : {"AccountSpaceFailed"}, account : Account \cup {None}]
  \cup [ev : {"AccountFolderAdded"}, account : Account, folder : Folder, space : Space]
  \cup [ev : {"SpaceRemoved"}, account : Account, folder : Folder]

DaemonCommand ==
  [cmd : {"TriggerSync", "PauseFolder", "ResumeFolder"}, folder : Folder]
  \cup [cmd : {"AddAccount"}]
  \cup [cmd : {"RemoveAccount", "ListSpaces"}, account : Account]
  \cup [cmd : {"AddFolders"}, account : Account \cup {None}, spaces : SUBSET Space]

\* Flags, ids, pages, messages and the GUI's lists keep their types, the queues
\* their capacities.
TypeOK ==
  /\ configured \subseteq Account /\ credentials \subseteq Account
  /\ folder \in [Folder -> {None} \cup [account : Account, space : Space]]
  /\ used \subseteq Folder /\ running \subseteq Folder /\ dropped \subseteq Folder
  /\ sched \in [Folder -> FolderScheduleState \cup {None}]
  /\ announcing \in [Folder -> [BOOLEAN -> {0, 1}]]
  /\ signing \subseteq Account /\ listing \subseteq Account
  /\ link \in {"down", "connected", "subscribed", "snapped", "streaming"}
  /\ queue \in Seq(DaemonEvent) /\ wire \in Seq(DaemonEvent)
  /\ cmds \in Seq(DaemonCommand) /\ inbox \in Seq(DaemonCommand)
  /\ Len(queue) <= BroadcastCap /\ Len(wire) <= WireCap /\ Len(cmds) <= CmdCap
  /\ accounts \in Seq(AccountEntry) /\ view \in Page
  /\ {lagged, raced, lost, unanswered} \subseteq BOOLEAN

\* Everything that was said has been heard.
Settled ==
  /\ link = "streaming" /\ queue = <<>> /\ wire = <<>> /\ cmds = <<>> /\ inbox = <<>>
  /\ signing = {} /\ listing = {}
  /\ announcing = [f \in Folder |-> [ok \in BOOLEAN |-> 0]]

ShownAccounts == {accounts[i].id : i \in DOMAIN accounts}
Rows(i) == {accounts[i].folders[j] : j \in DOMAIN accounts[i].folders}
ShownFolders == UNION {{<<accounts[i].id, r.id, r.space>> : r \in Rows(i)} : i \in DOMAIN accounts}

\* Once all messages are handled, the GUI lists the accounts and folders the
\* daemon has configured: what changes while a client subscribes is in the
\* snapshot or comes as an event. Exceptions, until the next snapshot: the
\* channel overflowed, or a removal crossed something that lists the account.
MirrorComplete ==
  Settled /\ ~lagged /\ ~raced =>
    /\ ShownAccounts = configured
    /\ ShownFolders = {<<folder[f].account, f, folder[f].space>> : f \in {g \in Folder : folder[g] # None}}

\* Once all messages are handled, a folder shown as syncing has a run or a request
\* for one: every start that is announced has an end that is, and in this order.
\* Exception: a forced sync that the scheduler turned down, as the folder is paused.
SyncingIsReal ==
  Settled /\ ~lagged =>
    \A i \in DOMAIN accounts : \A r \in Rows(i) :
      r.status = "Syncing" =>
        sched[r.id].running \/ sched[r.id].pending \/ r.id \in dropped

\* When no request stays open for ever, the page that waits for the browser is
\* left, by success or with an error, unless messages were lost, the attempt ended
\* without an event or the new account's spaces could not be listed.
WaitingEnds ==
  []<>(signing = {}) /\ []<>(listing = {}) =>
    (view.at = "AddAccountWaiting" ~>
       view.at # "AddAccountWaiting" \/ lost \/ lagged \/ unanswered)

\* A submitted choice of directory is answered, by the next page or an error.
SubmitAnswered ==
  \A a \in Account :
    (\E i \in Asked("AddFolders") : Pending[i].account = a)
      /\ view.at = "PickRootFolder" /\ view.account = a
    ~> view.at # "PickRootFolder" \/ view.error \/ lost \/ lagged

=============================================================================
