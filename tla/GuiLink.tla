------------------------------- MODULE GuiLink -------------------------------
(****************************************************************************)
(* How the GUI finds, starts and keeps its daemon: the connect tasks, the   *)
(* daemon processes that compete for the lock file, the receiver slot the   *)
(* event subscription reads, and the tray menu that can ask for a start.    *)
(* What travels over a connection is module Gui's.                          *)
(****************************************************************************)
EXTENDS Integers, Sequences, FiniteSets

CONSTANTS
  None,
  Conn,       \* connections; one that nothing refers to any more is used again
  Attempt,    \* slots for connect tasks
  TrayKinds,  \* of "linux", "macos", "noop" (other platforms), "failed" (no tray)
  MaxDeaths, MaxFaults, MaxClicks, MaxMessages

ASSUME LinkAssumption ==
  /\ None \notin Conn /\ IsFiniteSet(Conn) /\ Attempt # {}
  /\ TrayKinds \subseteq {"linux", "macos", "noop", "failed"}
  /\ {MaxDeaths, MaxFaults, MaxClicks, MaxMessages} \subseteq Nat

VARIABLES
  gui,                \* "running" or "gone"
  window_visible,
  trayKind,           \* what TrayHandle::build came to, once and for all
  daemon,             \* the process with the lock: "none", "starting", "up"
  spawned,            \* processes that have yet to try the lock
  open,               \* connections whose two ends are alive
  attempt,            \* per slot: where spawn_and_connect is
  msgs,               \* messages for update, in order
  daemon_connecting, daemon_running,
  app_daemon,         \* app.daemon, the connection commands are sent to
  event_rx,           \* the receiver slot of the subscription
  swaps,              \* new receivers waiting for the slot's lock
  menu,               \* states on their way to the GTK thread, at most one
  tray,               \* does the menu say that the daemon is running?
  \* history, read by no action
  late,               \* a start was handled while connected
  gaveUp,             \* the last connect task to report had failed
  deaths, faults, clicks

windowState == <<gui, window_visible, trayKind>>
process == <<daemon, spawned, open>>
flags   == <<daemon_connecting, daemon_running, app_daemon>>
slot    == <<event_rx, swaps>>
menus   == <<menu, tray>>
history == <<late, gaveUp>>
counts  == <<deaths, faults, clicks>>
vars == <<windowState, process, attempt, msgs, flags, slot, menus, history, counts>>

Message(kind, c) == [kind |-> kind, conn |-> c]
Post(m) == Len(msgs) < MaxMessages /\ msgs' = Append(msgs, m)

\* Connections that some part of the GUI still holds.
Held == open \cup {app_daemon, event_rx} \cup {swaps[i] : i \in DOMAIN swaps}
             \cup {msgs[i].conn : i \in DOMAIN msgs}

Init ==
  /\ gui = "running" /\ window_visible = TRUE /\ trayKind \in TrayKinds
  /\ daemon = "none" /\ spawned = 0 /\ open = {}
  /\ \E k \in Attempt : attempt = [j \in Attempt |-> IF j = k THEN "probe" ELSE "idle"]
  /\ msgs = <<>>
  /\ daemon_connecting = TRUE /\ daemon_running = FALSE /\ app_daemon = None
  /\ event_rx = None /\ swaps = <<>>
  /\ menu = <<>> /\ tray = FALSE /\ late = FALSE /\ gaveUp = FALSE
  /\ deaths = 0 /\ faults = 0 /\ clicks = 0

(****************************************************************************)
(* spawn_and_connect, one step per await.                                   *)
(****************************************************************************)

Goes(k, stage) == attempt' = [attempt EXCEPT ![k] = stage] /\ UNCHANGED msgs
Resolves(k, m) == attempt' = [attempt EXCEPT ![k] = "idle"] /\ Post(m)

Backoff(k) ==
  /\ attempt[k] = "backoff" /\ Goes(k, "probe")
  /\ UNCHANGED <<windowState, process, flags, slot, menus, history, counts>>

Fault == faults < MaxFaults /\ faults' = faults + 1

\* A daemon that answers is used; otherwise one is spawned, if that works.
ensure_daemon_running(k) ==
  /\ attempt[k] = "probe"
  /\ \/ daemon = "up" /\ Goes(k, "connect") /\ UNCHANGED <<spawned, faults>>
     \/ /\ IF daemon = "up" THEN Fault ELSE UNCHANGED faults
        /\ Goes(k, "wait") /\ spawned' = spawned + 1
     \/ daemon # "up" /\ Fault /\ Resolves(k, Message("failed", None)) /\ UNCHANGED spawned
  /\ UNCHANGED <<windowState, daemon, open, flags, slot, menus, history, deaths, clicks>>

\* Five probes, 200 ms apart. The daemon asks the server of every account for its
\* discovery document before it listens, so that they may all come too early.
wait_for_socket(k) ==
  /\ attempt[k] = "wait"
  /\ \/ daemon = "up" /\ Goes(k, "connect")
     \/ daemon # "up" /\ Resolves(k, Message("failed", None))
  /\ UNCHANGED <<windowState, process, flags, slot, menus, history, counts>>

connect(k) ==
  /\ attempt[k] = "connect"
  /\ \/ \E c \in Conn \ Held :
          /\ daemon = "up" /\ open' = open \cup {c} /\ UNCHANGED faults
          /\ Resolves(k, Message("connected", c))
     \/ /\ IF daemon = "up" THEN Fault ELSE UNCHANGED faults
        /\ Resolves(k, Message("failed", None)) /\ UNCHANGED open
  /\ UNCHANGED <<windowState, daemon, spawned, flags, slot, menus, history, deaths, clicks>>

(****************************************************************************)
(* The daemon's process.                                                    *)
(****************************************************************************)

\* A process that finds the lock taken exits.
acquire ==
  /\ spawned > 0 /\ spawned' = spawned - 1
  /\ daemon' = IF daemon = "none" THEN "starting" ELSE daemon
  /\ UNCHANGED <<windowState, open, attempt, msgs, flags, slot, menus, history, counts>>

Listens ==
  /\ daemon = "starting" /\ daemon' = "up"
  /\ UNCHANGED <<windowState, spawned, open, attempt, msgs, flags, slot, menus, history, counts>>

\* The daemon crashes, fails to start, or is told to quit by someone else.
Dies ==
  /\ daemon # "none" /\ daemon' = "none" /\ open' = {}
  /\ deaths < MaxDeaths /\ deaths' = deaths + 1
  /\ UNCHANGED <<windowState, spawned, attempt, msgs, flags, slot, menus, history, faults, clicks>>

\* The daemon gives up a connection and goes on: a message it cannot read, or one it
\* cannot write.
Cut(c) ==
  /\ c \in open /\ open' = open \ {c} /\ Fault
  /\ UNCHANGED <<windowState, daemon, spawned, attempt, msgs, flags, slot, menus, history, deaths, clicks>>

(****************************************************************************)
(* update: one message at a time.                                           *)
(****************************************************************************)

\* The one-place channel to the GTK thread takes a state only when it is empty;
\* the macOS menu is changed on the spot.
rebuild_menu(running) ==
  CASE trayKind = "linux" -> /\ menu' = IF menu = <<>> THEN <<running>> ELSE menu
                             /\ UNCHANGED tray
    [] trayKind = "macos" -> tray' = running /\ UNCHANGED menu
    [] OTHER -> UNCHANGED menus

Next_message(kind) ==
  /\ gui = "running" /\ msgs # <<>> /\ Head(msgs).kind = kind /\ msgs' = Tail(msgs)

spawn_and_connect(stage) ==
  /\ daemon_connecting' = TRUE
  /\ \E k \in Attempt : attempt[k] = "idle" /\ attempt' = [attempt EXCEPT ![k] = stage]

\* Mutant: the new receiver is dropped.
DaemonConnected_NoSwap ==
  /\ Next_message("connected")
  /\ app_daemon' = Head(msgs).conn /\ open' = open \ ({app_daemon} \ {Head(msgs).conn})
  /\ daemon_connecting' = FALSE /\ daemon_running' = TRUE /\ rebuild_menu(TRUE)
  /\ gaveUp' = FALSE
  /\ UNCHANGED <<windowState, daemon, spawned, attempt, slot, late, counts>>

\* The connection is stored, and its receiver goes to the subscription as soon
\* as the slot's lock is free. The connection stored before loses its last
\* sender: its writer ends, and with it the connection.
DaemonConnected ==
  /\ Next_message("connected")
  /\ LET c == Head(msgs).conn
     IN /\ app_daemon' = c /\ open' = open \ ({app_daemon} \ {c})
        /\ swaps' = Append(swaps, c)
  /\ daemon_connecting' = FALSE /\ daemon_running' = TRUE /\ rebuild_menu(TRUE)
  /\ gaveUp' = FALSE
  /\ UNCHANGED <<windowState, daemon, spawned, attempt, event_rx, late, counts>>

\* Mutant: the in-flight guard is cleared on success only.
ConnectFailed_KeepsGuard ==
  /\ Next_message("failed")
  /\ daemon_running' = FALSE /\ rebuild_menu(FALSE)
  /\ gaveUp' = TRUE
  /\ UNCHANGED <<windowState, process, attempt, daemon_connecting, app_daemon, slot, late, counts>>

ConnectFailed ==
  /\ Next_message("failed")
  /\ daemon_connecting' = FALSE /\ daemon_running' = FALSE /\ rebuild_menu(FALSE)
  /\ gaveUp' = TRUE
  /\ UNCHANGED <<windowState, process, attempt, app_daemon, slot, late, counts>>

\* Mutant: the loss is shown, and the user left to ask for a connection.
DaemonDisconnected_NoRetry ==
  /\ Next_message("disconnected")
  /\ daemon_running' = FALSE /\ rebuild_menu(FALSE)
  /\ UNCHANGED <<windowState, process, attempt, daemon_connecting, app_daemon, slot, history, counts>>

DaemonDisconnected ==
  /\ Next_message("disconnected")
  /\ daemon_running' = FALSE /\ rebuild_menu(FALSE)
  /\ IF daemon_connecting THEN UNCHANGED <<daemon_connecting, attempt>>
     ELSE spawn_and_connect("backoff")
  /\ UNCHANGED <<windowState, process, app_daemon, slot, history, counts>>

StartDaemon ==
  /\ Next_message("start")
  /\ IF daemon_connecting THEN UNCHANGED <<daemon_connecting, attempt>>
     ELSE spawn_and_connect("probe")
  /\ late' = (late \/ daemon_running)
  /\ UNCHANGED <<windowState, process, daemon_running, app_daemon, slot, menus, gaveUp, counts>>

(****************************************************************************)
(* The subscription's loop, which holds the slot's lock while it waits.     *)
(****************************************************************************)

Disconnected ==
  /\ gui = "running" /\ event_rx # None /\ event_rx \notin open
  /\ Post(Message("disconnected", None)) /\ event_rx' = None
  /\ UNCHANGED <<windowState, process, attempt, flags, swaps, menus, history, counts>>

\* The lock is free while the slot is empty and between two messages, so a last
\* buffered event of the old connection lets the new receiver in as well.
Swap ==
  /\ gui = "running" /\ swaps # <<>>
  /\ event_rx' = Head(swaps) /\ swaps' = Tail(swaps)
  /\ UNCHANGED <<windowState, process, attempt, msgs, flags, menus, history, counts>>

(****************************************************************************)
(* Tray and window.                                                         *)
(****************************************************************************)

HasMenu == trayKind \in {"linux", "macos"}

ApplyMenu ==
  /\ gui = "running" /\ menu # <<>> /\ tray' = Head(menu) /\ menu' = <<>>
  /\ UNCHANGED <<windowState, process, attempt, msgs, flags, slot, history, counts>>

LanguageChanged ==
  /\ gui = "running" /\ window_visible /\ clicks < MaxClicks /\ clicks' = clicks + 1
  /\ rebuild_menu(daemon_running)
  /\ UNCHANGED <<windowState, process, attempt, msgs, flags, slot, history, deaths, faults>>

\* The status item is enabled only while it says that the daemon is stopped. The
\* click reaches update through a channel that is polled.
ClickStart ==
  /\ gui = "running" /\ HasMenu /\ ~tray /\ clicks < MaxClicks /\ clicks' = clicks + 1
  /\ Post(Message("start", None))
  /\ UNCHANGED <<windowState, process, attempt, flags, slot, menus, history, deaths, faults>>

\* The tray's Open item; its About item shows the window in any case.
ToggleWindow ==
  /\ gui = "running" /\ HasMenu /\ window_visible' = ~window_visible
  /\ UNCHANGED <<gui, trayKind, process, attempt, msgs, flags, slot, menus, history, counts>>

ShowAbout ==
  /\ gui = "running" /\ HasMenu /\ window_visible' = TRUE
  /\ UNCHANGED <<gui, trayKind, process, attempt, msgs, flags, slot, menus, history, counts>>

\* The GUI's process ends: its tasks and its ends of the connections are gone.
Exits ==
  /\ gui' = "gone" /\ open' = {} /\ msgs' = <<>> /\ swaps' = <<>> /\ menu' = <<>>
  /\ attempt' = [k \in Attempt |-> "idle"] /\ daemon_connecting' = FALSE
  /\ UNCHANGED <<window_visible, trayKind, spawned, daemon_running, app_daemon, event_rx, tray, history,
                 counts>>

\* build returns a handle on every platform; only a tray that could not be built
\* leaves none.
WindowCloseRequested ==
  /\ gui = "running" /\ window_visible
  /\ IF trayKind # "failed"
     THEN /\ window_visible' = FALSE
          /\ UNCHANGED <<gui, trayKind, process, attempt, msgs, flags, slot, menus, history, counts>>
     ELSE Exits /\ UNCHANGED daemon

\* Quit is handed to the writer task, which the end of the process may forestall.
Quit ==
  /\ gui = "running" /\ HasMenu /\ Exits
  /\ daemon' \in {daemon} \cup IF app_daemon \in open THEN {"none"} ELSE {}

Connecting(k) == Backoff(k) \/ ensure_daemon_running(k) \/ wait_for_socket(k) \/ connect(k)
Process == acquire \/ Listens \/ Dies \/ \E c \in Conn : Cut(c)
Update == DaemonConnected \/ ConnectFailed \/ DaemonDisconnected \/ StartDaemon
Subscription == Disconnected \/ Swap
Desktop == ApplyMenu \/ LanguageChanged \/ ClickStart \/ ToggleWindow \/ ShowAbout
           \/ WindowCloseRequested \/ Quit

Next == (\E k \in Attempt : Connecting(k)) \/ Process \/ Update \/ Subscription \/ Desktop

Spec == Init /\ [][Next]_vars

\* Tasks and timers run on, a process that has started goes on, and iced hands
\* every message to update.
Fairness ==
  /\ \A k \in Attempt : WF_vars(Connecting(k))
  /\ WF_vars(acquire) /\ WF_vars(Listens)
  /\ WF_vars(Update) /\ WF_vars(Disconnected) /\ WF_vars(Swap) /\ WF_vars(ApplyMenu)

FairSpec == Spec /\ Fairness

(****************************************************************************)
(* Properties.                                                              *)
(****************************************************************************)

Stage == {"idle", "backoff", "probe", "wait", "connect"}
Kind  == {"connected", "failed", "disconnected", "start"}

\* Flags, queues and slots keep their types.
TypeOK ==
  /\ gui \in {"running", "gone"} /\ window_visible \in BOOLEAN /\ trayKind \in TrayKinds
  /\ daemon \in {"none", "starting", "up"} /\ spawned \in Nat /\ open \subseteq Conn
  /\ attempt \in [Attempt -> Stage]
  /\ msgs \in Seq([kind : Kind, conn : Conn \cup {None}])
  /\ daemon_connecting \in BOOLEAN /\ daemon_running \in BOOLEAN
  /\ app_daemon \in Conn \cup {None} /\ event_rx \in Conn \cup {None}
  /\ swaps \in Seq(Conn)
  /\ menu \in {<<>>, <<FALSE>>, <<TRUE>>} /\ tray \in BOOLEAN /\ late \in BOOLEAN /\ gaveUp \in BOOLEAN
  /\ deaths \in 0..MaxDeaths /\ faults \in 0..MaxFaults /\ clicks \in 0..MaxClicks

InFlight == {k \in Attempt : attempt[k] # "idle"}
Results  == {i \in DOMAIN msgs : msgs[i].kind \in {"connected", "failed"}}

\* daemon_connecting is set exactly while one connect task is under way or its
\* result waits for update, and there is never a second one: a flag left behind
\* would end reconnection for good, a flag cleared early would start two.
GuardIsExact ==
  /\ daemon_connecting <=> InFlight # {} \/ Results # {}
  /\ \A j, k \in InFlight : j = k
  /\ \A i, j \in Results : i = j
  /\ InFlight = {} \/ Results = {}

\* Once update has caught up, the GUI that says it is running listens to the
\* connection it sends its commands to: neither the swap of the receiver nor a
\* late disconnect of an older connection leaves it deaf.
HearsWhomItTells ==
  gui = "running" /\ msgs = <<>> /\ swaps = <<>> /\ daemon_running => event_rx = app_daemon

Connected == daemon_running /\ event_rx \in open /\ app_daemon = event_rx

\* A GUI that is left running settles: on one connection to a daemon that stays up,
\* or, if its last attempt came to nothing, on saying that there is no daemon. A
\* connection that is lost is always tried again. Exception: a start request handled
\* while connected.
Settles ==
  <>[](daemon = "up" /\ gui = "running" /\ ~late) =>
    <>[]Connected \/ <>[](gaveUp /\ ~daemon_running)

=============================================================================
