---------------------------- MODULE GuiLinkProofs ----------------------------
(****************************************************************************)
(* The GUI's link to its daemon, for any number of connections, connect     *)
(* tasks, deaths, cuts, clicks and messages: the in-flight guard is exact   *)
(* and the GUI listens to the connection it sends to.                       *)
(****************************************************************************)
EXTENDS GuiLink, TLAPS, SequenceTheorems

Envelope == [kind : Kind, conn : Conn \cup {None}]

\* The types the argument needs.
LinkTypes ==
  /\ attempt \in [Attempt -> Stage]
  /\ msgs \in Seq(Envelope) /\ swaps \in Seq(Conn \cup {None})
  /\ daemon_connecting \in BOOLEAN /\ daemon_running \in BOOLEAN
  /\ gui = "gone" => msgs = <<>> /\ attempt = [k \in Attempt |-> "idle"]

\* Taking the first message moves the others up.
LEMMA Popped ==
  ASSUME msgs \in Seq(Envelope), msgs # <<>>, msgs' = Tail(msgs)
  PROVE  /\ msgs' \in Seq(Envelope)
         /\ 1 \in DOMAIN msgs /\ Head(msgs) = msgs[1] /\ Head(msgs) \in Envelope
         /\ \A i \in DOMAIN msgs' : i + 1 \in DOMAIN msgs /\ msgs'[i] = msgs[i + 1] /\ i \in Nat
         /\ \A i \in DOMAIN msgs : i # 1 => i - 1 \in DOMAIN msgs' /\ msgs'[i - 1] = msgs[i]
OBVIOUS

\* Posting a message leaves the others where they are.
LEMMA Pushed ==
  ASSUME msgs \in Seq(Envelope), NEW m \in Envelope, Post(m)
  PROVE  /\ msgs' \in Seq(Envelope)
         /\ Len(msgs) + 1 \in DOMAIN msgs' /\ Len(msgs) + 1 \notin DOMAIN msgs /\ msgs'[Len(msgs) + 1] = m
         /\ DOMAIN msgs' = DOMAIN msgs \cup {Len(msgs) + 1}
         /\ \A i \in DOMAIN msgs : msgs'[i] = msgs[i]
BY DEF Post

\* What update, the tasks and the tray post are messages.
LEMMA Messages ==
  ASSUME NEW kind \in Kind, NEW c \in Conn \cup {None}
  PROVE  Message(kind, c) \in Envelope /\ Message(kind, c).kind = kind /\ Message(kind, c).conn = c
BY DEF Message, Envelope

(****************************************************************************)
(* The in-flight guard.                                                     *)
(****************************************************************************)

\* A step that touches neither tasks, messages nor flag keeps the guard exact.
LEMMA GuardFrame ==
  ASSUME GuardIsExact, UNCHANGED <<attempt, msgs, daemon_connecting>>
  PROVE  GuardIsExact'
BY DEF GuardIsExact, InFlight, Results

\* A task that goes on from one await to the next is the same task.
LEMMA GuardGoes ==
  ASSUME LinkTypes, GuardIsExact, NEW k \in Attempt, attempt[k] # "idle",
         NEW stage \in Stage \ {"idle"}, Goes(k, stage), UNCHANGED daemon_connecting
  PROVE  GuardIsExact'
<1>1. InFlight' = InFlight /\ Results' = Results
  BY DEF Goes, InFlight, Results, LinkTypes
<1> QED
  BY <1>1 DEF GuardIsExact

\* A task that ends leaves its result, and only that, behind.
LEMMA GuardResolves ==
  ASSUME LinkTypes, GuardIsExact, NEW k \in Attempt, attempt[k] # "idle",
         NEW m \in Envelope, m.kind \in {"connected", "failed"}, Resolves(k, m), UNCHANGED daemon_connecting
  PROVE  GuardIsExact'
<1>1. InFlight = {k} /\ Results = {}
  BY DEF GuardIsExact, InFlight
<1>2. InFlight' = {}
  BY <1>1 DEF Resolves, InFlight, LinkTypes
<1>3. Results' = {Len(msgs) + 1}
  BY <1>1, Pushed DEF Resolves, Results, LinkTypes
<1> QED
  BY <1>1, <1>2, <1>3 DEF GuardIsExact

\* A click or a disconnect is no result.
LEMMA GuardPost ==
  ASSUME LinkTypes, GuardIsExact, NEW m \in Envelope, m.kind \in {"disconnected", "start"}, Post(m),
         UNCHANGED <<attempt, daemon_connecting>>
  PROVE  GuardIsExact'
<1>1. Results' = Results
  BY Pushed DEF Results, LinkTypes
<1>2. InFlight' = InFlight
  BY DEF InFlight
<1> QED
  BY <1>1, <1>2 DEF GuardIsExact

\* update takes the one result there is, and clears the flag.
LEMMA GuardTakes ==
  ASSUME LinkTypes, GuardIsExact, NEW kind \in {"connected", "failed"}, Next_message(kind),
         daemon_connecting' = FALSE, UNCHANGED attempt
  PROVE  GuardIsExact'
<1>1. 1 \in Results
  BY Popped DEF Next_message, Results, LinkTypes
<1>2. Results = {1} /\ InFlight = {}
  BY <1>1 DEF GuardIsExact
<1>3. Results' = {}
  <2> SUFFICES ASSUME NEW i \in Results' PROVE FALSE
    OBVIOUS
  <2>1. i + 1 \in Results /\ i \in Nat /\ i + 1 # 1
    BY Popped DEF Next_message, Results, LinkTypes
  <2> QED
    BY <1>2, <2>1
<1>4. InFlight' = {}
  BY <1>2 DEF InFlight
<1> QED
  BY <1>3, <1>4 DEF GuardIsExact

\* A disconnect or a click starts a task only when there is none and no result.
LEMMA GuardStarts ==
  ASSUME LinkTypes, GuardIsExact, NEW kind \in {"disconnected", "start"}, Next_message(kind),
         NEW stage \in Stage \ {"idle"},
         IF daemon_connecting THEN UNCHANGED <<daemon_connecting, attempt>> ELSE spawn_and_connect(stage)
  PROVE  GuardIsExact'
<1>1. 1 \notin Results
  BY Popped DEF Next_message, Results, LinkTypes
<1>2. \A i \in Results' : i + 1 \in Results /\ i \in Nat
  BY Popped DEF Next_message, Results, LinkTypes
<1>3. \A i \in Results : i \in Nat /\ i - 1 \in Results'
  BY <1>1, Popped DEF Next_message, Results, LinkTypes
<1>4. /\ Results' = {} <=> Results = {}
      /\ \A i, j \in Results' : i = j
  BY <1>2, <1>3 DEF GuardIsExact
<1>5. CASE daemon_connecting
  <2>1. InFlight' = InFlight /\ daemon_connecting' = daemon_connecting
    BY <1>5 DEF InFlight
  <2> QED
    BY <1>4, <2>1 DEF GuardIsExact
<1>6. CASE ~daemon_connecting
  <2>1. InFlight = {} /\ Results = {}
    BY <1>6 DEF GuardIsExact
  <2>2. PICK k \in Attempt : attempt' = [attempt EXCEPT ![k] = stage]
    BY <1>6 DEF spawn_and_connect
  <2>3. InFlight' = {k} /\ daemon_connecting' = TRUE
    BY <1>6, <2>1, <2>2 DEF InFlight, LinkTypes, spawn_and_connect
  <2> QED
    BY <1>4, <2>1, <2>3 DEF GuardIsExact
<1> QED
  BY <1>5, <1>6 DEF LinkTypes

\* Every step keeps the guard exact.
LEMMA GuardStep ==
  ASSUME LinkTypes, GuardIsExact, [Next]_vars
  PROVE  GuardIsExact'
<1> DEFINE Goal == GuardIsExact'
<1> SUFFICES Goal
  OBVIOUS
<1>x. ASSUME Exits PROVE Goal
  BY <1>x DEF Exits, GuardIsExact, InFlight, Results
<1> HIDE DEF Goal
<1>1. ASSUME NEW k \in Attempt, Backoff(k) PROVE Goal
  BY <1>1, GuardGoes DEF Backoff, flags, Stage, Goal
<1>2. ASSUME NEW k \in Attempt, ensure_daemon_running(k) PROVE Goal
  <2>1. attempt[k] # "idle" /\ UNCHANGED daemon_connecting
    BY <1>2 DEF ensure_daemon_running, flags
  <2>2. \/ \E stage \in {"connect", "wait"} : Goes(k, stage)
        \/ Resolves(k, Message("failed", None))
    BY <1>2 DEF ensure_daemon_running
  <2> QED
    BY <2>1, <2>2, Messages, GuardGoes, GuardResolves DEF Kind, Stage, Goal
<1>3. ASSUME NEW k \in Attempt, wait_for_socket(k) PROVE Goal
  <2>1. attempt[k] # "idle" /\ UNCHANGED daemon_connecting
    BY <1>3 DEF wait_for_socket, flags
  <2>2. \/ \E stage \in {"connect"} : Goes(k, stage)
        \/ Resolves(k, Message("failed", None))
    BY <1>3 DEF wait_for_socket
  <2> QED
    BY <2>1, <2>2, Messages, GuardGoes, GuardResolves DEF Kind, Stage, Goal
<1>4. ASSUME NEW k \in Attempt, connect(k) PROVE Goal
  <2>1. attempt[k] # "idle" /\ UNCHANGED daemon_connecting
    BY <1>4 DEF connect, flags
  <2>2. \E kind \in {"connected", "failed"}, c \in Conn \cup {None} : Resolves(k, Message(kind, c))
    BY <1>4 DEF connect
  <2> QED
    BY <2>1, <2>2, Messages, GuardResolves DEF Kind, Goal
<1>5. ASSUME acquire PROVE Goal
  BY <1>5, GuardFrame DEF acquire, flags, Goal
<1>6. ASSUME Listens PROVE Goal
  BY <1>6, GuardFrame DEF Listens, flags, Goal
<1>7. ASSUME Dies PROVE Goal
  BY <1>7, GuardFrame DEF Dies, flags, Goal
<1>8. ASSUME DaemonConnected PROVE Goal
  BY <1>8, GuardTakes, ZenonT(60) DEF DaemonConnected, Goal
<1>9. ASSUME ConnectFailed PROVE Goal
  BY <1>9, GuardTakes, ZenonT(60) DEF ConnectFailed, Goal
<1>10. ASSUME DaemonDisconnected PROVE Goal
  BY <1>10, GuardStarts DEF DaemonDisconnected, Stage, Goal
<1>11. ASSUME StartDaemon PROVE Goal
  BY <1>11, GuardStarts DEF StartDaemon, Stage, Goal
<1>12. ASSUME Disconnected PROVE Goal
  <2>1. Message("disconnected", None) \in Envelope /\ Message("disconnected", None).kind = "disconnected"
    BY Messages DEF Kind
  <2> QED
    BY <1>12, <2>1, GuardPost DEF Disconnected, flags, Goal
<1>13. ASSUME Swap PROVE Goal
  BY <1>13, GuardFrame DEF Swap, flags, Goal
<1>14. ASSUME ApplyMenu PROVE Goal
  BY <1>14, GuardFrame DEF ApplyMenu, flags, Goal
<1>15. ASSUME LanguageChanged PROVE Goal
  BY <1>15, GuardFrame DEF LanguageChanged, flags, Goal
<1>16. ASSUME ClickStart PROVE Goal
  <2>1. Message("start", None) \in Envelope /\ Message("start", None).kind = "start"
    BY Messages DEF Kind
  <2> QED
    BY <1>16, <2>1, GuardPost DEF ClickStart, flags, Goal
<1>17. ASSUME ToggleWindow PROVE Goal
  BY <1>17, GuardFrame DEF ToggleWindow, flags, Goal
<1>18. ASSUME ShowAbout PROVE Goal
  BY <1>18, GuardFrame DEF ShowAbout, flags, Goal
<1>19. ASSUME WindowCloseRequested PROVE Goal
  BY <1>19, <1>x, GuardFrame DEF WindowCloseRequested, flags, Goal
<1>20. ASSUME Quit PROVE Goal
  BY <1>20, <1>x DEF Quit
<1>21. ASSUME UNCHANGED vars PROVE Goal
  BY <1>21, GuardFrame DEF vars, flags, Goal
<1>22. ASSUME NEW c \in Conn, Cut(c) PROVE Goal
  BY <1>22, GuardFrame DEF Cut, flags, Goal
<1> QED
  BY <1>1, <1>2, <1>3, <1>4, <1>5, <1>6, <1>7, <1>8, <1>9, <1>10, <1>11, <1>12, <1>13, <1>14,
     <1>15, <1>16, <1>17, <1>18, <1>19, <1>20, <1>21, <1>22 DEF Next, Connecting, Process, Update, Subscription, Desktop

\* Every step keeps the types.
LEMMA TypesStep ==
  ASSUME LinkTypes, [Next]_vars
  PROVE  LinkTypes'
<1> DEFINE Goal == LinkTypes'
<1> SUFFICES Goal
  OBVIOUS
<1>x. ASSUME Exits PROVE Goal
  <2>1. attempt' \in [Attempt -> Stage]
    BY <1>x DEF Exits, Stage
  <2>2. msgs' \in Seq(Envelope) /\ swaps' \in Seq(Conn \cup {None})
    BY <1>x DEF Exits
  <2> QED
    BY <1>x, <2>1, <2>2, ZenonT(60) DEF Exits, LinkTypes
<1> HIDE DEF Goal
<1>1. ASSUME NEW k \in Attempt, Backoff(k) PROVE Goal
  BY <1>1 DEF Backoff, Goes, Stage, windowState, flags, slot, LinkTypes, Goal
<1>2. ASSUME NEW k \in Attempt, ensure_daemon_running(k) PROVE Goal
  <2>1. attempt' \in [Attempt -> Stage]
    BY <1>2 DEF ensure_daemon_running, Goes, Resolves, Stage, LinkTypes
  <2>2. msgs' = msgs \/ \E kind \in Kind, c \in Conn \cup {None} : Post(Message(kind, c))
    BY <1>2 DEF ensure_daemon_running, Goes, Resolves, Kind
  <2>3. msgs' \in Seq(Envelope)
    BY <2>2, Messages, Pushed DEF LinkTypes
  <2>4. gui' = gui /\ gui # "gone" /\ UNCHANGED <<swaps, daemon_connecting, daemon_running>>
    BY <1>2 DEF ensure_daemon_running, windowState, flags, slot, LinkTypes
  <2> QED
    BY <2>1, <2>3, <2>4 DEF LinkTypes, Goal
<1>3. ASSUME NEW k \in Attempt, wait_for_socket(k) PROVE Goal
  <2>1. attempt' \in [Attempt -> Stage]
    BY <1>3 DEF wait_for_socket, Goes, Resolves, Stage, LinkTypes
  <2>2. msgs' = msgs \/ \E kind \in Kind, c \in Conn \cup {None} : Post(Message(kind, c))
    BY <1>3 DEF wait_for_socket, Goes, Resolves, Kind
  <2>3. msgs' \in Seq(Envelope)
    BY <2>2, Messages, Pushed DEF LinkTypes
  <2>4. gui' = gui /\ gui # "gone" /\ UNCHANGED <<swaps, daemon_connecting, daemon_running>>
    BY <1>3 DEF wait_for_socket, windowState, flags, slot, LinkTypes
  <2> QED
    BY <2>1, <2>3, <2>4 DEF LinkTypes, Goal
<1>4. ASSUME NEW k \in Attempt, connect(k) PROVE Goal
  <2>1. attempt' \in [Attempt -> Stage]
    BY <1>4 DEF connect, Goes, Resolves, Stage, LinkTypes
  <2>2. msgs' = msgs \/ \E kind \in Kind, c \in Conn \cup {None} : Post(Message(kind, c))
    BY <1>4 DEF connect, Goes, Resolves, Kind
  <2>3. msgs' \in Seq(Envelope)
    BY <2>2, Messages, Pushed DEF LinkTypes
  <2>4. gui' = gui /\ gui # "gone" /\ UNCHANGED <<swaps, daemon_connecting, daemon_running>>
    BY <1>4 DEF connect, windowState, flags, slot, LinkTypes
  <2> QED
    BY <2>1, <2>3, <2>4 DEF LinkTypes, Goal
<1>5. ASSUME acquire PROVE Goal
  BY <1>5 DEF acquire, windowState, flags, slot, LinkTypes, Goal
<1>6. ASSUME Listens PROVE Goal
  BY <1>6 DEF Listens, windowState, flags, slot, LinkTypes, Goal
<1>7. ASSUME Dies PROVE Goal
  BY <1>7 DEF Dies, windowState, flags, slot, LinkTypes, Goal
<1>8. ASSUME DaemonConnected PROVE Goal
  <2>1. msgs' \in Seq(Envelope) /\ Head(msgs) \in Envelope
    BY <1>8, Popped DEF DaemonConnected, Next_message, LinkTypes
  <2>2. swaps' \in Seq(Conn \cup {None})
    BY <1>8, <2>1 DEF DaemonConnected, Envelope, LinkTypes
  <2>3. attempt' = attempt
    BY <1>8 DEF DaemonConnected
  <2>4. daemon_connecting' \in BOOLEAN /\ daemon_running' \in BOOLEAN /\ gui' # "gone"
    BY <1>8, ZenonT(60) DEF DaemonConnected, Next_message, spawn_and_connect, windowState, LinkTypes
  <2> QED
    BY <2>1, <2>2, <2>3, <2>4 DEF LinkTypes, Goal
<1>9. ASSUME ConnectFailed PROVE Goal
  <2>1. msgs' \in Seq(Envelope) /\ Head(msgs) \in Envelope
    BY <1>9, Popped DEF ConnectFailed, Next_message, LinkTypes
  <2>2. swaps' = swaps
    BY <1>9 DEF ConnectFailed, slot
  <2>3. attempt' = attempt
    BY <1>9 DEF ConnectFailed
  <2>4. daemon_connecting' \in BOOLEAN /\ daemon_running' \in BOOLEAN /\ gui' # "gone"
    BY <1>9, ZenonT(60) DEF ConnectFailed, Next_message, spawn_and_connect, windowState, LinkTypes
  <2> QED
    BY <2>1, <2>2, <2>3, <2>4 DEF LinkTypes, Goal
<1>10. ASSUME DaemonDisconnected PROVE Goal
  <2>1. msgs' \in Seq(Envelope) /\ Head(msgs) \in Envelope
    BY <1>10, Popped DEF DaemonDisconnected, Next_message, LinkTypes
  <2>2. swaps' = swaps
    BY <1>10 DEF DaemonDisconnected, slot
  <2>3. attempt' \in [Attempt -> Stage]
    BY <1>10 DEF DaemonDisconnected, spawn_and_connect, Stage, LinkTypes
  <2>4. daemon_connecting' \in BOOLEAN /\ daemon_running' \in BOOLEAN /\ gui' # "gone"
    BY <1>10, ZenonT(60) DEF DaemonDisconnected, Next_message, spawn_and_connect, windowState, LinkTypes
  <2> QED
    BY <2>1, <2>2, <2>3, <2>4 DEF LinkTypes, Goal
<1>11. ASSUME StartDaemon PROVE Goal
  <2>1. msgs' \in Seq(Envelope) /\ Head(msgs) \in Envelope
    BY <1>11, Popped DEF StartDaemon, Next_message, LinkTypes
  <2>2. swaps' = swaps
    BY <1>11 DEF StartDaemon, slot
  <2>3. attempt' \in [Attempt -> Stage]
    BY <1>11 DEF StartDaemon, spawn_and_connect, Stage, LinkTypes
  <2>4. daemon_connecting' \in BOOLEAN /\ daemon_running' \in BOOLEAN /\ gui' # "gone"
    BY <1>11, ZenonT(60) DEF StartDaemon, Next_message, spawn_and_connect, windowState, LinkTypes
  <2> QED
    BY <2>1, <2>2, <2>3, <2>4 DEF LinkTypes, Goal
<1>12. ASSUME Disconnected PROVE Goal
  <2>1. Message("disconnected", None) \in Envelope
    BY Messages DEF Kind
  <2>2. msgs' \in Seq(Envelope)
    BY <1>12, <2>1, Pushed DEF Disconnected, LinkTypes
  <2> QED
    BY <1>12, <2>2 DEF Disconnected, windowState, flags, LinkTypes, Goal
<1>13. ASSUME Swap PROVE Goal
  BY <1>13 DEF Swap, windowState, flags, LinkTypes, Goal
<1>14. ASSUME ApplyMenu PROVE Goal
  BY <1>14 DEF ApplyMenu, windowState, flags, slot, LinkTypes, Goal
<1>15. ASSUME LanguageChanged PROVE Goal
  BY <1>15 DEF LanguageChanged, windowState, flags, slot, LinkTypes, Goal
<1>16. ASSUME ClickStart PROVE Goal
  <2>1. Message("start", None) \in Envelope
    BY Messages DEF Kind
  <2>2. msgs' \in Seq(Envelope)
    BY <1>16, <2>1, Pushed DEF ClickStart, LinkTypes
  <2> QED
    BY <1>16, <2>2 DEF ClickStart, windowState, flags, slot, LinkTypes, Goal
<1>17. ASSUME ToggleWindow PROVE Goal
  BY <1>17 DEF ToggleWindow, flags, slot, LinkTypes, Goal
<1>18. ASSUME ShowAbout PROVE Goal
  BY <1>18 DEF ShowAbout, flags, slot, LinkTypes, Goal
<1>19. ASSUME WindowCloseRequested PROVE Goal
  BY <1>19, <1>x DEF WindowCloseRequested, flags, slot, LinkTypes, Goal
<1>20. ASSUME Quit PROVE Goal
  BY <1>20, <1>x DEF Quit
<1>21. ASSUME UNCHANGED vars PROVE Goal
  BY <1>21 DEF vars, windowState, flags, slot, LinkTypes, Goal
<1>22. ASSUME NEW c \in Conn, Cut(c) PROVE Goal
  BY <1>22 DEF Cut, windowState, flags, slot, LinkTypes, Goal
<1> QED
  BY <1>1, <1>2, <1>3, <1>4, <1>5, <1>6, <1>7, <1>8, <1>9, <1>10, <1>11, <1>12, <1>13, <1>14,
     <1>15, <1>16, <1>17, <1>18, <1>19, <1>20, <1>21, <1>22 DEF Next, Connecting, Process, Update, Subscription, Desktop

(****************************************************************************)
(* Whom the GUI hears.                                                      *)
(****************************************************************************)

\* HearsWhomItTells, strengthened by what is still on its way: the last receiver
\* that waits for the slot is the connection's, and where none waits the slot
\* has it or the news of its end is under way to update.
Hearing ==
  gui = "running" /\ daemon_running =>
    /\ swaps # <<>> => swaps[Len(swaps)] = app_daemon
    /\ swaps = <<>> => \/ event_rx = app_daemon
                       \/ \E i \in DOMAIN msgs : msgs[i].kind = "disconnected"

\* A step that takes no message and leaves slot, flags and window alone.
LEMMA HearingPost ==
  ASSUME LinkTypes, Hearing, UNCHANGED <<gui, daemon_running, app_daemon, event_rx, swaps>>,
         msgs' = msgs \/ \E m \in Envelope : Post(m)
  PROVE  Hearing'
<1>1. \A i \in DOMAIN msgs : i \in DOMAIN msgs' /\ msgs'[i] = msgs[i]
  BY Pushed DEF LinkTypes
<1> QED
  BY <1>1 DEF Hearing

\* Every step keeps the strengthening.
LEMMA HearingStep ==
  ASSUME LinkTypes, Hearing, [Next]_vars
  PROVE  Hearing'
<1> DEFINE Goal == Hearing'
<1> SUFFICES Goal
  OBVIOUS
<1>x. ASSUME Exits PROVE Goal
  BY <1>x DEF Exits, Hearing
<1> HIDE DEF Goal
<1>1. ASSUME NEW k \in Attempt, Backoff(k) PROVE Goal
  BY <1>1, HearingPost DEF Backoff, Goes, windowState, flags, slot, Goal
<1>2. ASSUME NEW k \in Attempt, ensure_daemon_running(k) PROVE Goal
  <2>1. UNCHANGED <<gui, daemon_running, app_daemon, event_rx, swaps>>
    BY <1>2 DEF ensure_daemon_running, windowState, flags, slot
  <2>2. msgs' = msgs \/ \E kind \in Kind, c \in Conn \cup {None} : Post(Message(kind, c))
    BY <1>2 DEF ensure_daemon_running, Goes, Resolves, Kind
  <2>3. msgs' = msgs \/ \E m \in Envelope : Post(m)
    BY <2>2, Messages
  <2> QED
    BY <2>1, <2>3, HearingPost DEF Goal
<1>3. ASSUME NEW k \in Attempt, wait_for_socket(k) PROVE Goal
  <2>1. UNCHANGED <<gui, daemon_running, app_daemon, event_rx, swaps>>
    BY <1>3 DEF wait_for_socket, windowState, flags, slot
  <2>2. msgs' = msgs \/ \E kind \in Kind, c \in Conn \cup {None} : Post(Message(kind, c))
    BY <1>3 DEF wait_for_socket, Goes, Resolves, Kind
  <2>3. msgs' = msgs \/ \E m \in Envelope : Post(m)
    BY <2>2, Messages
  <2> QED
    BY <2>1, <2>3, HearingPost DEF Goal
<1>4. ASSUME NEW k \in Attempt, connect(k) PROVE Goal
  <2>1. UNCHANGED <<gui, daemon_running, app_daemon, event_rx, swaps>>
    BY <1>4 DEF connect, windowState, flags, slot
  <2>2. msgs' = msgs \/ \E kind \in Kind, c \in Conn \cup {None} : Post(Message(kind, c))
    BY <1>4 DEF connect, Goes, Resolves, Kind
  <2>3. msgs' = msgs \/ \E m \in Envelope : Post(m)
    BY <2>2, Messages
  <2> QED
    BY <2>1, <2>3, HearingPost DEF Goal
<1>5. ASSUME acquire PROVE Goal
  BY <1>5, HearingPost DEF acquire, windowState, flags, slot, Goal
<1>6. ASSUME Listens PROVE Goal
  BY <1>6, HearingPost DEF Listens, windowState, flags, slot, Goal
<1>7. ASSUME Dies PROVE Goal
  BY <1>7, HearingPost DEF Dies, windowState, flags, slot, Goal
<1>8. ASSUME DaemonConnected PROVE Goal
  <2>1. Head(msgs).conn \in Conn \cup {None}
    BY <1>8, Popped DEF DaemonConnected, Next_message, LinkTypes, Envelope
  <2>2. app_daemon' = Head(msgs).conn /\ swaps' = Append(swaps, Head(msgs).conn)
    BY <1>8 DEF DaemonConnected
  <2>3. swaps' # <<>> /\ swaps'[Len(swaps')] = app_daemon'
    BY <2>1, <2>2 DEF LinkTypes
  <2> QED
    BY <2>3 DEF Hearing, Goal
<1>9. ASSUME ConnectFailed PROVE Goal
  BY <1>9 DEF ConnectFailed, Hearing, Goal
<1>10. ASSUME DaemonDisconnected PROVE Goal
  BY <1>10 DEF DaemonDisconnected, Hearing, Goal
<1>11. ASSUME StartDaemon PROVE Goal
  <2>1. UNCHANGED <<gui, daemon_running, app_daemon, event_rx, swaps>>
    BY <1>11 DEF StartDaemon, windowState, slot
  <2>2. \A i \in DOMAIN msgs : msgs[i].kind = "disconnected" =>
          i - 1 \in DOMAIN msgs' /\ msgs'[i - 1].kind = "disconnected"
    BY <1>11, Popped DEF StartDaemon, Next_message, LinkTypes
  <2> QED
    BY <2>1, <2>2 DEF Hearing, Goal
<1>12. ASSUME Disconnected PROVE Goal
  <2>1. UNCHANGED <<gui, daemon_running, app_daemon, swaps>>
    BY <1>12 DEF Disconnected, windowState, flags
  <2>2. Message("disconnected", None) \in Envelope /\ Message("disconnected", None).kind = "disconnected"
    BY Messages DEF Kind
  <2>3. Len(msgs) + 1 \in DOMAIN msgs' /\ msgs'[Len(msgs) + 1].kind = "disconnected"
    BY <1>12, <2>2, Pushed DEF Disconnected, LinkTypes
  <2> QED
    BY <2>1, <2>3 DEF Hearing, Goal
<1>13. ASSUME Swap PROVE Goal
  <2>1. UNCHANGED <<gui, daemon_running, app_daemon, msgs>> /\ swaps # <<>>
        /\ event_rx' = Head(swaps) /\ swaps' = Tail(swaps)
    BY <1>13 DEF Swap, windowState, flags
  <2>2. CASE Len(swaps) = 1
    BY <2>1, <2>2 DEF LinkTypes, Hearing, Goal
  <2>3. CASE Len(swaps) # 1
    <3>1. swaps \in Seq(Conn \cup {None}) /\ Len(swaps) \in Nat /\ Len(swaps) > 1
      <4>1. swaps \in Seq(Conn \cup {None})
        BY DEF LinkTypes
      <4>2. \A seq \in Seq(Conn \cup {None}) : seq # <<>> => Len(seq) \in Nat \ {0}
        BY EmptySeq, Zenon
      <4>3. Len(swaps) \in Nat \ {0}
        BY <2>1, <4>1, <4>2
      <4>4. \A n \in Nat \ {0} : n # 1 => n \in Nat /\ n > 1
        OBVIOUS
      <4> QED
        BY <2>3, <4>1, <4>3, <4>4, ZenonT(60)
    <3>2. Len(swaps') = Len(swaps) - 1
      BY <2>1, <3>1, SMTT(60)
    <3>n. swaps' # <<>>
      BY <3>1, <3>2, SMTT(60)
    <3>3. swaps'[Len(swaps) - 1] = swaps[Len(swaps)]
      BY <2>1, <3>1, SMTT(60)
    <3> QED
      BY <2>1, <3>2, <3>n, <3>3, SMTT(60), ZenonT(60) DEF Hearing, Goal
  <2> QED
    BY <2>2, <2>3
<1>14. ASSUME ApplyMenu PROVE Goal
  BY <1>14, HearingPost DEF ApplyMenu, windowState, flags, slot, Goal
<1>15. ASSUME LanguageChanged PROVE Goal
  BY <1>15, HearingPost DEF LanguageChanged, windowState, flags, slot, Goal
<1>16. ASSUME ClickStart PROVE Goal
  <2>1. Message("start", None) \in Envelope
    BY Messages DEF Kind
  <2> QED
    BY <1>16, <2>1, HearingPost DEF ClickStart, windowState, flags, slot, Goal
<1>17. ASSUME ToggleWindow PROVE Goal
  BY <1>17, HearingPost DEF ToggleWindow, flags, slot, Goal
<1>18. ASSUME ShowAbout PROVE Goal
  BY <1>18, HearingPost DEF ShowAbout, flags, slot, Goal
<1>19. ASSUME WindowCloseRequested PROVE Goal
  BY <1>19, <1>x, HearingPost DEF WindowCloseRequested, flags, slot, Goal
<1>20. ASSUME Quit PROVE Goal
  BY <1>20, <1>x DEF Quit
<1>21. ASSUME UNCHANGED vars PROVE Goal
  BY <1>21, HearingPost DEF vars, windowState, flags, slot, Goal
<1>22. ASSUME NEW c \in Conn, Cut(c) PROVE Goal
  BY <1>22, HearingPost DEF Cut, windowState, flags, slot, Goal
<1> QED
  BY <1>1, <1>2, <1>3, <1>4, <1>5, <1>6, <1>7, <1>8, <1>9, <1>10, <1>11, <1>12, <1>13, <1>14,
     <1>15, <1>16, <1>17, <1>18, <1>19, <1>20, <1>21, <1>22 DEF Next, Connecting, Process, Update, Subscription, Desktop

(****************************************************************************)
(* The theorems.                                                            *)
(****************************************************************************)

LinkInv == LinkTypes /\ GuardIsExact /\ Hearing

\* App::new starts one connect task, with the flag set and nothing connected.
LEMMA InitLinkInv == Init => LinkInv
<1> SUFFICES ASSUME Init PROVE LinkInv
  OBVIOUS
<1>1. PICK k \in Attempt : attempt = [j \in Attempt |-> IF j = k THEN "probe" ELSE "idle"]
  BY DEF Init
<1>2. InFlight = {k} /\ Results = {}
  BY <1>1 DEF Init, InFlight, Results
<1>3. LinkTypes
  <2>1. attempt \in [Attempt -> Stage]
    BY <1>1 DEF Stage
  <2>2. msgs \in Seq(Envelope) /\ swaps \in Seq(Conn \cup {None})
    BY DEF Init
  <2> QED
    BY <2>1, <2>2, ZenonT(60) DEF Init, LinkTypes
<1>4. GuardIsExact
  BY <1>2 DEF Init, GuardIsExact
<1> QED
  BY <1>3, <1>4 DEF Init, Hearing, LinkInv

\* The invariant holds throughout.
THEOREM LinkInvAlways == Spec => []LinkInv
<1>1. LinkInv /\ [Next]_vars => LinkInv'
  BY TypesStep, GuardStep, HearingStep DEF LinkInv
<1> QED
  BY InitLinkInv, <1>1, PTL DEF Spec

\* daemon_connecting is set exactly while the one connect task runs or its result
\* waits, however many slots, clicks, faults and deaths there are.
THEOREM GuardAlways == Spec => []GuardIsExact
<1>1. LinkInv => GuardIsExact
  BY DEF LinkInv
<1> QED
  BY LinkInvAlways, <1>1, PTL

\* The GUI that says it is running and has caught up listens to the connection it
\* sends its commands to.
THEOREM HearsAlways == Spec => []HearsWhomItTells
<1>1. LinkInv => HearsWhomItTells
  BY DEF LinkInv, Hearing, HearsWhomItTells
<1> QED
  BY LinkInvAlways, <1>1, PTL

==============================================================================
