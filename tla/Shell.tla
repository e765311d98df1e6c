-------------------------------- MODULE Shell --------------------------------
(****************************************************************************)
(* Shell integration on Linux: the daemon's socket API server, one handler  *)
(* task and one write task per connection, and the D-Bus service that talks *)
(* to it, over a connection of its own for every call of a file manager and *)
(* over a lasting one for the broadcasts it turns into signals.             *)
(*                                                                          *)
(* A line is what the shell tells apart: its kind, and for STATUS its tag   *)
(* and path.  A write is one line and waits while the socket is full.       *)
(****************************************************************************)
EXTENDS Naturals, Sequences, FiniteSets, Functions

CONSTANTS
  None,
  Conn,        \* connections that can exist at a time
  Caller,      \* calls of file managers that can be under way at a time
  Path, Job,   \* paths, and the path lists of MAKE_* commands
  Outside,     \* paths below no folder
  Op,          \* the other commands that are sent
  VfsResult,   \* tags a hydration can end with: only "OK" for vfs-off
  RootCounts,  \* how many folders a daemon may have started with
  Capacity,    \* of a connection's broadcast channel (64 in the code)
  SocketRoom,  \* lines a socket holds
  MaxCalls, MaxStops

ASSUME ShellAssumption ==
  /\ None \notin Conn /\ Outside \subseteq Path /\ VfsResult \subseteq {"OK", "ERROR"} /\ RootCounts \subseteq Nat
  /\ Job \subseteq Seq(Path) \ {<<>>} /\ Op \subseteq {"RETRIEVE_FILE_STATUS", "GET_MENU_ITEMS", "BAD"}
  /\ {Capacity, SocketRoom} \subseteq Nat \ {0} /\ {MaxCalls, MaxStops} \subseteq Nat

Register == [kind |-> "REGISTER_PATH"]
Status(tag, p) == [kind |-> "STATUS", tag |-> tag, path |-> p]
Reply(k) == [kind |-> k]

Tags     == {"OK", "ERROR", "NONE"}
Statuses == [kind : {"STATUS"}, tag : Tags, path : Path]
Lines    == {Register} \cup Statuses \cup [kind : {"GET_MENU_ITEMS", "MAKE"}]

\* What the clients send.  "GET_MENU_ITEMS" stands for every command whose
\* response is a line of fixed form (SHARE, COPY_PRIVATE_LINK, GET_STRINGS), "BAD"
\* for a line parse_command refuses.
Commands == [op : Op, paths : {<<p>> : p \in Path}]
              \cup [op : {"MAKE"}, paths : Job]

\* None is no call of a file manager.
ASSUME NoneAssumption == None \notin [conn : Conn, cmd : Commands]

VARIABLES
  \* the daemon
  up, roots,   \* does it listen, and with how many folders
  members,     \* BroadcastSender.connections, oldest first
  h,           \* per connection: its handler task
  channel,     \* per connection: the broadcasts queued for its write task
  writer,      \* per connection: "none" before it is spawned, "runs", "ended"
  \* the sockets
  in, out,     \* per connection: the command sent, the lines not yet read
  closed,      \* connections whose client has dropped its end
  \* the D-Bus service
  call,        \* per caller: the command and connection of its call
  listener,    \* the connection of the broadcast loop, or None
  shown,       \* per path: the tag of the last StatusChanged signal
  \* history, read by no action
  last,        \* per path: the tag of the last hydration
  excused,     \* paths whose last tag the listener could not be told in order
  calls, stops

daemon == <<up, roots, members, h, channel, writer>>
socket == <<in, out, closed>>
service == <<call, listener, shown>>
history == <<last, excused, calls, stops>>
vars == <<daemon, socket, service, history>>

Free == [pc |-> "free", left |-> 0, rest |-> <<>>, msg |-> None, targets |-> <<>>, dead |-> {}]

Init ==
  /\ up = TRUE /\ roots \in RootCounts /\ members = <<>>
  /\ h = [c \in Conn |-> Free] /\ channel = [c \in Conn |-> <<>>]
  /\ writer = [c \in Conn |-> "none"]
  /\ in = [c \in Conn |-> None] /\ out = [c \in Conn |-> <<>>] /\ closed = {}
  /\ call = [k \in Caller |-> None]
  /\ listener = None /\ shown = [p \in Path |-> None]
  /\ last = [p \in Path |-> None] /\ excused = {} /\ calls = 0 /\ stops = 0

\* retain: the j-th member of s that is not in S, for each j.
Without(s, S) ==
  LET kept == {i \in DOMAIN s : s[i] \notin S}
      rank(i) == Cardinality({k \in kept : k <= i})
  IN [j \in 1..Cardinality(kept) |-> s[CHOOSE i \in kept : rank(i) = j]]

Room(c) == Len(out[c]) < SocketRoom

(****************************************************************************)
(* The server.                                                              *)
(****************************************************************************)

\* Mutant: the write task is spawned before the roots are announced.
Spawned_Early(c, left) ==
  /\ h' = [h EXCEPT ![c].pc = IF left = 0 THEN "read" ELSE "register", ![c].left = left]
  /\ writer' = [writer EXCEPT ![c] = "runs"]

\* The write task is spawned and the read loop begins.
Spawned(c, left) ==
  /\ h' = [h EXCEPT ![c].pc = IF left = 0 THEN "read" ELSE "register", ![c].left = left]
  /\ writer' = IF left = 0 THEN [writer EXCEPT ![c] = "runs"] ELSE writer

\* run accepts and handle_connection enters the connection into the list.
Accept(c) ==
  /\ h[c].pc = "accepting"
  /\ members' = Append(members, c)
  /\ Spawned(c, roots)
  /\ UNCHANGED <<up, roots, channel, socket, service, history>>

\* accept fails, and run with it: who waits for accept is refused, the handlers
\* go on, and nobody listens until the daemon is started again.
AcceptFails ==
  LET refused == {c \in Conn : h[c].pc = "accepting"} IN
  /\ up /\ stops < MaxStops /\ stops' = stops + 1
  /\ up' = FALSE
  /\ h' = [c \in Conn |-> IF c \in refused THEN Free ELSE h[c]]
  /\ channel' = [c \in Conn |-> IF c \in refused THEN <<>> ELSE channel[c]]
  /\ in' = [c \in Conn |-> IF c \in refused THEN None ELSE in[c]]
  /\ closed' = closed \ refused
  /\ excused' = IF listener \in refused THEN Path ELSE excused
  /\ UNCHANGED <<roots, members, writer, out, service, last, calls>>

\* One REGISTER_PATH line per root, given up at the first write error.
register(c) ==
  /\ h[c].pc = "register"
  /\ \/ /\ c \notin closed /\ Room(c)
        /\ out' = [out EXCEPT ![c] = Append(@, Register)]
        /\ Spawned(c, h[c].left - 1)
     \/ /\ c \in closed
        /\ Spawned(c, 0)
        /\ UNCHANGED out
  /\ UNCHANGED <<up, roots, members, channel, in, closed, service, history>>

\* Mutant: a write error goes unnoticed.
WriteTask_Stays(c) ==
  /\ writer[c] = "runs" /\ channel[c] # <<>>
  /\ c \notin closed /\ Room(c)
  /\ out' = [out EXCEPT ![c] = Append(@, Head(channel[c]))]
  /\ channel' = [channel EXCEPT ![c] = Tail(@)]
  /\ UNCHANGED <<up, roots, members, h, writer, in, closed, service, history>>

\* The write task takes the next broadcast and writes it; a write error ends it.
WriteTask(c) ==
  /\ writer[c] = "runs" /\ channel[c] # <<>>
  /\ \/ /\ c \in closed
        /\ writer' = [writer EXCEPT ![c] = "ended"]
        /\ channel' = [channel EXCEPT ![c] = <<>>]
        /\ UNCHANGED out
     \/ /\ c \notin closed /\ Room(c)
        /\ out' = [out EXCEPT ![c] = Append(@, Head(channel[c]))]
        /\ channel' = [channel EXCEPT ![c] = Tail(@)]
        /\ UNCHANGED writer
  /\ UNCHANGED <<up, roots, members, h, in, closed, service, history>>

\* find_folder_for_path and resolve_file: a path of a folder has the status the
\* SyncState holds, and the daemon's holds none, which reads as OK.
resolve_file(p) == IF roots = 0 \/ p \in Outside THEN "NONE" ELSE "OK"

\* Mutant: a path outside every folder gets no response.
dispatch_line_Silent(c) ==
  /\ h[c].pc = "read" /\ in[c] # None
  /\ in' = [in EXCEPT ![c] = None]
  /\ h' = [h EXCEPT ![c] =
       CASE in[c].op = "MAKE" -> [@ EXCEPT !.pc = "vfs", !.rest = in[c].paths]
         [] in[c].op # "MAKE" /\ roots > 0 -> [@ EXCEPT !.pc = "reply", !.msg = Reply("GET_MENU_ITEMS")]
         [] OTHER -> @]
  /\ UNCHANGED <<up, roots, members, channel, writer, out, closed, service, history>>

\* read_line, then parse_command and dispatch_line.
dispatch_line(c) ==
  /\ h[c].pc = "read" /\ in[c] # None
  /\ in' = [in EXCEPT ![c] = None]
  /\ LET cmd == in[c] IN
     h' = [h EXCEPT ![c] =
       CASE cmd.op = "BAD" -> [@ EXCEPT !.pc = "read"]
         [] cmd.op = "MAKE" -> [@ EXCEPT !.pc = "vfs", !.rest = cmd.paths]
         [] cmd.op = "RETRIEVE_FILE_STATUS" ->
              [@ EXCEPT !.pc = "reply", !.msg = Status(resolve_file(cmd.paths[1]), cmd.paths[1])]
         [] OTHER -> [@ EXCEPT !.pc = "reply", !.msg = Reply(cmd.op)]]
  /\ UNCHANGED <<up, roots, members, channel, writer, out, closed, service, history>>

\* Is a broadcast about p on its way through the list?
Underway(p) == \E d \in Conn : h[d].pc = "send" /\ h[d].msg.path = p

\* The handler r with sends left to make; after the last, it has the next path
\* or the reply before it.
Sending(r, targets, dead) ==
  IF targets # <<>> THEN [r EXCEPT !.pc = "send", !.targets = targets, !.dead = dead]
  ELSE [r EXCEPT !.pc = IF r.rest = <<>> THEN "reply" ELSE "vfs",
                 !.msg = IF r.rest = <<>> THEN Reply("MAKE") ELSE None,
                 !.targets = <<>>, !.dead = {}]

\* handle_make_available_locally and handle_make_online_only: hydrate or
\* dehydrate the next path; status_changed takes the senders there are now.
Vfs(c) ==
  /\ h[c].pc = "vfs"
  /\ LET p == Head(h[c].rest) IN
     \E tag \in VfsResult :
       /\ h' = [h EXCEPT ![c] =
            Sending([h[c] EXCEPT !.msg = Status(tag, p), !.rest = Tail(h[c].rest)], members, {})]
       /\ last' = [last EXCEPT ![p] = tag]
       /\ excused' = IF Underway(p) \/ listener \notin Range(members)
                     THEN excused \cup {p} ELSE excused \ {p}
  /\ UNCHANGED <<up, roots, members, channel, writer, socket, service, calls, stops>>

\* A receiver exists from add_connection until its write task has ended.
Receives(c) == h[c].pc # "free" /\ writer[c] # "ended"

\* One send of broadcast.
Sent(c, dead) ==
  LET targets == Tail(h[c].targets) IN
  /\ h' = [h EXCEPT ![c] = Sending(@, targets, dead)]
  /\ members' = IF targets = <<>> THEN Without(members, dead) ELSE members

\* Mutant: the channel has no bound.
Send_Unbounded(c) ==
  /\ h[c].pc = "send"
  /\ LET t == Head(h[c].targets) IN
     /\ channel' = IF Receives(t) THEN [channel EXCEPT ![t] = Append(@, h[c].msg)] ELSE channel
     /\ Sent(c, IF Receives(t) THEN h[c].dead ELSE h[c].dead \cup {t})
  /\ UNCHANGED <<up, roots, writer, socket, service, history>>

\* Mutant: a full channel loses the line, as try_send would.
Send_Drops(c) ==
  /\ h[c].pc = "send"
  /\ LET t == Head(h[c].targets) IN
     /\ channel' = IF Receives(t) /\ Len(channel[t]) < Capacity
                   THEN [channel EXCEPT ![t] = Append(@, h[c].msg)] ELSE channel
     /\ Sent(c, IF Receives(t) THEN h[c].dead ELSE h[c].dead \cup {t})
  /\ UNCHANGED <<up, roots, writer, socket, service, history>>

\* broadcast: one send after another, each waiting for room; connections found
\* dead leave the list at the end.
Send(c) ==
  /\ h[c].pc = "send"
  /\ LET t == Head(h[c].targets) IN
     \/ /\ Receives(t) /\ Len(channel[t]) < Capacity
        /\ channel' = [channel EXCEPT ![t] = Append(@, h[c].msg)]
        /\ Sent(c, h[c].dead)
     \/ /\ ~Receives(t)
        /\ Sent(c, h[c].dead \cup {t})
        /\ UNCHANGED channel
  /\ UNCHANGED <<up, roots, writer, socket, service, history>>

\* Mutant: the connection stays in the list until a broadcast finds it dead.
End_Stays(c) ==
  /\ members' = members
  /\ h' = [h EXCEPT ![c] = Free]
  /\ writer' = [writer EXCEPT ![c] = "none"]
  /\ channel' = [channel EXCEPT ![c] = <<>>]
  /\ closed' = closed \ {c}

\* remove_connection, and the write task is aborted.
End(c) ==
  /\ members' = Without(members, {c})
  /\ h' = [h EXCEPT ![c] = Free]
  /\ writer' = [writer EXCEPT ![c] = "none"]
  /\ channel' = [channel EXCEPT ![c] = <<>>]
  /\ closed' = closed \ {c}

\* The response is written; a write error leaves the read loop.
WriteReply(c) ==
  /\ h[c].pc = "reply"
  /\ \/ /\ c \in closed
        /\ End(c)
        /\ UNCHANGED out
     \/ /\ c \notin closed /\ Room(c)
        /\ out' = [out EXCEPT ![c] = Append(@, h[c].msg)]
        /\ h' = [h EXCEPT ![c].pc = "read", ![c].msg = None]
        /\ UNCHANGED <<members, channel, writer, closed>>
  /\ UNCHANGED <<up, roots, in, service, history>>

\* read_line returns 0 or an error.
EndOfInput(c) ==
  /\ h[c].pc = "read" /\ in[c] = None /\ c \in closed
  /\ End(c)
  /\ UNCHANGED <<up, roots, in, out, service, history>>

(****************************************************************************)
(* The D-Bus service.                                                       *)
(****************************************************************************)

Held == {call[k].conn : k \in {k \in Caller : call[k] # None}} \cup {listener}
Unused == {c \in Conn \ Held : h[c].pc = "free" /\ \A d \in Conn : c \notin Range(h[d].targets) \cup h[d].dead}

\* SocketClient::connect_path, while the daemon listens. A connection has a new
\* id: it is none that a broadcast still goes through. Unused ones are alike.
Connect(c, cmd) ==
  /\ up /\ Unused # {} /\ c = CHOOSE d \in Unused : TRUE
  /\ h' = [h EXCEPT ![c].pc = "accepting"]
  /\ in' = [in EXCEPT ![c] = cmd]

\* GetFileStatus, GetMenuItems and ExecuteCommand: connect and write.  Without
\* a daemon the call returns at once.
Call(k) ==
  /\ call[k] = None /\ calls < MaxCalls
  /\ \E cmd \in Commands :
       \E c \in Conn : Connect(c, cmd) /\ call' = [call EXCEPT ![k] = [conn |-> c, cmd |-> cmd]]
  /\ calls' = calls + 1
  /\ UNCHANGED <<up, roots, members, channel, writer, out, closed, listener, shown, last, excused, stops>>

\* parse_status_line: the tag of a STATUS line; anything else is an error,
\* which get_file_status returns as NONE.
parse_status_line(line) == IF line.kind = "STATUS" THEN line.tag ELSE "NONE"

\* The call reads one line, returns, and drops its connection.
ReadLine(k) ==
  /\ call[k] # None
  /\ LET c == call[k].conn IN
     \/ /\ out[c] # <<>>
        /\ out' = [out EXCEPT ![c] = <<>>]
        /\ closed' = IF h[c].pc = "free" THEN closed ELSE closed \cup {c}
     \/ /\ out[c] = <<>> /\ h[c].pc = "free"
        /\ UNCHANGED <<out, closed>>
  /\ call' = [call EXCEPT ![k] = None]
  /\ UNCHANGED <<daemon, in, listener, shown, history>>

\* The broadcast loop connects, again five seconds after it failed or ended.
ListenerConnects ==
  /\ listener = None
  /\ \E c \in Conn : Connect(c, None) /\ listener' = c
  /\ UNCHANGED <<up, roots, members, channel, writer, out, closed, call, shown, history>>

\* read_broadcast: STATUS becomes a signal; a closed connection is given up.
read_broadcast ==
  /\ listener # None
  /\ \/ /\ out[listener] # <<>>
        /\ LET line == Head(out[listener]) IN
           shown' = IF line.kind = "STATUS" THEN [shown EXCEPT ![line.path] = line.tag] ELSE shown
        /\ out' = [out EXCEPT ![listener] = Tail(@)]
        /\ UNCHANGED listener
     \/ /\ out[listener] = <<>> /\ h[listener].pc = "free"
        /\ listener' = None
        /\ UNCHANGED <<shown, out>>
  /\ UNCHANGED <<daemon, in, closed, call, history>>

\* The daemon stops: what it had queued is lost, what is in the sockets is not.
Stops ==
  /\ stops < MaxStops /\ stops' = stops + 1
  /\ up' = FALSE /\ members' = <<>> /\ closed' = {}
  /\ h' = [c \in Conn |-> Free] /\ channel' = [c \in Conn |-> <<>>]
  /\ writer' = [c \in Conn |-> "none"] /\ in' = [c \in Conn |-> None]
  /\ out' = [c \in Conn |-> IF c \in Held THEN out[c] ELSE <<>>]
  /\ excused' = Path
  /\ UNCHANGED <<roots, service, last, calls>>

\* bind: the stale socket file is removed; the folders of the configuration.
Starts ==
  /\ ~up /\ \A c \in Conn : h[c].pc = "free"
  /\ up' = TRUE /\ roots' \in RootCounts
  /\ UNCHANGED <<members, h, channel, writer, socket, service, history>>

Server(c) ==
  \/ Accept(c) \/ register(c) \/ WriteTask(c) \/ dispatch_line(c) \/ Vfs(c)
  \/ Send(c) \/ WriteReply(c) \/ EndOfInput(c)

Next ==
  \/ \E c \in Conn : Server(c)
  \/ \E k \in Caller : Call(k) \/ ReadLine(k)
  \/ AcceptFails \/ ListenerConnects \/ read_broadcast \/ Stops \/ Starts

Spec == Init /\ [][Next]_vars

\* The runtime polls every task that can go on, a hydration returns, a caller
\* waits in read_line and the broadcast loop never stops.
Fairness ==
  /\ \A c \in Conn :
       /\ WF_vars(WriteTask(c))
       /\ WF_vars(\/ Accept(c) \/ register(c) \/ dispatch_line(c) \/ Vfs(c) \/ Send(c)
                  \/ WriteReply(c) \/ EndOfInput(c))
  /\ \A k \in Caller : WF_vars(ReadLine(k))
  /\ WF_vars(read_broadcast)
FairSpec == Spec /\ Fairness

(****************************************************************************)
(* Properties.                                                              *)
(****************************************************************************)

Pcs == {"free", "accepting", "register", "read", "vfs", "send", "reply"}

\* The connection list has no duplicates, no channel holds more than its
\* capacity (mpsc::channel(64)) and no socket more than it has room for.
TypeOK ==
  /\ up \in BOOLEAN /\ roots \in Nat
  /\ members \in Seq(Conn) /\ IsInjective(members)
  /\ \A c \in Conn :
       /\ h[c].pc \in Pcs /\ h[c].left \in 0..roots
       /\ h[c].targets \in Seq(Conn) /\ h[c].dead \subseteq Conn
       /\ channel[c] \in Seq(Lines) /\ Len(channel[c]) <= Capacity
       /\ out[c] \in Seq(Lines) /\ Len(out[c]) <= SocketRoom
       /\ writer[c] \in {"none", "runs", "ended"} /\ in[c] \in Commands \cup {None}
  /\ closed \subseteq Conn /\ listener \in Conn \cup {None}
  /\ shown \in [Path -> Tags \cup {None}]

\* A shell is told every sync root before anything else, although the
\* connection is in the broadcast list from its first moment: a broadcast made
\* while the REGISTER_PATH lines are written waits in the channel
\* (handle_connection).
RootsFirst ==
  \A c \in Conn : \A i \in 1..Len(out[c]) :
    out[c][i].kind # "REGISTER_PATH" => /\ h[c].pc # "register"
                                        /\ \A j \in i..Len(out[c]) : out[c][j].kind # "REGISTER_PATH"

\* The list holds only connections that a handler still serves: a connection
\* leaves it on every way out of handle_connection, also when a broadcast has
\* already taken it out.
MembersServed ==
  \A c \in Range(members) : h[c].pc \notin {"free", "accepting"}

Pending(p) ==
  \/ \E d \in Conn : h[d].pc = "send" /\ h[d].msg.path = p /\ listener \in Range(h[d].targets)
  \/ \E i \in 1..Len(channel[listener]) : channel[listener][i].path = p
  \/ \E i \in 1..Len(out[listener]) : out[listener][i].kind = "STATUS" /\ out[listener][i].path = p

\* No broadcast is lost and none is late: once nothing about a path is on its
\* way, the file manager has been told the outcome of its last hydration.  The
\* exceptions are a listener that was not connected, or a daemon that stopped
\* (nothing is replayed on reconnection), and two hydrations of one path whose
\* broadcasts overlap (broadcast holds no lock between its sends).
BadgeFollows ==
  listener # None => \A p \in Path : p \in excused \/ Pending(p) \/ shown[p] = last[p]

\* What GetFileStatus returns for a file is what the daemon's resolver says of it.
StatusAnswered ==
  [][\A k \in Caller :
       LET c == call[k].conn IN
       call[k] # None /\ call'[k] = None /\ call[k].cmd.op = "RETRIEVE_FILE_STATUS" /\ out[c] # <<>>
         => parse_status_line(Head(out[c])) = resolve_file(call[k].cmd.paths[1])]_vars

\* Every D-Bus call returns.  The exception is a command the daemon does not
\* understand, which it never answers, sent while no sync root is announced.
CallReturns ==
  \A k \in Caller :
    (call[k] # None /\ ~(call[k].cmd.op = "BAD" /\ roots = 0)) ~> (call[k] = None)

\* Every connection that its client has dropped is cleaned up, although its
\* handler may be in the middle of a broadcast to connections nobody reads from,
\* its own among them. (A connection leaves closed when its handler ends; MaxCalls
\* bounds how many enter it.)
HandlersEnd == (closed # {}) ~> (closed = {})

=============================================================================
