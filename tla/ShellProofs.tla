------------------------------ MODULE ShellProofs ------------------------------
(****************************************************************************)
(* The socket API and the D-Bus service, for any number of connections,     *)
(* calls, paths and folders and any capacity: what a shell is told first,   *)
(* who is in the broadcast list, and that no broadcast is lost or late.     *)
(****************************************************************************)
EXTENDS Shell, TLAPS, FiniteSetTheorems

(****************************************************************************)
(* The broadcast list.                                                      *)
(****************************************************************************)

\* retain keeps the members that are not in S, and no member twice.
LEMMA Retained ==
  ASSUME NEW T, NEW s \in Seq(T), IsInjective(s), NEW S
  PROVE  /\ Without(s, S) \in Seq(T) /\ IsInjective(Without(s, S))
         /\ Range(Without(s, S)) = Range(s) \ S
<1> DEFINE kept == {i \in DOMAIN s : s[i] \notin S}
           upto(i) == {k \in kept : k <= i}
           n == Cardinality(kept)
           rank == [i \in kept |-> Cardinality(upto(i))]
           pick(j) == CHOOSE i \in kept : Cardinality(upto(i)) = j
           w == [j \in 1..n |-> s[pick(j)]]
<1>1. kept \subseteq 1..Len(s) /\ IsFiniteSet(kept) /\ n \in Nat
  <2>1. kept \in SUBSET (1..Len(s)) /\ IsFiniteSet(1..Len(s))
    BY FS_Interval
  <2> QED
    BY <2>1, FS_Subset, FS_CardinalityType, ZenonT(60)
<1>2. \A i \in kept : /\ IsFiniteSet(upto(i)) /\ rank[i] \in 1..n /\ rank[i] = Cardinality(upto(i))
  <2> SUFFICES ASSUME NEW i \in kept
               PROVE  IsFiniteSet(upto(i)) /\ Cardinality(upto(i)) \in 1..n
    BY Zenon
  <2>1. upto(i) \in SUBSET kept /\ i \in upto(i)
    BY <1>1
  <2> HIDE DEF upto, kept
  <2>2. IsFiniteSet(upto(i)) /\ Cardinality(upto(i)) \in Nat /\ Cardinality(upto(i)) <= n
    BY <1>1, <2>1, FS_Subset, FS_CardinalityType, Zenon
  <2>3. Cardinality(upto(i)) # 0
    BY <2>1, <2>2, FS_EmptySet, Zenon
  <2> QED
    BY <1>1, <2>2, <2>3
<1>3. \A i, j \in kept : rank[i] = rank[j] => i = j
  <2>1. ASSUME NEW i \in kept, NEW j \in kept, i < j PROVE rank[i] # rank[j]
    <3>1. upto(i) \in SUBSET upto(j) /\ j \in upto(j) /\ j \notin upto(i)
      BY <1>1, <2>1
    <3> HIDE DEF upto, kept, rank
    <3> QED
      BY <1>2, <3>1, FS_Subset, Zenon
  <2>2. \A i, j \in kept : i = j \/ i < j \/ j < i
    BY <1>1
  <2> HIDE DEF rank, kept
  <2> QED
    BY <2>1, <2>2, Zenon
<1>4. rank \in Surjection(kept, 1..n)
  <2>1. rank \in Injection(kept, 1..n)
    <3>1. rank \in [kept -> 1..n]
      BY <1>2, Zenon
    <3> HIDE DEF rank, kept
    <3> QED
      BY <1>3, <3>1, Zenon DEF Injection, IsInjective
  <2>2. IsFiniteSet(1..n) /\ Cardinality(1..n) = n
    BY <1>1, FS_Interval
  <2> HIDE DEF rank, kept
  <2> QED
    BY <2>1, <2>2, FS_Injection, Zenon
<1>5. \A j \in 1..n : pick(j) \in kept /\ rank[pick(j)] = j
  <2>1. \A j \in 1..n : \E i \in kept : rank[i] = j
    BY <1>4, Zenon DEF Surjection
  <2> HIDE DEF rank, kept, upto
  <2>2. \A j \in 1..n : \E i \in kept : Cardinality(upto(i)) = j
    BY <1>2, <2>1, Zenon
  <2>3. \A j \in 1..n : pick(j) \in kept /\ Cardinality(upto(pick(j))) = j
    BY <2>2, ZenonT(60)
  <2> QED
    BY <1>2, <2>3, Zenon
<1>6. Without(s, S) = w
  BY Zenon DEF Without
<1>7. \A i \in kept : pick(rank[i]) = i
  <2> HIDE DEF rank, kept, pick, n
  <2> QED
    BY <1>2, <1>3, <1>5, Zenon
<1>8. w \in Seq(T)
  <2>1. \A i \in kept : s[i] \in T
    OBVIOUS
  <2>2. \A j \in 1..n : s[pick(j)] \in T
    <3> HIDE DEF pick, n, kept, rank
    <3> QED
      BY <1>5, <2>1, Zenon
  <2> HIDE DEF pick, n
  <2> QED
    BY <1>1, <2>2
<1>9. DOMAIN w = 1..n /\ \A j \in 1..n : w[j] = s[pick(j)]
  BY Zenon
<1>10. IsInjective(w)
  <2>1. \A i, j \in kept : s[i] = s[j] => i = j
    BY Zenon DEF IsInjective
  <2> HIDE DEF pick, w, rank, kept, n
  <2> QED
    BY <1>5, <1>9, <2>1 DEF IsInjective
<1>11. Range(w) = Range(s) \ S
  <2>1. \A x : x \in Range(s) \ S <=> \E i \in kept : x = s[i]
    BY ZenonT(60) DEF Range
  <2>2. \A x : x \in Range(w) <=> \E j \in 1..n : x = s[pick(j)]
    <3> HIDE DEF pick, w, kept, n
    <3> QED
      BY <1>9, ZenonT(60) DEF Range
  <2> HIDE DEF pick, w, rank, kept, n
  <2>3. \A x : x \in Range(w) => x \in Range(s) \ S
    BY <1>5, <2>1, <2>2, ZenonT(60)
  <2>4. ASSUME NEW i \in kept PROVE rank[i] \in 1..n /\ s[i] = s[pick(rank[i])]
    BY <1>2, <1>7, Zenon
  <2>5. \A x : x \in Range(s) \ S => x \in Range(w)
    BY <2>1, <2>2, <2>4, ZenonT(60)
  <2> QED
    BY <2>3, <2>5, Zenon
<1> QED
  BY <1>6, <1>8, <1>10, <1>11, Zenon

(****************************************************************************)
(* Types.                                                                   *)
(****************************************************************************)

Calls == [conn : Conn, cmd : Commands]
Handlers == [pc : Pcs, left : Nat, rest : Seq(Path), msg : Lines \cup {None},
             targets : Seq(Conn), dead : SUBSET Conn]

\* What a handler task has in hand at each of its awaits.
Ready(r) ==
  /\ r.pc = "free" => r = Free
  /\ r.pc = "register" => r.left > 0
  /\ r.pc = "vfs" => r.rest # <<>>
  /\ r.pc = "send" => r.msg \in Statuses /\ r.targets # <<>>
  /\ r.pc = "reply" => r.msg \in Lines \ {Register}

HandlerTypes == h \in [Conn -> Handlers] /\ \A c \in Conn : Ready(h[c]) /\ h[c].left <= roots

ChannelTypes == channel \in [Conn -> Seq(Statuses)] /\ \A c \in Conn : Len(channel[c]) <= Capacity
SocketTypes == out \in [Conn -> Seq(Lines)] /\ \A c \in Conn : Len(out[c]) <= SocketRoom
QueueTypes == ChannelTypes /\ SocketTypes

ServerTypes ==
  /\ up \in BOOLEAN /\ roots \in Nat
  /\ members \in Seq(Conn) /\ IsInjective(members)
  /\ writer \in [Conn -> {"none", "runs", "ended"}]

ClientTypes ==
  /\ in \in [Conn -> Commands \cup {None}] /\ closed \subseteq Conn
  /\ call \in [Caller -> Calls \cup {None}] /\ listener \in Conn \cup {None}
  /\ shown \in [Path -> Tags \cup {None}] /\ last \in [Path -> Tags \cup {None}]
  /\ excused \subseteq Path

ShellTypes == HandlerTypes /\ QueueTypes /\ ServerTypes /\ ClientTypes

\* The kinds of lines.
LEMMA LineFacts ==
  /\ Register \in Lines /\ Register.kind = "REGISTER_PATH"
  /\ \A t \in Tags, p \in Path : Status(t, p) \in Statuses
  /\ Statuses \subseteq Lines \ {Register}
  /\ \A l \in Statuses : l.kind = "STATUS" /\ l.path \in Path /\ l.tag \in Tags
  /\ \A k \in {"GET_MENU_ITEMS", "MAKE"} : Reply(k) \in Lines \ {Register}
  /\ \A l \in Lines \ {Register} : l.kind # "REGISTER_PATH"
  /\ \A l \in Lines : l.kind = "STATUS" => l \in Statuses
<1>1. Register \in Lines /\ Register.kind = "REGISTER_PATH"
  BY Zenon DEF Register, Lines
<1>2. \A t \in Tags, p \in Path : Status(t, p) \in Statuses
  BY Zenon DEF Status, Statuses
<1>3. \A l \in Statuses : l.kind = "STATUS" /\ l.path \in Path /\ l.tag \in Tags
  BY Zenon DEF Statuses
<1>4. \A k \in {"GET_MENU_ITEMS", "MAKE"} : Reply(k) \in [kind : {"GET_MENU_ITEMS", "MAKE"}]
  BY Zenon DEF Reply
<1>5. \A l \in [kind : {"GET_MENU_ITEMS", "MAKE"}] : l.kind \in {"GET_MENU_ITEMS", "MAKE"}
  BY Zenon
<1> QED
  BY <1>1, <1>2, <1>3, <1>4, <1>5, Zenon DEF Lines

\* What a command brings along.
LEMMA CommandFacts ==
  ASSUME NEW cmd \in Commands
  PROVE  /\ cmd.op = "MAKE" => cmd.paths \in Seq(Path) /\ cmd.paths # <<>>
         /\ cmd.op # "MAKE" => /\ cmd.op \in {"RETRIEVE_FILE_STATUS", "GET_MENU_ITEMS", "BAD"}
                               /\ cmd.paths[1] \in Path
<1>1. CASE cmd \in [op : Op, paths : {<<p>> : p \in Path}]
  <2>1. cmd.op \in Op /\ cmd.paths \in {<<p>> : p \in Path}
    BY <1>1, Zenon
  <2>2. PICK p \in Path : cmd.paths = <<p>>
    BY <2>1, Zenon
  <2>3. cmd.paths[1] = p
    BY <2>2
  <2> QED
    BY <2>1, <2>3, ShellAssumption, Zenon
<1>2. CASE cmd \in [op : {"MAKE"}, paths : Job]
  BY <1>2, ShellAssumption, Zenon
<1> QED
  BY <1>1, <1>2, Zenon DEF Commands

\* One handler goes on.
LEMMA HandlerSet ==
  ASSUME HandlerTypes, NEW c \in Conn, NEW r \in Handlers, Ready(r), r.left <= roots,
         h' = [h EXCEPT ![c] = r], roots' = roots
  PROVE  HandlerTypes' /\ h'[c] = r /\ \A d \in Conn \ {c} : h'[d] = h[d]
BY Zenon DEF HandlerTypes

\* Spawned, as a step of one handler.
LEMMA SpawnedSet ==
  ASSUME HandlerTypes, NEW c \in Conn, NEW left \in Nat, left <= roots, Spawned(c, left),
         roots' = roots, roots \in Nat
  PROVE  /\ HandlerTypes' /\ \A d \in Conn \ {c} : h'[d] = h[d]
         /\ h'[c] = [h[c] EXCEPT !.pc = IF left = 0 THEN "read" ELSE "register", !.left = left]
<1> DEFINE r == [h[c] EXCEPT !.pc = IF left = 0 THEN "read" ELSE "register", !.left = left]
<1>1. h[c] \in Handlers
  BY Zenon DEF HandlerTypes
<1>2. r \in Handlers
  BY <1>1, Zenon DEF Handlers, Pcs
<1>3. Ready(r) /\ r.left <= roots
  BY <1>1 DEF Handlers, Ready
<1>4. h' = [h EXCEPT ![c] = r]
  BY Zenon DEF Spawned
<1> HIDE DEF r
<1>5. HandlerTypes' /\ h'[c] = r /\ \A d \in Conn \ {c} : h'[d] = h[d]
  BY <1>2, <1>3, <1>4, HandlerSet, Zenon
<1> QED
  BY <1>5, Zenon DEF r

\* Sending, as a step of one handler.
LEMMA SendingSet ==
  ASSUME NEW r \in Handlers, r.msg \in Statuses, NEW targets \in Seq(Conn), NEW dead \in SUBSET Conn
  PROVE  LET s == Sending(r, targets, dead)
         IN /\ s \in Handlers /\ Ready(s) /\ s.left = r.left
            /\ s.pc \in {"send", "vfs", "reply"} /\ (s.pc = "send" <=> targets # <<>>)
            /\ s.pc = "send" => s.msg = r.msg /\ s.targets = targets /\ s.dead = dead
            /\ s.pc # "send" => s.targets = <<>> /\ s.dead = {}
<1>1. CASE targets # <<>>
  BY <1>1, Zenon DEF Sending, Handlers, Pcs, Ready
<1>2. CASE targets = <<>> /\ r.rest = <<>>
  BY <1>2, LineFacts, Zenon DEF Sending, Handlers, Pcs, Ready
<1>3. CASE targets = <<>> /\ r.rest # <<>>
  BY <1>3, Zenon DEF Sending, Handlers, Pcs, Ready
<1> QED
  BY <1>1, <1>2, <1>3, Zenon

\* The members of a sequence, and of one that is longer by one.
LEMMA SetOfTail ==
  ASSUME NEW S, NEW s \in Seq(S), s # <<>>
  PROVE  Range(s) = Range(Tail(s)) \cup {Head(s)}
<1>1. \A x : x \in Range(s) <=> \E i \in 1..Len(s) : x = s[i]
  BY DEF Range
<1>2. \A x : x \in Range(Tail(s)) <=> \E i \in 1..(Len(s) - 1) : x = s[i + 1]
  <2> DEFINE t == Tail(s)
  <2>1. t \in Seq(S) /\ Len(t) = Len(s) - 1 /\ \A i \in 1..(Len(s) - 1) : t[i] = s[i + 1]
    OBVIOUS
  <2> HIDE DEF t
  <2>2. \A x : x \in Range(t) <=> \E i \in 1..Len(t) : x = t[i]
    BY <2>1 DEF Range
  <2>3. \A x : x \in Range(t) <=> \E i \in 1..(Len(s) - 1) : x = s[i + 1]
    BY <2>1, <2>2
  <2> QED
    BY <2>3, Zenon DEF t
<1>3. \A i \in 1..Len(s) : i = 1 \/ (i - 1 \in 1..(Len(s) - 1) /\ (i - 1) + 1 = i)
  OBVIOUS
<1>4. \A i \in 1..(Len(s) - 1) : i + 1 \in 1..Len(s)
  OBVIOUS
<1>5. 1 \in 1..Len(s) /\ Head(s) = s[1]
  OBVIOUS
<1>6. \A x : x \in Range(s) => x \in Range(Tail(s)) \cup {Head(s)}
  BY <1>1, <1>2, <1>3, <1>5, ZenonT(60)
<1>7. \A x : x \in Range(Tail(s)) \cup {Head(s)} => x \in Range(s)
  BY <1>1, <1>2, <1>4, <1>5, Zenon
<1> QED
  BY <1>6, <1>7, Zenon

\* The elements of a sequence with one more at its end.
LEMMA SetOfAppend ==
  ASSUME NEW S, NEW s \in Seq(S), NEW x \in S
  PROVE  Range(Append(s, x)) = Range(s) \cup {x}
<1> DEFINE t == Append(s, x)
<1>1. Len(t) = Len(s) + 1 /\ t[Len(s) + 1] = x /\ \A i \in 1..Len(s) : t[i] = s[i]
  OBVIOUS
<1>2. \A y : y \in Range(s) <=> \E i \in 1..Len(s) : y = s[i]
  BY DEF Range
<1>3. \A y : y \in Range(t) <=> \E i \in 1..Len(t) : y = t[i]
  BY DEF Range
<1> HIDE DEF t
<1>4. \A i \in 1..Len(t) : i = Len(s) + 1 \/ i \in 1..Len(s)
  BY <1>1
<1>5. \A i \in 1..Len(s) : i \in 1..Len(t)
  BY <1>1
<1>6. Len(s) + 1 \in 1..Len(t)
  BY <1>1
<1>7. \A y : y \in Range(t) => y \in Range(s) \cup {x}
  BY <1>1, <1>2, <1>3, <1>4
<1>8. \A y : y \in Range(s) \cup {x} => y \in Range(t)
  BY <1>1, <1>2, <1>3, <1>5, <1>6
<1>9. Range(t) = Range(s) \cup {x}
  BY <1>7, <1>8, Zenon
<1> QED
  BY <1>9, Zenon DEF t

\* The state a free handler is in.
LEMMA FreeFacts == Free \in Handlers /\ Ready(Free) /\ Free.left = 0 /\ Free.pc = "free"
<1>1. <<>> \in Seq(Path) /\ <<>> \in Seq(Conn)
  OBVIOUS
<1> QED
  BY <1>1, Zenon DEF Free, Handlers, Ready, Pcs

\* A handler that has taken a line from its socket.
LEMMA DispatchSet ==
  ASSUME ShellTypes, NEW c \in Conn, dispatch_line(c)
  PROVE  \E r \in Handlers :
           /\ h' = [h EXCEPT ![c] = r] /\ Ready(r) /\ r.left = h[c].left
           /\ r.pc \in {"read", "vfs", "reply"} /\ r.targets = h[c].targets /\ r.dead = h[c].dead
<1> DEFINE cmd == in[c]
           r == CASE cmd.op = "BAD" -> [h[c] EXCEPT !.pc = "read"]
                  [] cmd.op = "MAKE" -> [h[c] EXCEPT !.pc = "vfs", !.rest = cmd.paths]
                  [] cmd.op = "RETRIEVE_FILE_STATUS" ->
                       [h[c] EXCEPT !.pc = "reply", !.msg = Status(resolve_file(cmd.paths[1]), cmd.paths[1])]
                  [] OTHER -> [h[c] EXCEPT !.pc = "reply", !.msg = Reply(cmd.op)]
<1>1. cmd \in Commands
  BY Zenon DEF dispatch_line, ShellTypes, ClientTypes
<1>2. h[c] \in Handlers
  BY Zenon DEF ShellTypes, HandlerTypes
<1>3. h' = [h EXCEPT ![c] = r]
  BY Zenon DEF dispatch_line
<1>4. \A p : resolve_file(p) \in Tags
  BY Zenon DEF resolve_file, Tags
<1> DEFINE Goal == /\ r \in Handlers /\ Ready(r) /\ r.left = h[c].left
                   /\ r.pc \in {"read", "vfs", "reply"} /\ r.targets = h[c].targets /\ r.dead = h[c].dead
<1> HIDE DEF cmd
<1>5. ASSUME cmd.op = "BAD" PROVE Goal
  <2>1. r = [h[c] EXCEPT !.pc = "read"]
    BY <1>5, Zenon
  <2> HIDE DEF r
  <2> QED
    BY <1>2, <2>1, Zenon DEF Handlers, Ready, Pcs
<1>6. ASSUME cmd.op = "MAKE" PROVE Goal
  <2>1. r = [h[c] EXCEPT !.pc = "vfs", !.rest = cmd.paths]
    BY <1>6, Zenon
  <2>2. cmd.paths \in Seq(Path) /\ cmd.paths # <<>>
    BY <1>1, <1>6, CommandFacts, Zenon
  <2> HIDE DEF r
  <2> QED
    BY <1>2, <2>1, <2>2, Zenon DEF Handlers, Ready, Pcs
<1>7. ASSUME cmd.op = "RETRIEVE_FILE_STATUS" PROVE Goal
  <2>1. r = [h[c] EXCEPT !.pc = "reply", !.msg = Status(resolve_file(cmd.paths[1]), cmd.paths[1])]
    BY <1>7, Zenon
  <2>2. Status(resolve_file(cmd.paths[1]), cmd.paths[1]) \in Statuses
    BY <1>1, <1>4, <1>7, CommandFacts, LineFacts, Zenon
  <2> HIDE DEF r
  <2> QED
    BY <1>2, <2>1, <2>2, LineFacts, Zenon DEF Handlers, Ready, Pcs
<1>8. ASSUME cmd.op \notin {"BAD", "MAKE", "RETRIEVE_FILE_STATUS"} PROVE Goal
  <2>1. r = [h[c] EXCEPT !.pc = "reply", !.msg = Reply(cmd.op)]
    BY <1>8, Zenon
  <2>2. Reply(cmd.op) \in Lines \ {Register}
    BY <1>1, <1>8, CommandFacts, LineFacts, Zenon
  <2> HIDE DEF r
  <2> QED
    BY <1>2, <2>1, <2>2, Zenon DEF Handlers, Ready, Pcs
<1>9. Goal
  BY <1>5, <1>6, <1>7, <1>8, ZenonT(60)
<1> HIDE DEF r
<1> QED
  BY <1>3, <1>9, Zenon

\* A handler that has hydrated a path has the broadcast before it.
LEMMA VfsSet ==
  ASSUME ShellTypes, NEW c \in Conn, Vfs(c)
  PROVE  LET p == Head(h[c].rest) IN
         \E tag \in VfsResult, r \in Handlers :
           /\ p \in Path /\ tag \in Tags
           /\ h' = [h EXCEPT ![c] = r] /\ Ready(r) /\ r.left = h[c].left
           /\ r.pc \in {"send", "vfs", "reply"} /\ (r.pc = "send" <=> members # <<>>)
           /\ r.pc = "send" => r.msg = Status(tag, p) /\ r.targets = members /\ r.dead = {}
           /\ r.pc # "send" => r.targets = <<>> /\ r.dead = {}
           /\ last' = [last EXCEPT ![p] = tag]
           /\ excused' = IF Underway(p) \/ listener \notin Range(members)
                         THEN excused \cup {p} ELSE excused \ {p}
<1> DEFINE p == Head(h[c].rest)
<1>1. h[c] \in Handlers /\ h[c].rest \in Seq(Path) /\ h[c].rest # <<>>
  BY Zenon DEF ShellTypes, HandlerTypes, Handlers, Ready, Vfs
<1>2. p \in Path /\ Tail(h[c].rest) \in Seq(Path)
  BY <1>1
<1>3. PICK tag \in VfsResult :
        /\ h' = [h EXCEPT ![c] =
             Sending([h[c] EXCEPT !.msg = Status(tag, p), !.rest = Tail(h[c].rest)], members, {})]
        /\ last' = [last EXCEPT ![p] = tag]
        /\ excused' = IF Underway(p) \/ listener \notin Range(members)
                      THEN excused \cup {p} ELSE excused \ {p}
  BY Zenon DEF Vfs
<1>4. tag \in Tags /\ Status(tag, p) \in Statuses
  BY <1>2, ShellAssumption, LineFacts, Zenon DEF Tags
<1> DEFINE q == [h[c] EXCEPT !.msg = Status(tag, p), !.rest = Tail(h[c].rest)]
           r == Sending(q, members, {})
<1>5. q \in Handlers /\ q.msg = Status(tag, p) /\ q.left = h[c].left
  BY <1>1, <1>2, <1>4, LineFacts, Zenon DEF Handlers
<1>6. members \in Seq(Conn) /\ {} \in SUBSET Conn
  BY Zenon DEF ShellTypes, ServerTypes
<1> HIDE DEF q
<1>7. /\ r \in Handlers /\ Ready(r) /\ r.left = q.left
      /\ r.pc \in {"send", "vfs", "reply"} /\ (r.pc = "send" <=> members # <<>>)
      /\ r.pc = "send" => r.msg = q.msg /\ r.targets = members /\ r.dead = {}
      /\ r.pc # "send" => r.targets = <<>> /\ r.dead = {}
  BY <1>4, <1>5, <1>6, SendingSet, Zenon
<1>8. h' = [h EXCEPT ![c] = r]
  BY <1>3, Zenon DEF q
<1> HIDE DEF r
<1> QED
  BY <1>2, <1>3, <1>4, <1>5, <1>7, <1>8, Zenon

\* A handler after one send of its broadcast.
LEMMA SentSet ==
  ASSUME ShellTypes, NEW c \in Conn, h[c].pc = "send", NEW dead \in SUBSET Conn, Sent(c, dead)
  PROVE  LET targets == Tail(h[c].targets) IN
         /\ targets \in Seq(Conn) /\ Head(h[c].targets) \in Conn
         /\ Range(h[c].targets) = Range(targets) \cup {Head(h[c].targets)}
         /\ members' = IF targets = <<>> THEN Without(members, dead) ELSE members
         /\ \E r \in Handlers :
              /\ h' = [h EXCEPT ![c] = r] /\ Ready(r) /\ r.left = h[c].left
              /\ r.pc \in {"send", "vfs", "reply"} /\ (r.pc = "send" <=> targets # <<>>)
              /\ r.pc = "send" => r.msg = h[c].msg /\ r.targets = targets /\ r.dead = dead
              /\ r.pc # "send" => r.targets = <<>> /\ r.dead = {}
<1> DEFINE targets == Tail(h[c].targets)
           r == Sending(h[c], targets, dead)
<1>1. h[c] \in Handlers /\ h[c].msg \in Statuses /\ h[c].targets \in Seq(Conn) /\ h[c].targets # <<>>
  BY Zenon DEF ShellTypes, HandlerTypes, Handlers, Ready
<1>2. targets \in Seq(Conn) /\ Head(h[c].targets) \in Conn
  BY <1>1
<1>3. Range(h[c].targets) = Range(targets) \cup {Head(h[c].targets)}
  BY <1>1, SetOfTail, Zenon
<1>4. members' = (IF targets = <<>> THEN Without(members, dead) ELSE members) /\ h' = [h EXCEPT ![c] = r]
  BY Zenon DEF Sent
<1> HIDE DEF targets
<1>5. /\ r \in Handlers /\ Ready(r) /\ r.left = h[c].left
      /\ r.pc \in {"send", "vfs", "reply"} /\ (r.pc = "send" <=> targets # <<>>)
      /\ r.pc = "send" => r.msg = h[c].msg /\ r.targets = targets /\ r.dead = dead
      /\ r.pc # "send" => r.targets = <<>> /\ r.dead = {}
  BY <1>1, <1>2, SendingSet, Zenon
<1> HIDE DEF r
<1> QED
  BY <1>2, <1>3, <1>4, <1>5, Zenon DEF targets

\* What one send of a broadcast finds.
LEMMA SendDead ==
  ASSUME ShellTypes, NEW c \in Conn, Send(c)
  PROVE  LET t == Head(h[c].targets) IN
         \E dead \in SUBSET Conn :
           /\ Sent(c, dead) /\ t \in Conn
           /\ \/ /\ Receives(t) /\ Len(channel[t]) < Capacity /\ dead = h[c].dead
                 /\ channel' = [channel EXCEPT ![t] = Append(@, h[c].msg)]
              \/ /\ ~Receives(t) /\ dead = h[c].dead \cup {t} /\ channel' = channel
<1> DEFINE t == Head(h[c].targets)
<1>1. h[c].dead \in SUBSET Conn /\ h[c].targets \in Seq(Conn) /\ h[c].targets # <<>>
  BY Zenon DEF ShellTypes, HandlerTypes, Handlers, Ready, Send
<1>2. t \in Conn
  BY <1>1
<1>3. h[c].dead \cup {t} \in SUBSET Conn
  BY <1>1, <1>2, ZenonT(60)
<1>4. \/ /\ Receives(t) /\ Len(channel[t]) < Capacity
         /\ channel' = [channel EXCEPT ![t] = Append(@, h[c].msg)]
         /\ Sent(c, h[c].dead)
      \/ ~Receives(t) /\ Sent(c, h[c].dead \cup {t}) /\ channel' = channel
  BY Zenon DEF Send
<1> HIDE DEF t
<1>5. \E dead \in SUBSET Conn :
           /\ Sent(c, dead) /\ t \in Conn
           /\ \/ /\ Receives(t) /\ Len(channel[t]) < Capacity /\ dead = h[c].dead
                 /\ channel' = [channel EXCEPT ![t] = Append(@, h[c].msg)]
              \/ /\ ~Receives(t) /\ dead = h[c].dead \cup {t} /\ channel' = channel
  BY <1>1, <1>2, <1>3, <1>4, Zenon
<1> QED
  BY <1>5, Zenon DEF t

\* A new connection is one that nothing in the daemon refers to.
LEMMA ConnectSet ==
  ASSUME ShellTypes, NEW c \in Conn, NEW cmd, Connect(c, cmd)
  PROVE  /\ up /\ c \notin Held /\ h[c].pc = "free" /\ in' = [in EXCEPT ![c] = cmd]
         /\ \A d \in Conn : c \notin Range(h[d].targets) /\ c \notin h[d].dead
         /\ \E r \in Handlers : /\ h' = [h EXCEPT ![c] = r] /\ Ready(r) /\ r.left = 0
                                /\ r.pc = "accepting" /\ r.targets = <<>> /\ r.dead = {}
<1>1. c \in Unused
  BY ZenonT(60) DEF Connect
<1>2. h[c] = Free
  BY <1>1, Zenon DEF Unused, ShellTypes, HandlerTypes, Ready
<1> DEFINE r == [Free EXCEPT !.pc = "accepting"]
<1>3. /\ r \in Handlers /\ Ready(r) /\ r.left = 0 /\ r.pc = "accepting"
      /\ r.targets = <<>> /\ r.dead = {}
  BY FreeFacts, Zenon DEF Free, Handlers, Ready, Pcs
<1>4. h' = [h EXCEPT ![c] = [h[c] EXCEPT !.pc = "accepting"]]
  BY Zenon DEF Connect
<1>5. h' = [h EXCEPT ![c] = r]
  BY <1>2, <1>4, Zenon
<1> HIDE DEF r
<1>6. \E q \in Handlers : /\ h' = [h EXCEPT ![c] = q] /\ Ready(q) /\ q.left = 0
                          /\ q.pc = "accepting" /\ q.targets = <<>> /\ q.dead = {}
  BY <1>3, <1>5, Zenon
<1> QED
  BY <1>1, <1>6, Zenon DEF Unused, Connect

\* WriteReply as a step of one handler.
LEMMA WriteReplySet ==
  ASSUME ShellTypes, NEW c \in Conn, WriteReply(c)
  PROVE  \E r \in Handlers :
           /\ h' = [h EXCEPT ![c] = r] /\ Ready(r) /\ r.left <= roots
           /\ \/ c \in closed /\ r = Free /\ End(c) /\ out' = out
              \/ /\ c \notin closed /\ Room(c) /\ r.pc = "read"
                 /\ r.targets = h[c].targets /\ r.dead = h[c].dead
                 /\ out' = [out EXCEPT ![c] = Append(@, h[c].msg)]
                 /\ members' = members /\ channel' = channel /\ writer' = writer /\ closed' = closed
<1>1. CASE c \in closed /\ End(c) /\ out' = out
  <2>1. h' = [h EXCEPT ![c] = Free] /\ roots \in Nat
    BY <1>1, Zenon DEF End, ShellTypes, ServerTypes
  <2>2. Free \in Handlers /\ Ready(Free) /\ Free.left <= roots
    BY <2>1, FreeFacts
  <2> QED
    BY <1>1, <2>1, <2>2, ZenonT(60)
<1>2. CASE /\ c \notin closed /\ Room(c)
           /\ out' = [out EXCEPT ![c] = Append(@, h[c].msg)]
           /\ h' = [h EXCEPT ![c].pc = "read", ![c].msg = None]
           /\ members' = members /\ channel' = channel /\ writer' = writer /\ closed' = closed
  <2>1. h \in [Conn -> Handlers] /\ h[c] \in Handlers /\ h[c].left <= roots
    BY Zenon DEF ShellTypes, HandlerTypes
  <2> DEFINE r == [h[c] EXCEPT !.pc = "read", !.msg = None]
  <2>2. r \in Handlers /\ Ready(r) /\ r.left <= roots /\ r.pc = "read"
        /\ r.targets = h[c].targets /\ r.dead = h[c].dead
    BY <2>1, Zenon DEF Handlers, Ready, Pcs
  <2>3. h' = [h EXCEPT ![c] = r]
    BY <1>2, <2>1, Zenon
  <2> HIDE DEF r
  <2> QED
    BY <1>2, <2>2, <2>3, Zenon
<1> QED
  BY <1>1, <1>2, Zenon DEF WriteReply

\* A failed accept, connection by connection: who waited for it is refused.
LEMMA RefusedSet ==
  ASSUME ShellTypes, AcceptFails
  PROVE  /\ \A c \in Conn : \/ /\ h[c].pc = "accepting" /\ h'[c] = Free /\ channel'[c] = <<>>
                              /\ in'[c] = None /\ c \notin closed'
                           \/ /\ h[c].pc # "accepting" /\ h'[c] = h[c] /\ channel'[c] = channel[c]
                              /\ in'[c] = in[c] /\ (c \in closed' <=> c \in closed)
         /\ h' \in [Conn -> Handlers] /\ channel' \in [Conn -> Seq(Statuses)]
         /\ in' \in [Conn -> Commands \cup {None}] /\ closed' \subseteq closed
         /\ UNCHANGED <<roots, members, writer, out, call, listener, shown, last>>
<1> DEFINE refused == {c \in Conn : h[c].pc = "accepting"}
<1>1. /\ h' = [c \in Conn |-> IF c \in refused THEN Free ELSE h[c]]
      /\ channel' = [c \in Conn |-> IF c \in refused THEN <<>> ELSE channel[c]]
      /\ in' = [c \in Conn |-> IF c \in refused THEN None ELSE in[c]]
      /\ closed' = closed \ refused
      /\ UNCHANGED <<roots, members, writer, out, call, listener, shown, last>>
  BY Zenon DEF AcceptFails, service
<1>2. /\ h \in [Conn -> Handlers] /\ Free \in Handlers
      /\ channel \in [Conn -> Seq(Statuses)] /\ in \in [Conn -> Commands \cup {None}]
  BY FreeFacts, Zenon DEF ShellTypes, HandlerTypes, QueueTypes, ChannelTypes, ClientTypes
<1>3. <<>> \in Seq(Statuses)
  OBVIOUS
<1>4. \A c \in Conn : c \in refused <=> h[c].pc = "accepting"
  BY Zenon
<1> HIDE DEF refused
<1>5. h' \in [Conn -> Handlers] /\ channel' \in [Conn -> Seq(Statuses)]
      /\ in' \in [Conn -> Commands \cup {None}] /\ closed' \subseteq closed
  BY <1>1, <1>2, <1>3, Zenon
<1>6. ASSUME NEW c \in Conn
      PROVE  \/ /\ h[c].pc = "accepting" /\ h'[c] = Free /\ channel'[c] = <<>>
                /\ in'[c] = None /\ c \notin closed'
             \/ /\ h[c].pc # "accepting" /\ h'[c] = h[c] /\ channel'[c] = channel[c]
                /\ in'[c] = in[c] /\ (c \in closed' <=> c \in closed)
  <2>1. CASE c \in refused
    BY <1>1, <1>4, <2>1, Zenon
  <2>2. CASE c \notin refused
    BY <1>1, <1>4, <2>2, Zenon
  <2> QED
    BY <2>1, <2>2, Zenon
<1> QED
  BY <1>1, <1>5, <1>6, Zenon

\* Every step leaves the handlers well formed.
LEMMA HandlerTypesStep ==
  ASSUME ShellTypes, [Next]_vars
  PROVE  HandlerTypes'
<1> USE DEF ShellTypes
<1>0. roots \in Nat /\ h \in [Conn -> Handlers] /\ \A c \in Conn : h[c].left \in Nat /\ h[c].left <= roots
  BY Zenon DEF ServerTypes, HandlerTypes, Handlers
<1>1. ASSUME NEW c \in Conn, Accept(c) PROVE HandlerTypes'
  <2>1. roots <= roots /\ roots' = roots /\ Spawned(c, roots)
    BY <1>0, <1>1 DEF Accept
  <2> QED
    BY <1>0, <2>1, SpawnedSet, Zenon
<1>2. ASSUME NEW c \in Conn, register(c) PROVE HandlerTypes'
  <2>1. h[c].left > 0
    BY <1>2, Zenon DEF HandlerTypes, Ready, register
  <2>2. h[c].left - 1 \in Nat /\ h[c].left - 1 <= roots /\ 0 <= roots
    BY <1>0, <2>1
  <2>3. roots' = roots /\ (Spawned(c, h[c].left - 1) \/ Spawned(c, 0))
    BY <1>2, Zenon DEF register
  <2>4. CASE Spawned(c, h[c].left - 1)
    BY <1>0, <2>2, <2>3, <2>4, SpawnedSet, Zenon
  <2>5. CASE Spawned(c, 0)
    BY <1>0, <2>2, <2>3, <2>5, SpawnedSet, Zenon
  <2> QED
    BY <2>3, <2>4, <2>5, Zenon
<1>3. ASSUME NEW c \in Conn, WriteTask(c) PROVE HandlerTypes'
  BY <1>3, Zenon DEF WriteTask, HandlerTypes
<1>4. ASSUME NEW c \in Conn, dispatch_line(c) PROVE HandlerTypes'
  <2>1. PICK r \in Handlers : h' = [h EXCEPT ![c] = r] /\ Ready(r) /\ r.left = h[c].left
    BY <1>4, DispatchSet, Zenon
  <2> QED
    BY <1>0, <1>4, <2>1, HandlerSet, Zenon DEF dispatch_line
<1>5. ASSUME NEW c \in Conn, Vfs(c) PROVE HandlerTypes'
  <2>1. PICK r \in Handlers : h' = [h EXCEPT ![c] = r] /\ Ready(r) /\ r.left = h[c].left
    BY <1>5, VfsSet, Zenon
  <2> QED
    BY <1>0, <1>5, <2>1, HandlerSet, Zenon DEF Vfs
<1>6. ASSUME NEW c \in Conn, Send(c) PROVE HandlerTypes'
  <2>1. PICK dead \in SUBSET Conn : Sent(c, dead)
    BY <1>6, SendDead, Zenon
  <2>2. PICK r \in Handlers : h' = [h EXCEPT ![c] = r] /\ Ready(r) /\ r.left = h[c].left
    BY <1>6, <2>1, SentSet, Zenon DEF Send
  <2> QED
    BY <1>0, <1>6, <2>2, HandlerSet, Zenon DEF Send
<1>7. ASSUME NEW c \in Conn, WriteReply(c) PROVE HandlerTypes'
  <2>1. PICK r \in Handlers : h' = [h EXCEPT ![c] = r] /\ Ready(r) /\ r.left <= roots
    BY <1>7, WriteReplySet, Zenon
  <2> QED
    BY <1>7, <2>1, HandlerSet, Zenon DEF WriteReply
<1>8. ASSUME NEW c \in Conn, EndOfInput(c) PROVE HandlerTypes'
  <2>1. Free \in Handlers /\ Ready(Free) /\ Free.left <= roots
    BY <1>0, FreeFacts
  <2>2. h' = [h EXCEPT ![c] = Free] /\ roots' = roots
    BY <1>8, Zenon DEF EndOfInput, End
  <2> QED
    BY <2>1, <2>2, HandlerSet, Zenon
<1>9. ASSUME NEW c \in Conn, NEW cmd, Connect(c, cmd), roots' = roots PROVE HandlerTypes'
  <2>1. PICK r \in Handlers : h' = [h EXCEPT ![c] = r] /\ Ready(r) /\ r.left = 0
    BY <1>9, ConnectSet, Zenon
  <2>2. r.left <= roots
    BY <1>0, <2>1
  <2> QED
    BY <1>9, <2>1, <2>2, HandlerSet, Zenon
<1>10. ASSUME NEW k \in Caller, Call(k) PROVE HandlerTypes'
  BY <1>9, <1>10, Zenon DEF Call
<1>11. ASSUME NEW k \in Caller, ReadLine(k) PROVE HandlerTypes'
  BY <1>11, Zenon DEF ReadLine, daemon, HandlerTypes
<1>12. CASE ListenerConnects
  BY <1>9, <1>12, Zenon DEF ListenerConnects
<1>13. CASE read_broadcast
  BY <1>13, Zenon DEF read_broadcast, daemon, HandlerTypes
<1>14. CASE Stops
  BY <1>0, <1>14, FreeFacts DEF Stops, HandlerTypes
<1>15. CASE Starts
  <2>1. \A c \in Conn : h[c].left = 0
    BY <1>15, FreeFacts, Zenon DEF Starts, HandlerTypes, Ready
  <2>2. h' = h /\ roots' \in Nat
    BY <1>15, ShellAssumption, Zenon DEF Starts
  <2> QED
    BY <2>1, <2>2 DEF HandlerTypes
<1>16. CASE UNCHANGED vars
  BY <1>16, Zenon DEF vars, daemon, HandlerTypes
<1>17. CASE AcceptFails
  <2>1. Ready(Free) /\ Free.left <= roots
    BY <1>0, FreeFacts
  <2> QED
    BY <1>17, <2>1, RefusedSet, Zenon DEF HandlerTypes
<1> QED
  BY <1>1, <1>2, <1>3, <1>4, <1>5, <1>6, <1>7, <1>8, <1>10, <1>11, <1>12, <1>13, <1>14,
     <1>15, <1>16, <1>17, SMTT(30) DEF Next, Server

\* A queue with one line more, one less, or emptied.
LEMMA LineAdded ==
  ASSUME NEW S, NEW q \in [Conn -> Seq(S)], NEW c \in Conn, NEW l \in S, NEW n \in Nat,
         \A d \in Conn : Len(q[d]) <= n, Len(q[c]) < n
  PROVE  LET r == [q EXCEPT ![c] = Append(@, l)] IN
         r \in [Conn -> Seq(S)] /\ \A d \in Conn : Len(r[d]) <= n
<1>1. Append(q[c], l) \in Seq(S) /\ Len(Append(q[c], l)) = Len(q[c]) + 1 /\ Len(q[c]) \in Nat
  OBVIOUS
<1>2. Len(Append(q[c], l)) <= n
  BY <1>1
<1> QED
  BY <1>1, <1>2, Zenon

\* Taking the first line of one queue keeps the type and the bound of all.
LEMMA LineTaken ==
  ASSUME NEW S, NEW q \in [Conn -> Seq(S)], NEW c \in Conn, q[c] # <<>>, NEW n \in Nat,
         \A d \in Conn : Len(q[d]) <= n
  PROVE  LET r == [q EXCEPT ![c] = Tail(@)] IN
         r \in [Conn -> Seq(S)] /\ (\A d \in Conn : Len(r[d]) <= n) /\ Head(q[c]) \in S
<1>1. Tail(q[c]) \in Seq(S) /\ Len(Tail(q[c])) = Len(q[c]) - 1 /\ Len(q[c]) \in Nat /\ Head(q[c]) \in S
  OBVIOUS
<1>2. Len(Tail(q[c])) <= n
  BY <1>1
<1> QED
  BY <1>1, <1>2, Zenon

\* So does dropping all the lines of one queue.
LEMMA LinesDropped ==
  ASSUME NEW S, NEW q \in [Conn -> Seq(S)], NEW c \in Conn, NEW n \in Nat,
         \A d \in Conn : Len(q[d]) <= n
  PROVE  LET r == [q EXCEPT ![c] = <<>>] IN
         r \in [Conn -> Seq(S)] /\ \A d \in Conn : Len(r[d]) <= n
<1>1. <<>> \in Seq(S) /\ Len(<<>>) <= n
  OBVIOUS
<1> QED
  BY <1>1, Zenon

\* Every step keeps the channels and the sockets within their bounds.
LEMMA QueueTypesStep ==
  ASSUME ShellTypes, [Next]_vars
  PROVE  QueueTypes'
<1> SUFFICES ChannelTypes' /\ SocketTypes'
  BY Zenon DEF QueueTypes
<1>0. /\ ChannelTypes /\ SocketTypes /\ h \in [Conn -> Handlers] /\ Capacity \in Nat /\ SocketRoom \in Nat
      /\ \A c \in Conn : Ready(h[c])
  BY ShellAssumption, Zenon DEF ShellTypes, HandlerTypes, QueueTypes
<1>1. channel' = channel => ChannelTypes'
  BY <1>0, Zenon DEF ChannelTypes
<1>2. out' = out => SocketTypes'
  BY <1>0, Zenon DEF SocketTypes
<1>3. ASSUME NEW c \in Conn, channel' = [channel EXCEPT ![c] = <<>>] PROVE ChannelTypes'
  BY <1>0, <1>3, LinesDropped, Zenon DEF ChannelTypes
<1>4. ASSUME NEW c \in Conn, NEW l \in Lines, Room(c), out' = [out EXCEPT ![c] = Append(@, l)]
      PROVE  SocketTypes'
  BY <1>0, <1>4, LineAdded, Zenon DEF SocketTypes, Room
<1>5. ASSUME NEW c \in Conn, Accept(c) \/ dispatch_line(c) \/ Vfs(c) PROVE ChannelTypes' /\ SocketTypes'
  BY <1>1, <1>2, <1>5, Zenon DEF Accept, dispatch_line, Vfs, socket
<1>6. ASSUME NEW c \in Conn, register(c) PROVE ChannelTypes' /\ SocketTypes'
  BY <1>1, <1>2, <1>4, <1>6, LineFacts, Zenon DEF register
<1>7. ASSUME NEW c \in Conn, WriteTask(c) PROVE ChannelTypes' /\ SocketTypes'
  <2>1. channel[c] # <<>>
    BY <1>7, Zenon DEF WriteTask
  <2>2. CASE c \in closed
    BY <1>2, <1>3, <1>7, <2>2, Zenon DEF WriteTask
  <2>3. CASE c \notin closed
    <3>1. /\ Room(c) /\ out' = [out EXCEPT ![c] = Append(@, Head(channel[c]))]
          /\ channel' = [channel EXCEPT ![c] = Tail(@)]
      BY <1>7, <2>3, Zenon DEF WriteTask
    <3>2. ChannelTypes' /\ Head(channel[c]) \in Statuses
      BY <1>0, <2>1, <3>1, LineTaken, Zenon DEF ChannelTypes
    <3>3. Head(channel[c]) \in Lines
      BY <3>2, LineFacts, Zenon
    <3> QED
      BY <1>4, <3>1, <3>2, <3>3, Zenon
  <2> QED
    BY <2>2, <2>3, Zenon
<1>8. ASSUME NEW c \in Conn, Send(c) PROVE ChannelTypes' /\ SocketTypes'
  <2> DEFINE t == Head(h[c].targets)
  <2>1. t \in Conn
    BY <1>8, SendDead, Zenon
  <2>2. out' = out /\ h[c].msg \in Statuses
    BY <1>0, <1>8, Zenon DEF Send, socket, Ready
  <2>3. \/ Len(channel[t]) < Capacity /\ channel' = [channel EXCEPT ![t] = Append(@, h[c].msg)]
        \/ channel' = channel
    BY <1>8, Zenon DEF Send
  <2> HIDE DEF t
  <2> QED
    <3>1. ASSUME Len(channel[t]) < Capacity, channel' = [channel EXCEPT ![t] = Append(@, h[c].msg)]
          PROVE  ChannelTypes'
      BY <1>0, <2>1, <2>2, <3>1, LineAdded, Zenon DEF ChannelTypes
    <3> QED
      BY <1>1, <1>2, <2>2, <2>3, <3>1, Zenon
<1>9. ASSUME NEW c \in Conn, WriteReply(c) PROVE ChannelTypes' /\ SocketTypes'
  <2>1. h[c].msg \in Lines
    BY <1>0, <1>9, Zenon DEF Ready, WriteReply
  <2>2. CASE c \in closed
    BY <1>2, <1>3, <1>9, <2>2, Zenon DEF WriteReply, End
  <2>3. CASE c \notin closed
    BY <1>1, <1>4, <1>9, <2>1, <2>3, Zenon DEF WriteReply
  <2> QED
    BY <2>2, <2>3
<1>10. ASSUME NEW c \in Conn, EndOfInput(c) PROVE ChannelTypes' /\ SocketTypes'
  BY <1>2, <1>3, <1>10, Zenon DEF EndOfInput, End
<1>11. ASSUME NEW k \in Caller, Call(k) PROVE ChannelTypes' /\ SocketTypes'
  BY <1>1, <1>2, <1>11, Zenon DEF Call
<1>12. ASSUME NEW k \in Caller, ReadLine(k) PROVE ChannelTypes' /\ SocketTypes'
  <2>1. channel' = channel /\ call[k].conn \in Conn
    BY <1>12, Zenon DEF ReadLine, daemon, ShellTypes, ClientTypes, Calls
  <2>2. out' = out \/ out' = [out EXCEPT ![call[k].conn] = <<>>]
    BY <1>12, Zenon DEF ReadLine
  <2> QED
    <3>1. ASSUME out' = [out EXCEPT ![call[k].conn] = <<>>] PROVE SocketTypes'
      BY <1>0, <2>1, <3>1, LinesDropped, Zenon DEF SocketTypes
    <3> QED
      BY <1>1, <1>2, <2>1, <2>2, <3>1, Zenon
<1>13. CASE ListenerConnects
  BY <1>1, <1>2, <1>13, Zenon DEF ListenerConnects
<1>14. CASE read_broadcast
  <2>1. channel' = channel /\ listener \in Conn
    BY <1>14, Zenon DEF read_broadcast, daemon, ShellTypes, ClientTypes
  <2>2. out' = out \/ (out[listener] # <<>> /\ out' = [out EXCEPT ![listener] = Tail(@)])
    BY <1>14, Zenon DEF read_broadcast
  <2> QED
    <3>1. ASSUME out[listener] # <<>>, out' = [out EXCEPT ![listener] = Tail(@)] PROVE SocketTypes'
      BY <1>0, <2>1, <3>1, LineTaken, Zenon DEF SocketTypes
    <3> QED
      BY <1>1, <1>2, <2>1, <2>2, <3>1, Zenon
<1>15. CASE Stops
  <2>1. /\ channel' = [c \in Conn |-> <<>>]
        /\ out' = [c \in Conn |-> IF c \in Held THEN out[c] ELSE <<>>]
    BY <1>15, Zenon DEF Stops
  <2>2. <<>> \in Seq(Statuses) /\ <<>> \in Seq(Lines) /\ Len(<<>>) <= Capacity /\ Len(<<>>) <= SocketRoom
    BY <1>0
  <2>3. ChannelTypes'
    BY <2>1, <2>2, Zenon DEF ChannelTypes
  <2>4. SocketTypes'
    BY <1>0, <2>1, <2>2, Zenon DEF SocketTypes
  <2> QED
    BY <2>3, <2>4, Zenon
<1>16. CASE Starts \/ UNCHANGED vars
  BY <1>1, <1>2, <1>16, Zenon DEF Starts, vars, daemon, socket
<1>17. CASE AcceptFails
  <2>1. Len(<<>>) <= Capacity /\ out' = out
    BY <1>0, <1>17, RefusedSet
  <2>2. ChannelTypes'
    BY <1>17, <2>1, RefusedSet, Zenon DEF ShellTypes, QueueTypes, ChannelTypes
  <2> QED
    BY <1>2, <2>1, <2>2, Zenon
<1> QED
  BY <1>5, <1>6, <1>7, <1>8, <1>9, <1>10, <1>11, <1>12, <1>13, <1>14, <1>15, <1>16, <1>17, ZenonT(60)
    DEF Next, Server

\* A new connection at the end of the list.
LEMMA MemberAdded ==
  ASSUME NEW s \in Seq(Conn), IsInjective(s), NEW c \in Conn, c \notin Range(s)
  PROVE  /\ Append(s, c) \in Seq(Conn) /\ IsInjective(Append(s, c))
         /\ Range(Append(s, c)) = Range(s) \cup {c}
<1> DEFINE t == Append(s, c)
<1>1. /\ t \in Seq(Conn) /\ DOMAIN t = 1..(Len(s) + 1) /\ t[Len(s) + 1] = c
      /\ \A i \in 1..Len(s) : t[i] = s[i]
  OBVIOUS
<1>2. \A i \in 1..Len(s) : s[i] # c
  BY DEF Range
<1>3. \A i, j \in 1..Len(s) : s[i] = s[j] => i = j
  BY DEF IsInjective
<1> HIDE DEF t
<1>4. \A i \in 1..(Len(s) + 1) : i = Len(s) + 1 \/ i \in 1..Len(s)
  OBVIOUS
<1>5. \A i, j \in DOMAIN t : t[i] = t[j] => i = j
  BY <1>1, <1>2, <1>3, <1>4, Zenon
<1>6. t \in Seq(Conn) /\ IsInjective(t)
  BY <1>1, <1>5, Zenon DEF IsInjective
<1> QED
  BY <1>6, SetOfAppend DEF t

\* The list a broadcast leaves: the connections it found dead are gone.
LEMMA SentMembers ==
  ASSUME ShellTypes, NEW c \in Conn, h[c].pc = "send", NEW dead \in SUBSET Conn, Sent(c, dead)
  PROVE  /\ members' \in Seq(Conn) /\ IsInjective(members')
         /\ Range(members') \subseteq Range(members) /\ Range(members) \ dead \subseteq Range(members')
<1>1. members \in Seq(Conn) /\ IsInjective(members)
  BY Zenon DEF ShellTypes, ServerTypes
<1>2. members' = members \/ members' = Without(members, dead)
  BY Zenon DEF Sent
<1>3. CASE members' = members
  BY <1>1, <1>3, Zenon
<1>4. CASE members' = Without(members, dead)
  <2>1. Without(members, dead) \in Seq(Conn) /\ IsInjective(Without(members, dead))
        /\ Range(Without(members, dead)) = Range(members) \ dead
    BY <1>1, Retained, Zenon
  <2> QED
    BY <1>4, <2>1, Zenon
<1> QED
  BY <1>2, <1>3, <1>4, Zenon

\* The list after a connection has ended.
LEMMA EndMembers ==
  ASSUME ShellTypes, NEW c \in Conn, End(c)
  PROVE  /\ members' \in Seq(Conn) /\ IsInjective(members')
         /\ Range(members') = Range(members) \ {c}
<1>1. members \in Seq(Conn) /\ IsInjective(members)
  BY Zenon DEF ShellTypes, ServerTypes
<1> QED
  BY <1>1, Retained, Zenon DEF End

\* Every step keeps the connection list without duplicates and with none that no
\* handler serves.
LEMMA MembersStep ==
  ASSUME ShellTypes, MembersServed, [Next]_vars
  PROVE  members' \in Seq(Conn) /\ IsInjective(members') /\ MembersServed'
<1> DEFINE Goal == members' \in Seq(Conn) /\ IsInjective(members') /\ MembersServed'
<1> SUFFICES Goal
  BY Zenon
<1>0. /\ members \in Seq(Conn) /\ IsInjective(members) /\ h \in [Conn -> Handlers]
      /\ Range(members) \subseteq Conn
  BY DEF ShellTypes, ServerTypes, HandlerTypes, Range
<1>1. ASSUME NEW c \in Conn, NEW r \in Handlers, h' = [h EXCEPT ![c] = r],
             members' \in Seq(Conn), IsInjective(members'), Range(members') \subseteq Range(members),
             r.pc \notin {"free", "accepting"} \/ c \notin Range(members')
      PROVE  Goal
  <2>1. \A d \in Conn : h'[d] = IF d = c THEN r ELSE h[d]
    BY <1>0, <1>1, Zenon
  <2>2. ASSUME NEW d \in Range(members') PROVE h'[d].pc \notin {"free", "accepting"}
    BY <1>0, <1>1, <2>1, <2>2, Zenon DEF MembersServed
  <2> QED
    BY <1>1, <2>2, Zenon DEF MembersServed
<1>2. ASSUME h' = h, members' = members PROVE Goal
  BY <1>0, <1>2, Zenon DEF MembersServed
<1> HIDE DEF Goal
<1>3. ASSUME NEW c \in Conn, Accept(c) PROVE Goal
  <2>1. c \notin Range(members)
    BY <1>3, Zenon DEF Accept, MembersServed
  <2>2. members' = Append(members, c) /\ Spawned(c, roots) /\ roots' = roots
    BY <1>3, Zenon DEF Accept
  <2>3. members' \in Seq(Conn) /\ IsInjective(members') /\ Range(members') = Range(members) \cup {c}
    BY <1>0, <2>1, <2>2, MemberAdded, Zenon
  <2>4. h[c] \in Handlers
    BY <1>0, Zenon
  <2>5. h'[c].pc \in {"read", "register"} /\ \A d \in Conn \ {c} : h'[d] = h[d]
    BY <1>0, <2>2, <2>4, Zenon DEF Spawned, Handlers
  <2>6. ASSUME NEW d \in Range(members') PROVE h'[d].pc \notin {"free", "accepting"}
    BY <1>0, <2>3, <2>5, <2>6, Zenon DEF MembersServed
  <2> QED
    BY <2>3, <2>6, Zenon DEF Goal, MembersServed
<1>4. ASSUME NEW c \in Conn, register(c) PROVE Goal
  <2>1. members' = members
    BY <1>4, Zenon DEF register
  <2>2. PICK left : h' = [h EXCEPT ![c].pc = IF left = 0 THEN "read" ELSE "register", ![c].left = left]
    BY <1>4, Zenon DEF register, Spawned
  <2>3. h[c] \in Handlers
    BY <1>0
  <2>4. h'[c].pc \in {"read", "register"} /\ \A d \in Conn \ {c} : h'[d] = h[d]
    BY <1>0, <2>2, <2>3, Zenon DEF Handlers
  <2>5. ASSUME NEW d \in Range(members') PROVE h'[d].pc \notin {"free", "accepting"}
    BY <1>0, <2>1, <2>4, <2>5, Zenon DEF MembersServed
  <2> QED
    BY <1>0, <2>1, <2>5, Zenon DEF Goal, MembersServed
<1>5. ASSUME NEW c \in Conn, WriteTask(c) PROVE Goal
  BY <1>2, <1>5, Zenon DEF WriteTask
<1>6. ASSUME NEW c \in Conn, dispatch_line(c) PROVE Goal
  <2>1. PICK r \in Handlers : h' = [h EXCEPT ![c] = r] /\ r.pc \in {"read", "vfs", "reply"}
    BY <1>6, DispatchSet, Zenon
  <2>2. members' = members
    BY <1>6, Zenon DEF dispatch_line
  <2> QED
    BY <1>0, <1>1, <2>1, <2>2, Zenon
<1>7. ASSUME NEW c \in Conn, Vfs(c) PROVE Goal
  <2>1. PICK r \in Handlers : h' = [h EXCEPT ![c] = r] /\ r.pc \in {"send", "vfs", "reply"}
    BY <1>7, VfsSet, Zenon
  <2>2. members' = members
    BY <1>7, Zenon DEF Vfs
  <2> QED
    BY <1>0, <1>1, <2>1, <2>2, Zenon
<1>8. ASSUME NEW c \in Conn, Send(c) PROVE Goal
  <2>1. PICK dead \in SUBSET Conn : Sent(c, dead)
    BY <1>8, SendDead, Zenon
  <2>2. h[c].pc = "send"
    BY <1>8, Zenon DEF Send
  <2>3. PICK r \in Handlers : h' = [h EXCEPT ![c] = r] /\ r.pc \in {"send", "vfs", "reply"}
    BY <2>1, <2>2, SentSet, Zenon
  <2>4. members' \in Seq(Conn) /\ IsInjective(members') /\ Range(members') \subseteq Range(members)
    BY <2>1, <2>2, SentMembers, Zenon
  <2> QED
    BY <1>1, <2>3, <2>4, Zenon
<1>9. ASSUME NEW c \in Conn, End(c) PROVE Goal
  <2>1. /\ members' \in Seq(Conn) /\ IsInjective(members')
        /\ Range(members') = Range(members) \ {c}
    BY <1>9, EndMembers, Zenon
  <2>2. h' = [h EXCEPT ![c] = Free] /\ Free \in Handlers
    BY <1>9, FreeFacts, Zenon DEF End
  <2> QED
    BY <1>1, <2>1, <2>2, Zenon
<1>10. ASSUME NEW c \in Conn, WriteReply(c) PROVE Goal
  <2>1. PICK r \in Handlers : h' = [h EXCEPT ![c] = r] /\ (End(c) \/ (r.pc = "read" /\ members' = members))
    BY <1>10, WriteReplySet, Zenon
  <2> QED
    BY <1>0, <1>1, <1>9, <2>1, Zenon
<1>11. ASSUME NEW c \in Conn, EndOfInput(c) PROVE Goal
  BY <1>9, <1>11, Zenon DEF EndOfInput
<1>12. ASSUME NEW c \in Conn, NEW cmd, Connect(c, cmd), members' = members PROVE Goal
  <2>1. PICK r \in Handlers : h' = [h EXCEPT ![c] = r] /\ h[c].pc = "free"
    BY <1>12, ConnectSet, Zenon
  <2>2. c \notin Range(members)
    BY <2>1, Zenon DEF MembersServed
  <2> QED
    BY <1>0, <1>1, <1>12, <2>1, <2>2, Zenon
<1>13. ASSUME NEW k \in Caller, Call(k) \/ ReadLine(k) PROVE Goal
  BY <1>2, <1>12, <1>13, Zenon DEF Call, ReadLine, daemon
<1>14. CASE ListenerConnects \/ read_broadcast
  BY <1>2, <1>12, <1>14, Zenon DEF ListenerConnects, read_broadcast, daemon
<1>15. CASE Stops
  <2>1. members' = <<>>
    BY <1>15, Zenon DEF Stops
  <2>2. <<>> \in Seq(Conn) /\ IsInjective(<<>>) /\ Range(<<>>) = {}
    BY DEF IsInjective, Range
  <2> QED
    BY <2>1, <2>2, Zenon DEF MembersServed, Goal
<1>16. CASE Starts \/ UNCHANGED vars
  BY <1>2, <1>16, Zenon DEF Starts, vars, daemon
<1>17. CASE AcceptFails
  <2>1. members' = members /\ \A d \in Conn : h[d].pc # "accepting" => h'[d] = h[d]
    BY <1>17, RefusedSet, Zenon
  <2>2. ASSUME NEW d \in Range(members') PROVE h'[d].pc \notin {"free", "accepting"}
    BY <1>0, <2>1, <2>2, Zenon DEF MembersServed
  <2> QED
    BY <1>0, <2>1, <2>2, Zenon DEF Goal, MembersServed
<1> QED
  BY <1>3, <1>4, <1>5, <1>6, <1>7, <1>8, <1>10, <1>11, <1>13, <1>14, <1>15, <1>16, <1>17, SMTT(30)
    DEF Next, Server

\* Every step keeps the rest of the daemon's state well formed.
LEMMA ServerTypesStep ==
  ASSUME ShellTypes, MembersServed, [Next]_vars
  PROVE  ServerTypes'
<1>0. roots \in Nat /\ writer \in [Conn -> {"none", "runs", "ended"}]
  BY Zenon DEF ShellTypes, ServerTypes
<1>1. up \in BOOLEAN
  BY ZenonT(60) DEF ShellTypes, ServerTypes
<1>2. members' \in Seq(Conn) /\ IsInjective(members')
  BY MembersStep, Zenon
<1> DEFINE W == writer' \in [Conn -> {"none", "runs", "ended"}]
           U == up' = up \/ up' = TRUE \/ up' = FALSE
           R == roots' = roots \/ roots' \in RootCounts
<1>3. ASSUME NEW c \in Conn, Server(c) PROVE W /\ U /\ R
  <2>1. up' = up /\ roots' = roots
    BY <1>3, Zenon
      DEF Server, Accept, register, WriteTask, dispatch_line, Vfs, Send, WriteReply, EndOfInput
  <2>2. writer' = writer \/ \E w \in {"none", "runs", "ended"} : writer' = [writer EXCEPT ![c] = w]
    BY <1>3, Zenon
      DEF Server, Accept, register, WriteTask, dispatch_line, Vfs, Send, WriteReply, EndOfInput,
                Spawned, End
  <2> QED
    BY <1>0, <2>1, <2>2, Zenon
<1>4. ASSUME NEW k \in Caller, Call(k) PROVE W /\ U /\ R
  BY <1>0, <1>4, Zenon DEF Call, Connect
<1>5. ASSUME NEW k \in Caller, ReadLine(k) PROVE W /\ U /\ R
  BY <1>0, <1>5, Zenon DEF ReadLine, daemon
<1>6. ASSUME ListenerConnects \/ read_broadcast PROVE W /\ U /\ R
  BY <1>0, <1>6, Zenon DEF ListenerConnects, Connect, read_broadcast, daemon
<1>7. ASSUME Stops \/ Starts \/ AcceptFails PROVE W /\ U /\ R
  <2>1. W /\ R
    BY <1>0, <1>7 DEF Stops, Starts, AcceptFails
  <2>2. U
    BY <1>7, ZenonT(60) DEF Stops, Starts, AcceptFails
  <2> QED
    BY <2>1, <2>2, ZenonT(60)
<1>8. ASSUME UNCHANGED vars PROVE W /\ U /\ R
  BY <1>0, <1>8, Zenon DEF vars, daemon
<1>9. W /\ U /\ R
  <2> HIDE DEF W, U, R
  <2> QED
    BY <1>3, <1>4, <1>5, <1>6, <1>7, <1>8, Zenon DEF Next
<1>10. up' \in BOOLEAN
  BY <1>1, <1>9, ZenonT(60)
<1>11. roots' \in Nat
  BY <1>0, <1>9, ShellAssumption, ZenonT(60)
<1> QED
  BY <1>2, <1>9, <1>10, <1>11, ZenonT(60) DEF ServerTypes

\* Every step keeps the D-Bus service's state well formed.
LEMMA ClientTypesStep ==
  ASSUME ShellTypes, [Next]_vars
  PROVE  ClientTypes'
<1> DEFINE A == in' \in [Conn -> Commands \cup {None}] /\ closed' \subseteq Conn
           B == call' \in [Caller -> Calls \cup {None}] /\ listener' \in Conn \cup {None}
           C == shown' \in [Path -> Tags \cup {None}]
           D == last' \in [Path -> Tags \cup {None}] /\ excused' \subseteq Path
<1> SUFFICES A /\ B /\ C /\ D
  BY Zenon DEF ClientTypes
<1>0. ClientTypes
  BY Zenon DEF ShellTypes
<1>1. (UNCHANGED <<in, closed>> => A) /\ (UNCHANGED <<call, listener>> => B)
      /\ (UNCHANGED shown => C) /\ (UNCHANGED <<last, excused>> => D)
  BY <1>0, Zenon DEF ClientTypes
<1>2. ASSUME NEW c \in Conn, Accept(c) \/ register(c) \/ WriteTask(c) \/ Send(c) PROVE A /\ B /\ C /\ D
  BY <1>1, <1>2, Zenon
    DEF Accept, register, WriteTask, Send, socket, service, history
<1>3. ASSUME NEW c \in Conn, dispatch_line(c) PROVE A /\ B /\ C /\ D
  <2>1. A
    BY <1>0, <1>3, Zenon DEF dispatch_line, ClientTypes
  <2> QED
    BY <1>1, <1>3, <2>1, Zenon DEF dispatch_line, service, history
<1>4. ASSUME NEW c \in Conn, Vfs(c) PROVE A /\ B /\ C /\ D
  <2> DEFINE p == Head(h[c].rest)
  <2>1. PICK tag \in VfsResult :
          /\ p \in Path /\ tag \in Tags /\ last' = [last EXCEPT ![p] = tag]
          /\ excused' = IF Underway(p) \/ listener \notin Range(members)
                        THEN excused \cup {p} ELSE excused \ {p}
    BY <1>4, VfsSet, Zenon
  <2> HIDE DEF p
  <2>2. D
    BY <1>0, <2>1, Zenon DEF ClientTypes
  <2> QED
    BY <1>1, <1>4, <2>2, Zenon DEF Vfs, socket, service
<1>5. ASSUME NEW c \in Conn, WriteReply(c) \/ EndOfInput(c) PROVE A /\ B /\ C /\ D
  <2>1. A
    BY <1>0, <1>5, Zenon DEF WriteReply, EndOfInput, End, ClientTypes
  <2> QED
    BY <1>1, <1>5, <2>1, Zenon DEF WriteReply, EndOfInput, service, history
<1>6. ASSUME NEW k \in Caller, Call(k) PROVE A /\ B /\ C /\ D
  <2>1. PICK cmd \in Commands, c \in Conn :
          Connect(c, cmd) /\ call' = [call EXCEPT ![k] = [conn |-> c, cmd |-> cmd]]
    BY <1>6, Zenon DEF Call
  <2>2. A
    BY <1>0, <1>6, <2>1, Zenon DEF Call, Connect, ClientTypes
  <2>3. B
    BY <1>0, <1>6, <2>1, Zenon DEF Call, ClientTypes, Calls
  <2> QED
    BY <1>1, <1>6, <2>2, <2>3, Zenon DEF Call
<1>7. ASSUME NEW k \in Caller, ReadLine(k) PROVE A /\ B /\ C /\ D
  <2>1. call[k].conn \in Conn
    BY <1>0, <1>7, Zenon DEF ReadLine, ClientTypes, Calls
  <2>2. A
    BY <1>0, <1>7, <2>1, Zenon DEF ReadLine, ClientTypes
  <2>3. B
    BY <1>0, <1>7, Zenon DEF ReadLine, ClientTypes
  <2> QED
    BY <1>1, <1>7, <2>2, <2>3, Zenon DEF ReadLine, history
<1>8. CASE ListenerConnects
  <2>1. PICK c \in Conn : Connect(c, None) /\ listener' = c
    BY <1>8, Zenon DEF ListenerConnects
  <2>2. A
    BY <1>0, <1>8, <2>1, Zenon DEF ListenerConnects, Connect, ClientTypes
  <2>3. B
    BY <1>0, <1>8, <2>1, Zenon DEF ListenerConnects, ClientTypes
  <2> QED
    BY <1>1, <1>8, <2>2, <2>3, Zenon DEF ListenerConnects, history
<1>9. CASE read_broadcast
  <2>1. A /\ D
    BY <1>1, <1>9, Zenon DEF read_broadcast, history
  <2>2. B
    BY <1>0, <1>9, Zenon DEF read_broadcast, ClientTypes
  <2>3. C
    <3>1. CASE out[listener] = <<>>
      BY <1>1, <1>9, <3>1, Zenon DEF read_broadcast
    <3>2. CASE out[listener] # <<>>
      <4> DEFINE line == Head(out[listener])
      <4>1. listener \in Conn /\ out[listener] \in Seq(Lines)
        BY <1>9, Zenon
          DEF read_broadcast, ShellTypes, ClientTypes, QueueTypes, SocketTypes
      <4>2. line \in Lines
        BY <3>2, <4>1
      <4>3. shown' = IF line.kind = "STATUS" THEN [shown EXCEPT ![line.path] = line.tag] ELSE shown
        BY <1>9, <3>2, Zenon DEF read_broadcast
      <4> HIDE DEF line
      <4>4. line.kind = "STATUS" => line.path \in Path /\ line.tag \in Tags
        BY <4>2, LineFacts, Zenon
      <4> QED
        BY <1>0, <4>3, <4>4, Zenon DEF ClientTypes
    <3> QED
      BY <3>1, <3>2, Zenon
  <2> QED
    BY <2>1, <2>2, <2>3, Zenon
<1>10. CASE Stops
  <2>1. A /\ D
    BY <1>0, <1>10, Zenon DEF Stops, ClientTypes
  <2> QED
    BY <1>1, <1>10, <2>1, Zenon DEF Stops, service
<1>11. CASE Starts \/ UNCHANGED vars
  BY <1>1, <1>11, Zenon DEF Starts, vars, socket, service, history
<1>12. CASE AcceptFails
  <2>1. A
    BY <1>0, <1>12, RefusedSet, Zenon DEF ClientTypes
  <2>2. UNCHANGED <<call, listener, shown, last>>
    BY <1>12, RefusedSet, Zenon
  <2>3. D
    BY <1>0, <1>12, <2>2, Zenon DEF AcceptFails, ClientTypes
  <2> QED
    BY <1>1, <2>1, <2>2, <2>3, Zenon
<1> QED
  BY <1>2, <1>3, <1>4, <1>5, <1>6, <1>7, <1>8, <1>9, <1>10, <1>11, <1>12 DEF Next, Server

(****************************************************************************)
(* The life of a connection.                                                *)
(****************************************************************************)

\* Connections that no longer receive.
Gone == {d \in Conn : h[d].pc = "free" \/ writer[d] = "ended"}

Lives ==
  \A c \in Conn :
    /\ h[c].pc = "free" => channel[c] = <<>> /\ writer[c] = "none" /\ c \notin closed
    /\ h[c].pc \in {"accepting", "register"} => writer[c] = "none"
    /\ writer[c] = "ended" => c \in closed
    /\ h[c].dead \subseteq Gone

\* A step of one handler that leaves the write tasks and the clients' ends alone.
LEMMA LivesHandler ==
  ASSUME ShellTypes, Lives, NEW c \in Conn, NEW r \in Handlers, h' = [h EXCEPT ![c] = r],
         writer' = writer, closed' = closed,
         r.pc # "free", r.dead \subseteq Gone,
         r.pc \in {"accepting", "register"} => writer[c] = "none",
         h[c].pc # "free" \/ (r.dead = {} /\ \A d \in Conn : c \notin h[d].dead),
         \A d \in Conn : h'[d].pc = "free" => channel'[d] = channel[d]
  PROVE  Lives'
<1>1. h \in [Conn -> Handlers] /\ \A d \in Conn : h'[d] = IF d = c THEN r ELSE h[d]
  BY Zenon DEF ShellTypes, HandlerTypes
<1>2. \A d \in Conn : h[d].dead \subseteq Gone'
  BY <1>1 DEF Lives, Gone
<1>3. r.dead \subseteq Gone'
  BY <1>1, Zenon DEF Gone
<1>4. \A d \in Conn : h'[d].dead \subseteq Gone'
  BY <1>1, <1>2, <1>3, Zenon
<1>5. ASSUME NEW d \in Conn
      PROVE  /\ h'[d].pc = "free" => channel'[d] = <<>> /\ writer'[d] = "none" /\ d \notin closed'
             /\ h'[d].pc \in {"accepting", "register"} => writer'[d] = "none"
             /\ writer'[d] = "ended" => d \in closed'
  BY <1>1, Zenon DEF Lives
<1> QED
  BY <1>4, <1>5, Zenon DEF Lives

\* The write task of a connection is spawned when its roots have been announced.
LEMMA LivesSpawned ==
  ASSUME ShellTypes, Lives, NEW c \in Conn, NEW left, Spawned(c, left),
         h[c].pc \in {"accepting", "register"}, channel' = channel, closed' = closed
  PROVE  Lives'
<1>1. h \in [Conn -> Handlers] /\ h[c] \in Handlers /\ writer \in [Conn -> {"none", "runs", "ended"}]
  BY Zenon DEF ShellTypes, HandlerTypes, ServerTypes
<1>2. /\ h'[c].pc = (IF left = 0 THEN "read" ELSE "register") /\ h'[c].dead = h[c].dead
      /\ \A d \in Conn \ {c} : h'[d] = h[d] /\ writer'[d] = writer[d]
      /\ writer'[c] = IF left = 0 THEN "runs" ELSE writer[c]
  BY <1>1, Zenon DEF Spawned, Handlers
<1>3. writer[c] = "none"
  BY Zenon DEF Lives
<1>4. Gone \subseteq Gone'
  BY <1>2, <1>3, Zenon DEF Gone
<1>5. \A d \in Conn : h'[d].dead = h[d].dead
  BY <1>2, Zenon
<1>6. \A d \in Conn : h'[d].dead \subseteq Gone'
  BY <1>4, <1>5, Zenon DEF Lives
<1>7. ASSUME NEW d \in Conn
      PROVE  /\ h'[d].pc = "free" => channel'[d] = <<>> /\ writer'[d] = "none" /\ d \notin closed'
             /\ h'[d].pc \in {"accepting", "register"} => writer'[d] = "none"
             /\ writer'[d] = "ended" => d \in closed'
  BY <1>2, <1>3, Zenon DEF Lives
<1> QED
  BY <1>6, <1>7, Zenon DEF Lives

\* A connection ends.
LEMMA LivesEnd ==
  ASSUME ShellTypes, Lives, NEW c \in Conn, End(c)
  PROVE  Lives'
<1>1. /\ h \in [Conn -> Handlers] /\ writer \in [Conn -> {"none", "runs", "ended"}]
      /\ channel \in [Conn -> Seq(Statuses)]
  BY Zenon DEF ShellTypes, HandlerTypes, ServerTypes, QueueTypes, ChannelTypes
<1>2. /\ h'[c] = Free /\ writer'[c] = "none" /\ channel'[c] = <<>> /\ closed' = closed \ {c}
      /\ \A d \in Conn \ {c} : h'[d] = h[d] /\ writer'[d] = writer[d] /\ channel'[d] = channel[d]
  BY <1>1, Zenon DEF End
<1>3. Free.pc = "free" /\ Free.dead = {}
  BY Zenon DEF Free
<1>4. Gone \subseteq Gone'
  BY <1>2, <1>3, Zenon DEF Gone
<1>5. \A d \in Conn : h'[d].dead \subseteq h[d].dead
  BY <1>2, <1>3, Zenon
<1>6. \A d \in Conn : h'[d].dead \subseteq Gone'
  BY <1>4, <1>5, Zenon DEF Lives
<1>7. ASSUME NEW d \in Conn
      PROVE  /\ h'[d].pc = "free" => channel'[d] = <<>> /\ writer'[d] = "none" /\ d \notin closed'
             /\ h'[d].pc \in {"accepting", "register"} => writer'[d] = "none"
             /\ writer'[d] = "ended" => d \in closed'
  BY <1>2, <1>3, Zenon DEF Lives
<1> QED
  BY <1>6, <1>7, Zenon DEF Lives

\* Every step keeps what is said of a connection's life: a connection that a
\* broadcast has found dead never receives again.
LEMMA LivesStep ==
  ASSUME ShellTypes, Lives, [Next]_vars
  PROVE  Lives'
<1>0. /\ h \in [Conn -> Handlers] /\ writer \in [Conn -> {"none", "runs", "ended"}]
      /\ channel \in [Conn -> Seq(Statuses)] /\ closed \subseteq Conn
  BY Zenon
    DEF ShellTypes, HandlerTypes, ServerTypes, QueueTypes, ChannelTypes, ClientTypes
<1>1. ASSUME h' = h, writer' = writer, channel' = channel, closed' = closed PROVE Lives'
  BY <1>1, Zenon DEF Lives, Gone
<1>2. ASSUME NEW c \in Conn, Accept(c) PROVE Lives'
  BY <1>2, LivesSpawned, Zenon DEF Accept, socket
<1>3. ASSUME NEW c \in Conn, register(c) PROVE Lives'
  BY <1>3, LivesSpawned, Zenon DEF register
<1>4. ASSUME NEW c \in Conn, WriteTask(c) PROVE Lives'
  <2>1. h' = h /\ closed' = closed /\ writer[c] = "runs"
    BY <1>4, Zenon DEF WriteTask
  <2>2. \A d \in Conn : \/ writer'[d] = writer[d]
                        \/ d = c /\ d \in closed /\ writer'[d] = "ended"
    BY <1>0, <1>4, Zenon DEF WriteTask
  <2>3. \A d \in Conn \ {c} : channel'[d] = channel[d]
    BY <1>0, <1>4, Zenon DEF WriteTask
  <2>4. h[c].pc \notin {"free", "accepting", "register"}
    BY <2>1, Zenon DEF Lives
  <2>5. Gone \subseteq Gone'
    BY <2>1, <2>2, Zenon DEF Gone
  <2>6. ASSUME NEW d \in Conn
        PROVE  /\ h'[d].pc = "free" => channel'[d] = <<>> /\ writer'[d] = "none" /\ d \notin closed'
               /\ h'[d].pc \in {"accepting", "register"} => writer'[d] = "none"
               /\ writer'[d] = "ended" => d \in closed'
    BY <2>1, <2>2, <2>3, <2>4, Zenon DEF Lives
  <2>7. \A d \in Conn : h'[d].dead \subseteq Gone'
    BY <2>1, <2>5, Zenon DEF Lives
  <2> QED
    BY <2>6, <2>7, Zenon DEF Lives
<1>5. ASSUME NEW c \in Conn, dispatch_line(c) PROVE Lives'
  <2>1. PICK r \in Handlers : /\ h' = [h EXCEPT ![c] = r] /\ r.pc \in {"read", "vfs", "reply"}
                              /\ r.dead = h[c].dead
    BY <1>5, DispatchSet, Zenon
  <2>2. h[c].pc = "read" /\ writer' = writer /\ closed' = closed /\ channel' = channel
    BY <1>5, Zenon DEF dispatch_line
  <2>3. r.dead \subseteq Gone
    BY <2>1, Zenon DEF Lives
  <2>4. /\ r.pc # "free" /\ (r.pc \in {"accepting", "register"} => writer[c] = "none")
        /\ (h[c].pc # "free" \/ (r.dead = {} /\ \A d \in Conn : c \notin h[d].dead))
        /\ \A d \in Conn : h'[d].pc = "free" => channel'[d] = channel[d]
    BY <2>1, <2>2, Zenon
  <2> QED
    BY <2>1, <2>2, <2>3, <2>4, LivesHandler, Zenon
<1>6. ASSUME NEW c \in Conn, Vfs(c) PROVE Lives'
  <2>1. PICK r \in Handlers : /\ h' = [h EXCEPT ![c] = r] /\ r.pc \in {"send", "vfs", "reply"}
                              /\ r.dead = {}
    BY <1>6, VfsSet, Zenon
  <2>2. h[c].pc = "vfs" /\ writer' = writer /\ closed' = closed /\ channel' = channel
    BY <1>6, Zenon DEF Vfs, socket
  <2> QED
    BY <2>1, <2>2, LivesHandler, Zenon
<1>7. ASSUME NEW c \in Conn, Send(c) PROVE Lives'
  <2> DEFINE t == Head(h[c].targets)
  <2>1. PICK dead \in SUBSET Conn :
           /\ Sent(c, dead) /\ t \in Conn
           /\ \/ /\ Receives(t) /\ dead = h[c].dead
                 /\ channel' = [channel EXCEPT ![t] = Append(@, h[c].msg)]
              \/ /\ ~Receives(t) /\ dead = h[c].dead \cup {t} /\ channel' = channel
    BY <1>7, SendDead, Zenon
  <2>2. h[c].pc = "send" /\ writer' = writer /\ closed' = closed
    BY <1>7, Zenon DEF Send, socket
  <2> HIDE DEF t
  <2>3. PICK r \in Handlers : /\ h' = [h EXCEPT ![c] = r] /\ r.pc \in {"send", "vfs", "reply"}
                              /\ r.dead \in {dead, {}}
    BY <2>1, <2>2, SentSet, Zenon
  <2>4. h[c].dead \subseteq Gone
    BY Zenon DEF Lives
  <2>5. ~Receives(t) => t \in Gone
    BY <2>1, Zenon DEF Receives, Gone
  <2>6. dead \subseteq Gone
    BY <2>1, <2>4, <2>5, Zenon
  <2>7. r.dead \subseteq Gone
    BY <2>3, <2>6, Zenon
  <2>8. \A d \in Conn : h'[d].pc = "free" => h[d].pc = "free"
    BY <1>0, <2>3, Zenon
  <2>9. \A d \in Conn : h'[d].pc = "free" => channel'[d] = channel[d]
    BY <1>0, <2>1, <2>8, Zenon DEF Receives
  <2>10. /\ r.pc # "free" /\ (r.pc \in {"accepting", "register"} => writer[c] = "none")
         /\ (h[c].pc # "free" \/ (r.dead = {} /\ \A d \in Conn : c \notin h[d].dead))
    BY <2>2, <2>3, Zenon
  <2> QED
    BY <2>2, <2>3, <2>7, <2>9, <2>10, LivesHandler, Zenon
<1>8. ASSUME NEW c \in Conn, WriteReply(c) PROVE Lives'
  <2>1. PICK r \in Handlers :
           /\ h' = [h EXCEPT ![c] = r]
           /\ \/ End(c)
              \/ /\ r.pc = "read" /\ r.dead = h[c].dead
                 /\ channel' = channel /\ writer' = writer /\ closed' = closed
    BY <1>8, WriteReplySet, Zenon
  <2>2. h[c].pc = "reply" /\ h[c].dead \subseteq Gone
    BY <1>8, Zenon DEF WriteReply, Lives
  <2>3. CASE End(c)
    BY <2>3, LivesEnd, Zenon
  <2>4. CASE r.pc = "read" /\ r.dead = h[c].dead
             /\ channel' = channel /\ writer' = writer /\ closed' = closed
    <3>1. /\ r.pc # "free" /\ (r.pc \in {"accepting", "register"} => writer[c] = "none")
          /\ (h[c].pc # "free" \/ (r.dead = {} /\ \A d \in Conn : c \notin h[d].dead))
          /\ r.dead \subseteq Gone
          /\ \A d \in Conn : h'[d].pc = "free" => channel'[d] = channel[d]
      BY <2>2, <2>4, Zenon
    <3> QED
      BY <2>1, <2>4, <3>1, LivesHandler, Zenon
  <2> QED
    BY <2>1, <2>3, <2>4, Zenon
<1>9. ASSUME NEW c \in Conn, EndOfInput(c) PROVE Lives'
  BY <1>9, LivesEnd, Zenon DEF EndOfInput
<1>10. ASSUME NEW c \in Conn, NEW cmd, Connect(c, cmd),
              writer' = writer, channel' = channel, closed' = closed
       PROVE  Lives'
  <2>1. PICK r \in Handlers : h' = [h EXCEPT ![c] = r] /\ r.pc = "accepting" /\ r.dead = {}
    BY <1>10, ConnectSet, Zenon
  <2>2. h[c].pc = "free" /\ \A d \in Conn : c \notin h[d].dead
    BY <1>10, ConnectSet, Zenon
  <2>3. writer[c] = "none"
    BY <2>2, Zenon DEF Lives
  <2> QED
    BY <1>10, <2>1, <2>2, <2>3, LivesHandler, Zenon
<1>11. ASSUME NEW k \in Caller, Call(k) PROVE Lives'
  BY <1>10, <1>11, Zenon DEF Call
<1>12. ASSUME NEW k \in Caller, ReadLine(k) PROVE Lives'
  <2>1. h' = h /\ writer' = writer /\ channel' = channel
    BY <1>12, Zenon DEF ReadLine, daemon
  <2>2. closed \subseteq closed' /\ \A d \in closed' \ closed : h[d].pc # "free"
    BY <1>12, Zenon DEF ReadLine
  <2> QED
    BY <2>1, <2>2, Zenon DEF Lives, Gone
<1>13. CASE ListenerConnects
  BY <1>10, <1>13, Zenon DEF ListenerConnects
<1>14. CASE read_broadcast
  BY <1>1, <1>14, Zenon DEF read_broadcast, daemon
<1>15. CASE Stops
  <2>1. \A c \in Conn : h'[c] = Free /\ writer'[c] = "none" /\ channel'[c] = <<>> /\ c \notin closed'
    BY <1>15, Zenon DEF Stops
  <2>2. Free.pc = "free" /\ Free.dead = {}
    BY Zenon DEF Free
  <2> QED
    BY <2>1, <2>2, Zenon DEF Lives
<1>16. CASE Starts \/ UNCHANGED vars
  BY <1>1, <1>16, Zenon DEF Starts, vars, daemon, socket
<1>17. CASE AcceptFails
  <2>1. Free.pc = "free" /\ Free.dead = {} /\ writer' = writer
    BY <1>17, RefusedSet, Zenon DEF Free
  <2>2. ASSUME NEW c \in Conn
        PROVE  \/ /\ h[c].pc = "accepting" /\ h'[c] = Free /\ channel'[c] = <<>> /\ c \notin closed'
               \/ /\ h[c].pc # "accepting" /\ h'[c] = h[c] /\ channel'[c] = channel[c]
                  /\ (c \in closed' <=> c \in closed)
    BY <1>17, RefusedSet, Zenon
  <2>3. \A c \in Conn : h[c].pc = "free" => h'[c].pc = "free"
    BY <2>1, <2>2, Zenon
  <2>4. Gone \subseteq Gone'
    BY <2>1, <2>3, Zenon DEF Gone
  <2>5. ASSUME NEW c \in Conn PROVE h'[c].dead \subseteq Gone'
    BY <2>1, <2>2, <2>4, Zenon DEF Lives
  <2>6. ASSUME NEW c \in Conn
        PROVE  /\ h'[c].pc = "free" => channel'[c] = <<>> /\ writer'[c] = "none" /\ c \notin closed'
               /\ h'[c].pc \in {"accepting", "register"} => writer'[c] = "none"
               /\ writer'[c] = "ended" => c \in closed'
    <3>1. CASE h[c].pc = "accepting"
      BY <2>1, <2>2, <3>1, Zenon DEF Lives
    <3>2. CASE h[c].pc # "accepting"
      BY <2>1, <2>2, <3>2, Zenon DEF Lives
    <3> QED
      BY <3>1, <3>2, Zenon
  <2> QED
    BY <2>5, <2>6, Zenon DEF Lives
<1> QED
  BY <1>2, <1>3, <1>4, <1>5, <1>6, <1>7, <1>8, <1>9, <1>11, <1>12, <1>13, <1>14, <1>15, <1>16, <1>17, SMTT(30)
     DEF Next, Server

(****************************************************************************)
(* Whose a connection is.                                                   *)
(****************************************************************************)

\* A connection nobody holds has nothing to read and is dropped or free.
Left == \A c \in Conn \ Held : out[c] = <<>> /\ (h[c].pc # "free" => c \in closed)

\* Nobody has dropped the connection it holds, and no two hold the same.
Apart ==
  /\ \A c \in Held : c \notin closed
  /\ \A j, k \in Caller : call[j] # None /\ call[k] # None /\ call[j].conn = call[k].conn => j = k
  /\ \A k \in Caller : call[k] # None => call[k].conn # listener

\* The broadcast loop sends nothing.
Quiet ==
  listener # None => in[listener] = None /\ h[listener].pc \in {"free", "accepting", "register", "read"}

Owned == Left /\ Apart /\ Quiet

\* Held, member by member.
LEMMA HeldFacts ==
  \A c : c \in Held <=> (c = listener \/ \E k \in Caller : call[k] # None /\ call[k].conn = c)
BY Zenon DEF Held

\* The server takes nothing into its hands that a client has let go.
LEMMA OwnedServer ==
  ASSUME Owned, call' = call, listener' = listener, closed' \subseteq closed,
         \A d \in Conn : out'[d] = out[d] \/ (h[d].pc # "free" /\ d \notin closed),
         \A d \in Conn : h'[d].pc # "free" => h[d].pc # "free" /\ (d \in closed => d \in closed'),
         listener # None => in'[listener] = None
                            /\ h'[listener].pc \in {"free", "accepting", "register", "read"}
  PROVE  Owned'
<1>1. Held' = Held
  BY Zenon DEF Held
<1>2. Left'
  BY <1>1, Zenon DEF Owned, Left
<1>3. Apart'
  BY <1>1, Zenon DEF Owned, Apart
<1> QED
  BY <1>2, <1>3, Zenon DEF Owned, Quiet

\* Every step keeps the connections with their owners.
LEMMA OwnedStep ==
  ASSUME ShellTypes, Lives, Owned, [Next]_vars
  PROVE  Owned'
<1>0. /\ h \in [Conn -> Handlers] /\ writer \in [Conn -> {"none", "runs", "ended"}]
      /\ out \in [Conn -> Seq(Lines)] /\ closed \subseteq Conn
      /\ in \in [Conn -> Commands \cup {None}] /\ listener \in Conn \cup {None} /\ None \notin Conn
      /\ call \in [Caller -> Calls \cup {None}]
  BY ShellAssumption, Zenon
    DEF ShellTypes, HandlerTypes, ServerTypes, QueueTypes, SocketTypes, ClientTypes
<1>1. ASSUME UNCHANGED <<h, in, out, closed, call, listener>> PROVE Owned'
  BY <1>1, ZenonT(60) DEF Owned, Left, Apart, Quiet, Held
<1>2. ASSUME NEW c \in Conn, Accept(c) PROVE Owned'
  <2>1. h'[c].pc \in {"read", "register"} /\ \A d \in Conn \ {c} : h'[d] = h[d]
    BY <1>0, <1>2 DEF Accept, Spawned, Handlers
  <2>2. h[c].pc = "accepting" /\ UNCHANGED <<in, out, closed, call, listener>>
    BY <1>2, Zenon DEF Accept, socket, service
  <2>3. listener # None => in'[listener] = None
                           /\ h'[listener].pc \in {"free", "accepting", "register", "read"}
    BY <1>0, <2>1, <2>2, Zenon DEF Owned, Quiet
  <2>4. \A d \in Conn : h'[d].pc # "free" => h[d].pc # "free" /\ (d \in closed => d \in closed')
    BY <2>1, <2>2, Zenon
  <2> QED
    BY <2>2, <2>3, <2>4, OwnedServer, Zenon
<1>3. ASSUME NEW c \in Conn, register(c) PROVE Owned'
  <2>1. h'[c].pc \in {"read", "register"} /\ \A d \in Conn \ {c} : h'[d] = h[d]
    <3>1. PICK left : h' = [h EXCEPT ![c].pc = IF left = 0 THEN "read" ELSE "register", ![c].left = left]
      BY <1>3, Zenon DEF register, Spawned
    <3> QED
      BY <1>0, <3>1 DEF Handlers
  <2>2. h[c].pc = "register" /\ UNCHANGED <<in, closed, call, listener>>
    BY <1>3, Zenon DEF register, service
  <2>3. listener # None => in'[listener] = None
                           /\ h'[listener].pc \in {"free", "accepting", "register", "read"}
    BY <1>0, <2>1, <2>2, Zenon DEF Owned, Quiet
  <2>4. \A d \in Conn : h'[d].pc # "free" => h[d].pc # "free" /\ (d \in closed => d \in closed')
    BY <2>1, <2>2, Zenon
  <2>5. \A d \in Conn : out'[d] = out[d] \/ (h[d].pc # "free" /\ d \notin closed)
    BY <1>0, <1>3, <2>2, Zenon DEF register
  <2> QED
    BY <2>2, <2>3, <2>4, <2>5, OwnedServer, Zenon
<1>4. ASSUME NEW c \in Conn, WriteTask(c) PROVE Owned'
  <2>1. h' = h /\ UNCHANGED <<in, closed, call, listener>> /\ h[c].pc # "free"
    BY <1>4, Zenon DEF WriteTask, service, Lives
  <2>2. listener # None => in'[listener] = None
                           /\ h'[listener].pc \in {"free", "accepting", "register", "read"}
    BY <2>1, Zenon DEF Owned, Quiet
  <2>3. \A d \in Conn : out'[d] = out[d] \/ (h[d].pc # "free" /\ d \notin closed)
    BY <1>0, <1>4, <2>1, Zenon DEF WriteTask
  <2> QED
    BY <2>1, <2>2, <2>3, OwnedServer, Zenon
<1>5. ASSUME NEW c \in Conn, dispatch_line(c) \/ Vfs(c) \/ Send(c) PROVE Owned'
  <2>1. h[c].pc # "free" /\ c # listener
    BY <1>0, <1>5, Zenon DEF dispatch_line, Vfs, Send, Owned, Quiet
  <2>2. UNCHANGED <<out, closed, call, listener>> /\ in' \in {in, [in EXCEPT ![c] = None]}
    BY <1>5, Zenon DEF dispatch_line, Vfs, Send, socket, service
  <2>3. \A d \in Conn \ {c} : h'[d] = h[d]
    BY <1>0, <1>5, Zenon DEF dispatch_line, Vfs, Send, Sent
  <2>4. listener # None => in'[listener] = None
                           /\ h'[listener].pc \in {"free", "accepting", "register", "read"}
    BY <1>0, <2>1, <2>2, <2>3, Zenon DEF Owned, Quiet
  <2>5. \A d \in Conn : h'[d].pc # "free" => h[d].pc # "free" /\ (d \in closed => d \in closed')
    BY <2>1, <2>2, <2>3, Zenon
  <2> QED
    BY <2>2, <2>4, <2>5, OwnedServer, Zenon
<1>6. ASSUME NEW c \in Conn, End(c), UNCHANGED <<in, out, call, listener>>, h[c].pc # "free" PROVE Owned'
  <2>1. h'[c].pc = "free" /\ \A d \in Conn \ {c} : h'[d] = h[d]
    BY <1>0, <1>6, FreeFacts, Zenon DEF End
  <2>2. closed' = closed \ {c}
    BY <1>6, Zenon DEF End
  <2>3. listener # None => in'[listener] = None
                           /\ h'[listener].pc \in {"free", "accepting", "register", "read"}
    BY <1>0, <1>6, <2>1, Zenon DEF Owned, Quiet
  <2>4. \A d \in Conn : h'[d].pc # "free" => h[d].pc # "free" /\ (d \in closed => d \in closed')
    BY <2>1, <2>2, Zenon
  <2> QED
    BY <1>6, <2>2, <2>3, <2>4, OwnedServer, Zenon
<1>7. ASSUME NEW c \in Conn, WriteReply(c) PROVE Owned'
  <2>1. h[c].pc = "reply" /\ c # listener /\ UNCHANGED <<in, call, listener>>
    BY <1>0, <1>7, Zenon DEF WriteReply, service, Owned, Quiet
  <2>2. CASE c \in closed
    BY <1>6, <1>7, <2>1, <2>2, Zenon DEF WriteReply
  <2>3. CASE c \notin closed
    <3>1. /\ out' = [out EXCEPT ![c] = Append(@, h[c].msg)]
          /\ h' = [h EXCEPT ![c].pc = "read", ![c].msg = None] /\ closed' = closed
      BY <1>7, <2>3, Zenon DEF WriteReply
    <3>2. \A d \in Conn \ {c} : h'[d] = h[d] /\ out'[d] = out[d]
      BY <1>0, <3>1, Zenon
    <3>3. listener # None => in'[listener] = None
                             /\ h'[listener].pc \in {"free", "accepting", "register", "read"}
      BY <1>0, <2>1, <3>2, Zenon DEF Owned, Quiet
    <3>4. \A d \in Conn : h'[d].pc # "free" => h[d].pc # "free" /\ (d \in closed => d \in closed')
      BY <2>1, <3>1, <3>2, Zenon
    <3>5. \A d \in Conn : out'[d] = out[d] \/ (h[d].pc # "free" /\ d \notin closed)
      BY <2>1, <2>3, <3>2, Zenon
    <3> QED
      BY <2>1, <3>1, <3>3, <3>4, <3>5, OwnedServer, Zenon
  <2> QED
    BY <2>2, <2>3, Zenon
<1>8. ASSUME NEW c \in Conn, EndOfInput(c) PROVE Owned'
  BY <1>6, <1>8, Zenon DEF EndOfInput, service
<1>9. ASSUME NEW c \in Conn, NEW cmd, Connect(c, cmd)
      PROVE  /\ c \notin Held /\ c \notin closed /\ \A d \in Conn \ {c} : h'[d] = h[d] /\ in'[d] = in[d]
             /\ h'[c].pc = "accepting" /\ in'[c] = cmd
  <2>1. PICK r \in Handlers : h' = [h EXCEPT ![c] = r] /\ r.pc = "accepting"
    BY <1>9, ConnectSet, Zenon
  <2>2. c \notin Held /\ h[c].pc = "free" /\ in' = [in EXCEPT ![c] = cmd]
    BY <1>9, ConnectSet, Zenon
  <2>3. c \notin closed
    BY <2>2, Zenon DEF Lives
  <2> QED
    BY <1>0, <2>1, <2>2, <2>3, Zenon
<1>10. ASSUME NEW k \in Caller, Call(k) PROVE Owned'
  <2>1. PICK cmd \in Commands, c \in Conn :
          Connect(c, cmd) /\ call' = [call EXCEPT ![k] = [conn |-> c, cmd |-> cmd]]
    BY <1>10, Zenon DEF Call
  <2>2. call[k] = None /\ UNCHANGED <<out, closed, listener>>
    BY <1>10, Zenon DEF Call
  <2>3. /\ c \notin Held /\ c \notin closed /\ \A d \in Conn \ {c} : h'[d] = h[d] /\ in'[d] = in[d]
    BY <1>9, <2>1, Zenon
  <2>4. [conn |-> c, cmd |-> cmd] # None
    BY NoneAssumption
  <2>5. call'[k] # None /\ call'[k].conn = c /\ \A j \in Caller \ {k} : call'[j] = call[j]
    BY <1>0, <2>1, <2>4, Zenon
  <2>6. \A d : d \in Held' <=> (d = listener' \/ \E j \in Caller : call'[j] # None /\ call'[j].conn = d)
    BY Zenon DEF Held
  <2>7. \A d : d \in Held' <=> (d = c \/ d \in Held)
    BY <2>2, <2>5, <2>6, HeldFacts
  <2>8. Left'
    BY <2>2, <2>3, <2>7, Zenon DEF Owned, Left
  <2>9. \A j \in Caller : call[j] # None => call[j].conn # c
    BY <2>3, HeldFacts, Zenon
  <2>10. c # listener
    BY <2>3, HeldFacts, Zenon
  <2>11. Apart'
    <3>1. \A d \in Held' : d \notin closed'
      BY <2>2, <2>3, <2>7, Zenon DEF Owned, Apart
    <3>2. \A i, j \in Caller : call'[i] # None /\ call'[j] # None /\ call'[i].conn = call'[j].conn => i = j
      BY <2>5, <2>9 DEF Owned, Apart
    <3>3. \A j \in Caller : call'[j] # None => call'[j].conn # listener'
      BY <2>2, <2>5, <2>10, Zenon DEF Owned, Apart
    <3> QED
      BY <3>1, <3>2, <3>3, Zenon DEF Apart
  <2>12. Quiet'
    BY <1>0, <2>2, <2>3, <2>10, Zenon DEF Owned, Quiet
  <2> QED
    BY <2>8, <2>11, <2>12, Zenon DEF Owned
<1>11. ASSUME NEW k \in Caller, ReadLine(k) PROVE Owned'
  <2> DEFINE c == call[k].conn
  <2>1. c \in Conn /\ call[k] # None /\ call' = [call EXCEPT ![k] = None]
    BY <1>0, <1>11, Zenon DEF ReadLine, Calls
  <2>2. UNCHANGED <<h, in, listener>>
    BY <1>11, Zenon DEF ReadLine, daemon
  <2>3. /\ out' \in {out, [out EXCEPT ![c] = <<>>]} /\ closed' \in {closed, closed \cup {c}}
        /\ out'[c] = <<>> /\ (h[c].pc # "free" => c \in closed')
    BY <1>0, <1>11, <2>1, Zenon DEF ReadLine
  <2>4. call'[k] = None /\ \A j \in Caller \ {k} : call'[j] = call[j]
    BY <1>0, <2>1, Zenon
  <2>5. c # listener /\ \A j \in Caller \ {k} : call[j] # None => call[j].conn # c
    BY <2>1, Zenon DEF Owned, Apart
  <2> HIDE DEF c
  <2>6. \A d : d \in Held' <=> (d = listener' \/ \E j \in Caller : call'[j] # None /\ call'[j].conn = d)
    BY Zenon DEF Held
  <2>7. c \notin Held'
    BY <2>2, <2>4, <2>5, <2>6, Zenon
  <2>8. \A d : d \in Held' => d \in Held
    BY <2>2, <2>4, <2>6, HeldFacts
  <2>9. \A d : d \in Held => d \in Held' \/ d = c
    BY <2>2, <2>4, <2>6, HeldFacts DEF c
  <2>10. Left'
    BY <1>0, <2>1, <2>2, <2>3, <2>9, Zenon DEF Owned, Left
  <2>11. Apart'
    <3>1. \A d \in Held' : d \notin closed'
      BY <2>3, <2>7, <2>8, Zenon DEF Owned, Apart
    <3>2. \A i, j \in Caller : call'[i] # None /\ call'[j] # None /\ call'[i].conn = call'[j].conn => i = j
      BY <2>4, Zenon DEF Owned, Apart
    <3>3. \A j \in Caller : call'[j] # None => call'[j].conn # listener'
      BY <2>2, <2>4, Zenon DEF Owned, Apart
    <3> QED
      BY <3>1, <3>2, <3>3, Zenon DEF Apart
  <2>12. Quiet'
    BY <2>2, Zenon DEF Owned, Quiet
  <2> QED
    BY <2>10, <2>11, <2>12, Zenon DEF Owned
<1>12. CASE ListenerConnects
  <2>1. PICK c \in Conn : Connect(c, None) /\ listener' = c
    BY <1>12, Zenon DEF ListenerConnects
  <2>2. listener = None /\ UNCHANGED <<out, closed, call>>
    BY <1>12, Zenon DEF ListenerConnects
  <2>3. /\ c \notin Held /\ c \notin closed /\ \A d \in Conn \ {c} : h'[d] = h[d]
        /\ h'[c].pc = "accepting" /\ in'[c] = None
    BY <1>9, <2>1, Zenon
  <2>4. \A d : d \in Held' <=> (d = listener' \/ \E j \in Caller : call'[j] # None /\ call'[j].conn = d)
    BY Zenon DEF Held
  <2>5. \A d \in Conn : d \in Held' <=> (d = c \/ d \in Held)
    BY <1>0, <2>1, <2>2, <2>4, HeldFacts, Zenon
  <2>6. \A d : d \in Held' => (d = c \/ d \in Held)
    BY <2>1, <2>2, <2>4, HeldFacts, Zenon
  <2>7. \A j \in Caller : call[j] # None => call[j].conn # c
    BY <2>3, HeldFacts, Zenon
  <2>8. Left'
    BY <2>2, <2>3, <2>5, Zenon DEF Owned, Left
  <2>9. Apart'
    BY <2>1, <2>2, <2>3, <2>6, <2>7, Zenon DEF Owned, Apart
  <2>10. Quiet'
    BY <2>1, <2>3, Zenon DEF Quiet
  <2> QED
    BY <2>8, <2>9, <2>10 DEF Owned
<1>13. CASE read_broadcast
  <2>1. UNCHANGED <<h, in, closed, call>> /\ listener \in Conn
    BY <1>0, <1>13, Zenon DEF read_broadcast, daemon
  <2>2. CASE listener' = listener
    <3>1. \A d \in Conn \ {listener} : out'[d] = out[d]
      BY <1>0, <1>13, Zenon DEF read_broadcast
    <3>2. listener \in Held /\ Held' = Held
      BY <2>1, <2>2, Zenon DEF Held
    <3>3. Left'
      BY <2>1, <3>1, <3>2, Zenon DEF Owned, Left
    <3> QED
      BY <2>1, <2>2, <3>2, <3>3, Zenon DEF Owned, Apart, Quiet
  <2>3. CASE listener' = None /\ out' = out /\ out[listener] = <<>> /\ h[listener].pc = "free"
    <3>1. \A d : d \in Held' <=> (d = None \/ \E j \in Caller : call[j] # None /\ call[j].conn = d)
      BY <2>1, <2>3, Zenon DEF Held
    <3>2. \A d \in Conn : d \in Held => d \in Held' \/ d = listener
      BY <3>1, HeldFacts, Zenon
    <3>3. \A d : d \in Held' => d = None \/ d \in Held
      BY <3>1, HeldFacts, Zenon
    <3>4. Left'
      BY <2>1, <2>3, <3>2, Zenon DEF Owned, Left
    <3>5. \A j \in Caller : call[j] # None => call[j].conn \in Conn
      BY <1>0, Zenon DEF Calls
    <3>6. Apart'
      BY <1>0, <2>1, <2>3, <3>3, <3>5, Zenon DEF Owned, Apart
    <3>7. Quiet'
      BY <2>3, Zenon DEF Quiet
    <3> QED
      BY <3>4, <3>6, <3>7, Zenon DEF Owned
  <2> QED
    BY <1>13, <2>2, <2>3, Zenon DEF read_broadcast
<1>14. CASE Stops
  <2>1. /\ UNCHANGED <<call, listener>> /\ closed' = {}
        /\ \A c \in Conn : h'[c].pc = "free" /\ in'[c] = None
        /\ out' = [c \in Conn |-> IF c \in Held THEN out[c] ELSE <<>>]
    BY <1>14, FreeFacts, Zenon DEF Stops, service
  <2>2. Held' = Held
    BY <2>1, Zenon DEF Held
  <2>3. Left'
    BY <2>1, <2>2, Zenon DEF Left
  <2>4. Apart'
    BY <2>1, <2>2, Zenon DEF Owned, Apart
  <2>5. Quiet'
    BY <1>0, <2>1, Zenon DEF Quiet
  <2> QED
    BY <2>3, <2>4, <2>5 DEF Owned
<1>15. CASE Starts \/ UNCHANGED vars
  BY <1>1, <1>15, Zenon DEF Starts, vars, daemon, socket, service
<1>16. CASE AcceptFails
  <2>1. closed' \subseteq closed /\ UNCHANGED <<out, call, listener>>
    BY <1>16, RefusedSet, Zenon
  <2>2. \A d \in Conn : h'[d].pc # "free" => h[d].pc # "free" /\ (d \in closed => d \in closed')
    BY <1>16, RefusedSet, FreeFacts, ZenonT(60)
  <2>3. listener # None => in'[listener] = None
                           /\ h'[listener].pc \in {"free", "accepting", "register", "read"}
    BY <1>0, <1>16, RefusedSet, FreeFacts, ZenonT(60) DEF Owned, Quiet
  <2> QED
    BY <2>1, <2>2, <2>3, OwnedServer, Zenon
<1> QED
  BY <1>2, <1>3, <1>4, <1>5, <1>7, <1>8, <1>10, <1>11, <1>12, <1>13, <1>14, <1>15, <1>16, SMTT(30)
    DEF Next, Server

(****************************************************************************)
(* The sync roots come first.                                               *)
(****************************************************************************)

IsRoot(l) == l.kind = "REGISTER_PATH"
Ordered(q) == \A i, j \in 1..Len(q) : i <= j /\ ~IsRoot(q[i]) => ~IsRoot(q[j])
OnlyRoots(q) == \A i \in 1..Len(q) : IsRoot(q[i])

Announced ==
  \A c \in Conn : Ordered(out[c]) /\ (h[c].pc \in {"accepting", "register"} => OnlyRoots(out[c]))

\* What announcing says of the lines is RootsFirst.
LEMMA AnnouncedRoots ==
  ASSUME ShellTypes, Announced
  PROVE  RootsFirst
<1>1. ASSUME NEW c \in Conn, NEW i \in 1..Len(out[c]), out[c][i].kind # "REGISTER_PATH"
      PROVE  h[c].pc # "register" /\ \A j \in i..Len(out[c]) : out[c][j].kind # "REGISTER_PATH"
  <2>1. Len(out[c]) \in Nat
    BY DEF ShellTypes, QueueTypes, SocketTypes
  <2>2. \A j \in i..Len(out[c]) : j \in 1..Len(out[c]) /\ i <= j
    BY <2>1
  <2>3. Ordered(out[c]) /\ (h[c].pc = "register" => OnlyRoots(out[c]))
    BY Zenon DEF Announced
  <2> QED
    BY <1>1, <2>2, <2>3, Zenon DEF Ordered, OnlyRoots, IsRoot
<1> QED
  BY <1>1, Zenon DEF RootsFirst

\* Lines in order stay so when one is added or taken.
LEMMA OrderedQueues ==
  ASSUME NEW q \in Seq(Lines), Ordered(q)
  PROVE  /\ \A l \in Lines \ {Register} : Ordered(Append(q, l))
         /\ OnlyRoots(q) => OnlyRoots(Append(q, Register)) /\ Ordered(Append(q, Register))
         /\ q # <<>> => Ordered(Tail(q)) /\ (OnlyRoots(q) => OnlyRoots(Tail(q)))
<1>1. ASSUME NEW l \in Lines
      PROVE  /\ Len(Append(q, l)) = Len(q) + 1 /\ Append(q, l)[Len(q) + 1] = l
             /\ \A i \in 1..(Len(q) + 1) : i = Len(q) + 1 \/ (i \in 1..Len(q) /\ Append(q, l)[i] = q[i])
  OBVIOUS
<1>2. ASSUME NEW l \in Lines \ {Register} PROVE Ordered(Append(q, l))
  <2> DEFINE t == Append(q, l)
  <2>1. /\ Len(t) = Len(q) + 1 /\ t[Len(q) + 1] = l
        /\ \A i \in 1..(Len(q) + 1) : i = Len(q) + 1 \/ (i \in 1..Len(q) /\ t[i] = q[i])
    BY <1>1, Zenon
  <2>2. ~IsRoot(l)
    BY LineFacts, Zenon DEF IsRoot
  <2> HIDE DEF t
  <2>3. ASSUME NEW i \in 1..Len(t), NEW j \in 1..Len(t), i <= j, ~IsRoot(t[i]) PROVE ~IsRoot(t[j])
    <3>1. CASE j = Len(q) + 1
      BY <2>1, <2>2, <3>1, Zenon
    <3>2. CASE j # Len(q) + 1
      <4>1. j \in 1..Len(q) /\ t[j] = q[j] /\ Len(q) \in Nat
        BY <2>1, <3>2
      <4>2. i \in 1..Len(q) /\ t[i] = q[i]
        BY <2>1, <2>3, <4>1
      <4> QED
        BY <2>3, <4>1, <4>2, Zenon DEF Ordered
    <3> QED
      BY <3>1, <3>2, Zenon
  <2>4. Ordered(t)
    BY <2>3, Zenon DEF Ordered
  <2> QED
    BY <2>4, Zenon DEF t
<1>3. ASSUME OnlyRoots(q) PROVE OnlyRoots(Append(q, Register)) /\ Ordered(Append(q, Register))
  <2> DEFINE t == Append(q, Register)
  <2>1. Register \in Lines /\ IsRoot(Register)
    BY LineFacts, Zenon DEF IsRoot
  <2>2. /\ Len(t) = Len(q) + 1 /\ t[Len(q) + 1] = Register
        /\ \A i \in 1..(Len(q) + 1) : i = Len(q) + 1 \/ (i \in 1..Len(q) /\ t[i] = q[i])
    BY <1>1, <2>1, Zenon
  <2> HIDE DEF t
  <2>3. OnlyRoots(t)
    BY <1>3, <2>1, <2>2, Zenon DEF OnlyRoots
  <2>4. Ordered(t)
    BY <2>3, Zenon DEF Ordered, OnlyRoots
  <2> QED
    BY <2>3, <2>4, Zenon DEF t
<1>4. ASSUME q # <<>> PROVE Ordered(Tail(q)) /\ (OnlyRoots(q) => OnlyRoots(Tail(q)))
  <2> DEFINE t == Tail(q)
  <2>1. Len(t) = Len(q) - 1 /\ Len(q) \in Nat /\ \A i \in 1..(Len(q) - 1) : t[i] = q[i + 1]
    BY <1>4
  <2> HIDE DEF t
  <2>2. \A i \in 1..Len(t) : i + 1 \in 1..Len(q) /\ t[i] = q[i + 1]
    BY <2>1
  <2>3. Ordered(t)
    BY <2>2 DEF Ordered
  <2>4. OnlyRoots(q) => OnlyRoots(t)
    BY <2>2, Zenon DEF OnlyRoots
  <2> QED
    BY <2>3, <2>4, Zenon DEF t
<1> QED
  BY <1>2, <1>3, <1>4, Zenon

\* Nothing is no line out of order.
LEMMA NothingOrdered == Ordered(<<>>) /\ OnlyRoots(<<>>)
BY DEF Ordered, OnlyRoots

\* Every step keeps the announcement of the roots before anything else.
LEMMA AnnouncedStep ==
  ASSUME ShellTypes, Lives, Owned, Announced, [Next]_vars
  PROVE  Announced'
<1>0. /\ h \in [Conn -> Handlers] /\ out \in [Conn -> Seq(Lines)]
      /\ channel \in [Conn -> Seq(Statuses)] /\ \A c \in Conn : Ready(h[c])
      /\ listener \in Conn \cup {None} /\ None \notin Conn
  BY ShellAssumption, Zenon
     DEF ShellTypes, HandlerTypes, QueueTypes, ChannelTypes, SocketTypes, ClientTypes
<1>1. ASSUME NEW c \in Conn, \A d \in Conn \ {c} : out'[d] = out[d] /\ h'[d] = h[d],
             Ordered(out'[c]), h'[c].pc \in {"accepting", "register"} => OnlyRoots(out'[c])
      PROVE  Announced'
  BY <1>1, Zenon DEF Announced
<1>2. ASSUME out' = out, h' = h PROVE Announced'
  BY <1>2, Zenon DEF Announced
<1>3. \A c \in Conn : Ordered(out[c]) /\ out[c] \in Seq(Lines)
  BY <1>0, Zenon DEF Announced
<1>4. ASSUME NEW c \in Conn, Accept(c) PROVE Announced'
  <2>1. \A d \in Conn \ {c} : out'[d] = out[d] /\ h'[d] = h[d]
    BY <1>0, <1>4, Zenon DEF Accept, Spawned, socket
  <2>2. out'[c] = out[c] /\ OnlyRoots(out[c])
    BY <1>4, Zenon DEF Accept, socket, Announced
  <2> QED
    BY <1>1, <1>3, <2>1, <2>2, Zenon
<1>5. ASSUME NEW c \in Conn, register(c) PROVE Announced'
  <2>1. \A d \in Conn \ {c} : out'[d] = out[d] /\ h'[d] = h[d]
    BY <1>0, <1>5, Zenon DEF register, Spawned
  <2>2. OnlyRoots(out[c])
    BY <1>5, Zenon DEF register, Announced
  <2>3. out'[c] = out[c] \/ out'[c] = Append(out[c], Register)
    BY <1>0, <1>5, Zenon DEF register
  <2>4. Ordered(out'[c]) /\ OnlyRoots(out'[c])
    BY <1>3, <2>2, <2>3, OrderedQueues, Zenon
  <2> QED
    BY <1>1, <2>1, <2>4, Zenon
<1>6. ASSUME NEW c \in Conn, WriteTask(c) PROVE Announced'
  <2>1. h' = h /\ writer[c] = "runs" /\ channel[c] # <<>>
    BY <1>6, Zenon DEF WriteTask
  <2>2. h[c].pc \notin {"accepting", "register"}
    BY <2>1, Zenon DEF Lives
  <2>3. CASE out' = out
    BY <1>2, <2>1, <2>3, Zenon
  <2>4. CASE out' = [out EXCEPT ![c] = Append(@, Head(channel[c]))]
    <3>1. Head(channel[c]) \in Statuses
      BY <1>0, <2>1
    <3>2. Head(channel[c]) \in Lines \ {Register}
      BY <3>1, LineFacts, Zenon
    <3>3. Ordered(Append(out[c], Head(channel[c])))
      BY <1>3, <3>2, OrderedQueues, Zenon
    <3>4. out'[c] = Append(out[c], Head(channel[c])) /\ \A d \in Conn \ {c} : out'[d] = out[d]
      BY <1>0, <2>4, Zenon
    <3> QED
      BY <1>1, <2>1, <2>2, <3>3, <3>4, Zenon
  <2> QED
    BY <1>6, <2>3, <2>4, Zenon DEF WriteTask
<1>7. ASSUME NEW c \in Conn, NEW r \in Handlers, h' = [h EXCEPT ![c] = r], out' = out,
             r.pc \notin {"accepting", "register"}
      PROVE  Announced'
  <2>1. h'[c].pc \notin {"accepting", "register"} /\ \A d \in Conn \ {c} : h'[d] = h[d]
    BY <1>0, <1>7, Zenon
  <2> QED
    BY <1>1, <1>3, <1>7, <2>1, Zenon
<1>8. ASSUME NEW c \in Conn, dispatch_line(c) PROVE Announced'
  <2>1. PICK r \in Handlers : h' = [h EXCEPT ![c] = r] /\ r.pc \in {"read", "vfs", "reply"}
    BY <1>8, DispatchSet, Zenon
  <2>2. out' = out
    BY <1>8, Zenon DEF dispatch_line
  <2> QED
    BY <1>7, <2>1, <2>2, Zenon
<1>9. ASSUME NEW c \in Conn, Vfs(c) PROVE Announced'
  <2>1. PICK r \in Handlers : h' = [h EXCEPT ![c] = r] /\ r.pc \in {"send", "vfs", "reply"}
    BY <1>9, VfsSet, Zenon
  <2>2. out' = out
    BY <1>9, Zenon DEF Vfs, socket
  <2> QED
    BY <1>7, <2>1, <2>2, Zenon
<1>10. ASSUME NEW c \in Conn, Send(c) PROVE Announced'
  <2>1. PICK dead \in SUBSET Conn : Sent(c, dead)
    BY <1>10, SendDead, Zenon
  <2>2. h[c].pc = "send" /\ out' = out
    BY <1>10, Zenon DEF Send, socket
  <2>3. PICK r \in Handlers : h' = [h EXCEPT ![c] = r] /\ r.pc \in {"send", "vfs", "reply"}
    BY <2>1, <2>2, SentSet, Zenon
  <2> QED
    BY <1>7, <2>2, <2>3, Zenon
<1>11. ASSUME NEW c \in Conn, End(c), out' = out PROVE Announced'
  BY <1>7, <1>11, FreeFacts, Zenon DEF End
<1>12. ASSUME NEW c \in Conn, WriteReply(c) PROVE Announced'
  <2>1. h[c].msg \in Lines \ {Register}
    BY <1>0, <1>12, Zenon DEF Ready, WriteReply
  <2>2. PICK r \in Handlers :
           /\ h' = [h EXCEPT ![c] = r]
           /\ (End(c) /\ out' = out) \/ (r.pc = "read" /\ out' = [out EXCEPT ![c] = Append(@, h[c].msg)])
    BY <1>12, WriteReplySet, Zenon
  <2>3. CASE End(c) /\ out' = out
    BY <1>11, <2>3, Zenon
  <2>4. CASE r.pc = "read" /\ out' = [out EXCEPT ![c] = Append(@, h[c].msg)]
    <3>1. h'[c].pc = "read" /\ out'[c] = Append(out[c], h[c].msg)
          /\ \A d \in Conn \ {c} : out'[d] = out[d] /\ h'[d] = h[d]
      BY <1>0, <2>2, <2>4, Zenon
    <3>2. Ordered(Append(out[c], h[c].msg))
      BY <1>3, <2>1, OrderedQueues, Zenon
    <3>3. h'[c].pc \notin {"accepting", "register"}
      BY <3>1, Zenon
    <3> QED
      BY <1>1, <3>1, <3>2, <3>3, Zenon
  <2> QED
    BY <2>2, <2>3, <2>4, Zenon
<1>13. ASSUME NEW c \in Conn, EndOfInput(c) PROVE Announced'
  BY <1>11, <1>13, Zenon DEF EndOfInput
<1>14. ASSUME NEW c \in Conn, NEW cmd, Connect(c, cmd), out' = out PROVE Announced'
  <2>1. PICK r \in Handlers : h' = [h EXCEPT ![c] = r] /\ c \notin Held
    BY <1>14, ConnectSet, Zenon
  <2>2. out[c] = <<>>
    BY <2>1, Zenon DEF Owned, Left
  <2>3. \A d \in Conn \ {c} : h'[d] = h[d]
    BY <1>0, <2>1, Zenon
  <2> QED
    BY <1>1, <1>14, <2>2, <2>3, NothingOrdered, Zenon
<1>15. ASSUME NEW k \in Caller, Call(k) PROVE Announced'
  BY <1>14, <1>15, Zenon DEF Call
<1>16. ASSUME NEW k \in Caller, ReadLine(k) PROVE Announced'
  <2>1. h' = h /\ call[k].conn \in Conn
    BY <1>16, Zenon DEF ReadLine, daemon, ShellTypes, ClientTypes, Calls
  <2>2. out' = out \/ out' = [out EXCEPT ![call[k].conn] = <<>>]
    BY <1>16, Zenon DEF ReadLine
  <2>3. CASE out' = [out EXCEPT ![call[k].conn] = <<>>]
    <3>1. out'[call[k].conn] = <<>> /\ \A d \in Conn \ {call[k].conn} : out'[d] = out[d]
      BY <1>0, <2>1, <2>3, Zenon
    <3> QED
      BY <1>1, <2>1, <3>1, NothingOrdered, Zenon
  <2> QED
    BY <1>2, <2>1, <2>2, <2>3, Zenon
<1>17. CASE ListenerConnects
  BY <1>14, <1>17, Zenon DEF ListenerConnects
<1>18. CASE read_broadcast
  <2>1. h' = h /\ listener \in Conn
    BY <1>0, <1>18, Zenon DEF read_broadcast, daemon
  <2>2. out' = out \/ (out[listener] # <<>> /\ out' = [out EXCEPT ![listener] = Tail(@)])
    BY <1>18, Zenon DEF read_broadcast
  <2>3. CASE out[listener] # <<>> /\ out' = [out EXCEPT ![listener] = Tail(@)]
    <3>1. out'[listener] = Tail(out[listener]) /\ \A d \in Conn \ {listener} : out'[d] = out[d]
      BY <1>0, <2>1, <2>3, Zenon
    <3>2. Ordered(Tail(out[listener])) /\ (OnlyRoots(out[listener]) => OnlyRoots(Tail(out[listener])))
      BY <1>3, <2>1, <2>3, OrderedQueues, Zenon
    <3>3. h[listener].pc \in {"accepting", "register"} => OnlyRoots(out[listener])
      BY <2>1, Zenon DEF Announced
    <3> QED
      BY <1>1, <2>1, <3>1, <3>2, <3>3, Zenon
  <2> QED
    BY <1>2, <2>1, <2>2, <2>3, Zenon
<1>19. CASE Stops
  <2>1. \A c \in Conn : h'[c].pc = "free" /\ (out'[c] = out[c] \/ out'[c] = <<>>)
    BY <1>19, FreeFacts, Zenon DEF Stops
  <2> QED
    BY <1>3, <2>1, NothingOrdered, Zenon DEF Announced
<1>20. CASE Starts \/ UNCHANGED vars
  BY <1>2, <1>20, Zenon DEF Starts, vars, daemon, socket
<1>21. CASE AcceptFails
  <2>1. out' = out /\ \A c \in Conn : h'[c] = h[c] \/ h'[c].pc = "free"
    BY <1>21, RefusedSet, FreeFacts, Zenon
  <2> QED
    BY <2>1, Zenon DEF Announced
<1> QED
  BY <1>4, <1>5, <1>6, <1>8, <1>9, <1>10, <1>12, <1>13, <1>15, <1>16, <1>17, <1>18, <1>19, <1>20, <1>21, ZenonT(60)
     DEF Next, Server

(****************************************************************************)
(* The badge follows the last hydration.                                    *)
(****************************************************************************)

About(l, p) == l.kind = "STATUS" /\ l.path = p
Silent(q, p) == \A i \in 1..Len(q) : ~About(q[i], p)

\* The last line of q about p has this tag.
LastSays(q, p, tag) ==
  \E i \in 1..Len(q) : /\ About(q[i], p) /\ q[i].tag = tag
                       /\ \A j \in 1..Len(q) : j > i => ~About(q[j], p)

Sends(d, p) == h[d].pc = "send" /\ h[d].msg.path = p

\* What the listener is told of p last is the tag of its last hydration: the
\* channel is behind the socket, and the socket behind what is shown.
Told(p) ==
  \/ LastSays(channel[listener], p, last[p])
  \/ /\ Silent(channel[listener], p)
     /\ LastSays(out[listener], p, last[p]) \/ (Silent(out[listener], p) /\ shown[p] = last[p])

ToBeTold(p) == \E d \in Conn : Sends(d, p) /\ listener \in Range(h[d].targets)

\* For a path the listener can be told of in order: every broadcast under way
\* has the last tag, one is under way only while the listener is in the list, and
\* the listener is told or about to be.
Follows(p) ==
  /\ \A d \in Conn : Sends(d, p) => h[d].msg.tag = last[p]
  /\ listener \in Range(members) \/ \A d \in Conn : ~Sends(d, p)
  /\ listener = None => shown[p] = last[p]
  /\ listener # None => Told(p) \/ ToBeTold(p)

Badge ==
  /\ listener # None /\ h[listener].pc = "free" => excused = Path
  /\ \A p \in Path \ excused : Follows(p)

\* What following says of the signals is BadgeFollows.
LEMMA BadgeShows ==
  ASSUME ShellTypes, Badge
  PROVE  BadgeFollows
<1>1. ASSUME listener # None, NEW p \in Path \ excused PROVE Pending(p) \/ shown[p] = last[p]
  <2>1. Told(p) \/ ToBeTold(p)
    BY <1>1, Zenon DEF Badge, Follows
  <2> QED
    BY <2>1, Zenon DEF Told, ToBeTold, Sends, Pending, LastSays, About
<1> QED
  BY <1>1, Zenon DEF BadgeFollows

\* A queue that gets a line.
LEMMA SaysAdded ==
  ASSUME NEW q \in Seq(Lines), NEW l \in Lines, NEW p, NEW tag
  PROVE  /\ About(l, p) /\ l.tag = tag => LastSays(Append(q, l), p, tag)
         /\ ~About(l, p) /\ LastSays(q, p, tag) => LastSays(Append(q, l), p, tag)
         /\ ~About(l, p) /\ Silent(q, p) => Silent(Append(q, l), p)
<1> DEFINE t == Append(q, l)
<1>1. Len(t) = Len(q) + 1 /\ Len(q) \in Nat /\ t[Len(q) + 1] = l /\ \A i \in 1..Len(q) : t[i] = q[i]
  OBVIOUS
<1> HIDE DEF t
<1>2. \A i \in 1..Len(t) : i = Len(q) + 1 \/ i \in 1..Len(q)
  BY <1>1
<1>3. ASSUME About(l, p), l.tag = tag PROVE LastSays(t, p, tag)
  <2>1. Len(q) + 1 \in 1..Len(t) /\ \A j \in 1..Len(t) : ~(j > Len(q) + 1)
    BY <1>1
  <2> QED
    BY <1>1, <1>3, <2>1, Zenon DEF LastSays
<1>4. ASSUME ~About(l, p), LastSays(q, p, tag) PROVE LastSays(t, p, tag)
  <2>1. PICK i \in 1..Len(q) : /\ About(q[i], p) /\ q[i].tag = tag
                               /\ \A j \in 1..Len(q) : j > i => ~About(q[j], p)
    BY <1>4, Zenon DEF LastSays
  <2>2. i \in 1..Len(t) /\ t[i] = q[i]
    BY <1>1
  <2>3. \A j \in 1..Len(t) : j > i => ~About(t[j], p)
    BY <1>1, <1>2, <1>4, <2>1, Zenon
  <2> QED
    BY <2>1, <2>2, <2>3, Zenon DEF LastSays
<1>5. ASSUME ~About(l, p), Silent(q, p) PROVE Silent(t, p)
  BY <1>1, <1>2, <1>5, Zenon DEF Silent
<1> QED
  BY <1>3, <1>4, <1>5, Zenon DEF t

\* A queue whose first line is taken.
LEMMA SaysTaken ==
  ASSUME NEW q \in Seq(Lines), q # <<>>, NEW p, NEW tag
  PROVE  /\ LastSays(q, p, tag) => \/ LastSays(Tail(q), p, tag)
                                   \/ About(Head(q), p) /\ Head(q).tag = tag /\ Silent(Tail(q), p)
         /\ Silent(q, p) => Silent(Tail(q), p) /\ ~About(Head(q), p)
<1> DEFINE t == Tail(q)
<1>1. /\ Len(t) = Len(q) - 1 /\ Len(q) \in Nat /\ Len(q) > 0 /\ Head(q) = q[1]
      /\ \A i \in 1..(Len(q) - 1) : t[i] = q[i + 1]
  OBVIOUS
<1> HIDE DEF t
<1>2. \A i \in 1..Len(t) : i + 1 \in 1..Len(q) /\ t[i] = q[i + 1]
  BY <1>1
<1>3. ASSUME LastSays(q, p, tag)
      PROVE  LastSays(t, p, tag) \/ (About(Head(q), p) /\ Head(q).tag = tag /\ Silent(t, p))
  <2>1. PICK i \in 1..Len(q) : /\ About(q[i], p) /\ q[i].tag = tag
                               /\ \A j \in 1..Len(q) : j > i => ~About(q[j], p)
    BY <1>3, Zenon DEF LastSays
  <2>2. CASE i = 1
    <3>1. \A j \in 1..Len(t) : j + 1 > i
      BY <2>2
    <3>2. Silent(t, p)
      BY <1>2, <2>1, <3>1, Zenon DEF Silent
    <3> QED
      BY <1>1, <2>1, <2>2, <3>2, Zenon
  <2>3. CASE i # 1
    <3>1. i - 1 \in 1..Len(t) /\ (i - 1) + 1 = i
      BY <1>1, <2>3
    <3>2. t[i - 1] = q[i]
      BY <1>2, <3>1, Zenon
    <3>3. \A j \in 1..Len(t) : j > i - 1 => j + 1 > i
      BY <1>1
    <3>4. \A j \in 1..Len(t) : j > i - 1 => ~About(t[j], p)
      BY <1>2, <2>1, <3>3, Zenon
    <3> QED
      BY <2>1, <3>1, <3>2, <3>4, Zenon DEF LastSays
  <2> QED
    BY <2>2, <2>3, Zenon
<1>4. ASSUME Silent(q, p) PROVE Silent(t, p) /\ ~About(Head(q), p)
  <2>1. 1 \in 1..Len(q)
    BY <1>1
  <2> QED
    BY <1>1, <1>2, <1>4, <2>1, Zenon DEF Silent
<1> QED
  BY <1>3, <1>4, Zenon DEF t

\* A step that neither hydrates nor sends, and tells the listener in order.
LEMMA BadgeFrame ==
  ASSUME Badge, UNCHANGED <<last, excused, listener>>,
         \A d \in Conn : (h'[d].pc = "send" <=> h[d].pc = "send") /\ (h[d].pc = "send" => h'[d] = h[d]),
         listener \in Range(members) => listener \in Range(members'),
         listener # None /\ h'[listener].pc = "free" => h[listener].pc = "free",
         listener = None => shown' = shown,
         listener # None => \A p \in Path \ excused : Told(p) => Told(p)'
  PROVE  Badge'
<1>1. \A d \in Conn, p \in Path : Sends(d, p)' <=> Sends(d, p)
  BY Zenon DEF Sends
<1>2. \A d \in Conn, p \in Path : Sends(d, p) => h'[d] = h[d]
  BY Zenon DEF Sends
<1>3. ASSUME NEW p \in Path \ excused PROVE Follows(p)'
  <2>1. Follows(p)
    BY Zenon DEF Badge
  <2>2. ToBeTold(p) => ToBeTold(p)'
    BY <1>1, <1>2, Zenon DEF ToBeTold
  <2>3. \A d \in Conn : Sends(d, p)' => h'[d].msg.tag = last'[p]
    BY <1>1, <1>2, <2>1, Zenon DEF Follows
  <2>4. listener' \in Range(members') \/ \A d \in Conn : ~Sends(d, p)'
    BY <1>1, <2>1, Zenon DEF Follows
  <2>5. listener' = None => shown'[p] = last'[p]
    BY <2>1, Zenon DEF Follows
  <2>6. listener' # None => Told(p)' \/ ToBeTold(p)'
    BY <2>1, <2>2, Zenon DEF Follows
  <2> QED
    BY <2>3, <2>4, <2>5, <2>6 DEF Follows
<1> QED
  BY <1>3, Zenon DEF Badge

\* The listener's queues are as they were.
LEMMA ToldSame ==
  ASSUME NEW p \in Path, UNCHANGED <<shown, listener>>, last'[p] = last[p],
         channel'[listener] = channel[listener], out'[listener] = out[listener]
  PROVE  Told(p)' <=> Told(p)
BY Zenon DEF Told

\* A listener that is not excused receives.
LEMMA ListenerReceives ==
  ASSUME ShellTypes, Lives, Owned, Badge, listener # None
  PROVE  /\ listener \in Conn /\ listener \in Held /\ listener \notin closed /\ writer[listener] # "ended"
         /\ excused # Path => listener \notin Gone /\ h[listener].pc # "free"
<1>1. listener \in Conn /\ listener \in Held
  BY Zenon DEF ShellTypes, ClientTypes, Held
<1>2. listener \notin closed
  BY <1>1, Zenon DEF Owned, Apart
<1>3. writer[listener] # "ended"
  BY <1>1, <1>2, Zenon DEF Lives
<1>4. excused # Path => h[listener].pc # "free"
  BY Zenon DEF Badge
<1> QED
  BY <1>1, <1>2, <1>3, <1>4, Zenon DEF Gone

\* The write task and the broadcast loop move the first line on, in order.
LEMMA ToldOn ==
  ASSUME ShellTypes, listener \in Conn, UNCHANGED <<last, listener>>, NEW p \in Path, Told(p),
         \/ /\ channel[listener] # <<>> /\ channel'[listener] = Tail(channel[listener])
            /\ out'[listener] = Append(out[listener], Head(channel[listener])) /\ shown' = shown
         \/ /\ out[listener] # <<>> /\ out'[listener] = Tail(out[listener])
            /\ channel'[listener] = channel[listener]
            /\ shown' = LET line == Head(out[listener]) IN
                        IF line.kind = "STATUS" THEN [shown EXCEPT ![line.path] = line.tag] ELSE shown
  PROVE  Told(p)'
<1> DEFINE q == channel[listener]
           o == out[listener]
<1>1. q \in Seq(Statuses) /\ o \in Seq(Lines) /\ shown \in [Path -> Tags \cup {None}]
  BY Zenon DEF ShellTypes, QueueTypes, ChannelTypes, SocketTypes, ClientTypes
<1>2. q \in Seq(Lines)
  BY <1>1, LineFacts
<1>3. \/ LastSays(q, p, last[p])
      \/ Silent(q, p) /\ (LastSays(o, p, last[p]) \/ (Silent(o, p) /\ shown[p] = last[p]))
  BY Zenon DEF Told
<1>4. ASSUME q # <<>>, channel'[listener] = Tail(q), out'[listener] = Append(o, Head(q)), shown' = shown
      PROVE  Told(p)'
  <2>1. Head(q) \in Lines
    BY <1>2, <1>4
  <2> HIDE DEF q, o
  <2>2. /\ LastSays(q, p, last[p]) => \/ LastSays(Tail(q), p, last[p])
                                      \/ /\ About(Head(q), p) /\ Head(q).tag = last[p]
                                         /\ Silent(Tail(q), p)
        /\ Silent(q, p) => Silent(Tail(q), p) /\ ~About(Head(q), p)
    BY <1>2, <1>4, SaysTaken, Zenon
  <2>3. /\ About(Head(q), p) /\ Head(q).tag = last[p] => LastSays(Append(o, Head(q)), p, last[p])
        /\ ~About(Head(q), p) /\ LastSays(o, p, last[p]) => LastSays(Append(o, Head(q)), p, last[p])
        /\ ~About(Head(q), p) /\ Silent(o, p) => Silent(Append(o, Head(q)), p)
    BY <1>1, <2>1, SaysAdded, Zenon
  <2> DEFINE t == Tail(q)
             l == Head(q)
             a == Append(o, l)
  <2>4. \/ LastSays(t, p, last[p])
        \/ Silent(t, p) /\ (LastSays(a, p, last[p]) \/ (Silent(a, p) /\ shown[p] = last[p]))
    BY <1>3, <2>2, <2>3, ZenonT(60)
  <2>5. channel'[listener'] = t /\ out'[listener'] = a /\ shown'[p] = shown[p] /\ last'[p] = last[p]
    BY <1>4, Zenon
  <2> HIDE DEF t, a
  <2> QED
    BY <2>4, <2>5, Zenon DEF Told
<1>5. ASSUME o # <<>>, out'[listener] = Tail(o), channel'[listener] = q,
             shown' = IF Head(o).kind = "STATUS" THEN [shown EXCEPT ![Head(o).path] = Head(o).tag] ELSE shown
      PROVE  Told(p)'
  <2>1. Head(o) \in Lines
    BY <1>1, <1>5
  <2> HIDE DEF q, o
  <2> DEFINE t == Tail(o)
             l == Head(o)
  <2>2. /\ LastSays(o, p, last[p]) => \/ LastSays(t, p, last[p])
                                      \/ About(l, p) /\ l.tag = last[p] /\ Silent(t, p)
        /\ Silent(o, p) => Silent(t, p) /\ ~About(l, p)
    BY <1>1, <1>5, SaysTaken, Zenon
  <2>3. shown' = IF l.kind = "STATUS" THEN [shown EXCEPT ![l.path] = l.tag] ELSE shown
    BY <1>5, Zenon
  <2>4. channel'[listener'] = q /\ out'[listener'] = t /\ last'[p] = last[p]
    BY <1>5, Zenon
  <2> HIDE DEF t, l
  <2>5. About(l, p) => shown'[p] = l.tag
    BY <1>1, <2>3, Zenon DEF About
  <2>6. ~About(l, p) => shown'[p] = shown[p]
    BY <1>1, <2>3, Zenon DEF About
  <2>7. \/ LastSays(q, p, last[p])
        \/ Silent(q, p) /\ (LastSays(t, p, last[p]) \/ (Silent(t, p) /\ shown'[p] = last[p]))
    BY <1>3, <2>2, <2>5, <2>6, Zenon
  <2> QED
    BY <2>4, <2>7, Zenon DEF Told
<1> QED
  BY <1>4, <1>5, Zenon

\* A hydration, and the broadcast it begins.
LEMMA BadgeVfs ==
  ASSUME ShellTypes, MembersServed, Owned, Badge, NEW c \in Conn, Vfs(c)
  PROVE  Badge'
<1>0. /\ h \in [Conn -> Handlers] /\ last \in [Path -> Tags \cup {None}] /\ None \notin Conn
      /\ listener \in Conn \cup {None} /\ members \in Seq(Conn) /\ excused \subseteq Path
  BY ShellAssumption, Zenon DEF ShellTypes, HandlerTypes, ServerTypes, ClientTypes
<1>1. h[c].pc = "vfs" /\ UNCHANGED <<members, channel, out, listener, shown>>
  BY Zenon DEF Vfs, socket, service
<1>2. PICK p \in Path, tag \in VfsResult, r \in Handlers :
           /\ h' = [h EXCEPT ![c] = r]
           /\ r.pc = "send" <=> members # <<>>
           /\ r.pc = "send" => r.msg = Status(tag, p) /\ r.targets = members
           /\ r.pc \in {"send", "vfs", "reply"}
           /\ last' = [last EXCEPT ![p] = tag]
           /\ excused' = IF Underway(p) \/ listener \notin Range(members)
                         THEN excused \cup {p} ELSE excused \ {p}
  BY VfsSet
<1>3. h'[c] = r /\ \A d \in Conn \ {c} : h'[d] = h[d]
  BY <1>0, <1>2, Zenon
<1>4. c # listener
  BY <1>0, <1>1, Zenon DEF Owned, Quiet
<1>5. r.pc = "send" => r.msg.path = p /\ r.msg.tag = tag
  BY <1>2 DEF Status
<1>6. listener # None /\ h'[listener].pc = "free" => excused' = Path
  <2>1. listener # None /\ h'[listener].pc = "free" => listener \notin Range(members) /\ excused = Path
    BY <1>0, <1>3, <1>4, ZenonT(60) DEF Badge, MembersServed
  <2> QED
    BY <1>2, <2>1, Zenon
<1>7. ASSUME p \notin excused' PROVE Follows(p)'
  <2>1. ~Underway(p) /\ listener \in Range(members)
    BY <1>2, <1>7, Zenon
  <2>2. members # <<>> /\ listener \in Conn
    BY <1>0, <2>1 DEF Range
  <2>3. r.pc = "send" /\ r.targets = members
    BY <1>2, <2>2, Zenon
  <2>4. \A d \in Conn : Sends(d, p)' <=> d = c
    BY <1>3, <1>5, <2>1, <2>3, ZenonT(60) DEF Sends, Underway
  <2>5. last'[p] = tag
    BY <1>0, <1>2, Zenon
  <2>6. ToBeTold(p)'
    BY <1>1, <1>3, <2>1, <2>3, <2>4, ZenonT(60) DEF ToBeTold
  <2> QED
    BY <1>0, <1>1, <1>3, <1>5, <2>1, <2>2, <2>3, <2>4, <2>5, <2>6, SMTT(30)
      DEF Follows
<1>8. ASSUME NEW x \in Path \ excused', x # p PROVE Follows(x)'
  <2>1. x \in Path \ excused /\ last'[x] = last[x]
    BY <1>0, <1>2, <1>8, Zenon
  <2>2. \A d \in Conn : Sends(d, x)' <=> Sends(d, x)
    BY <1>1, <1>3, <1>5, <1>8, ZenonT(60) DEF Sends
  <2>3. \A d \in Conn : Sends(d, x) => h'[d] = h[d]
    BY <1>1, <1>3, Zenon DEF Sends
  <2>4. Follows(x)
    BY <2>1, Zenon DEF Badge
  <2>5. Told(x)' <=> Told(x)
    BY <1>1, <2>1, ToldSame, ZenonT(60)
  <2>6. ToBeTold(x) => ToBeTold(x)'
    BY <1>1, <2>2, <2>3, ZenonT(60) DEF ToBeTold
  <2>7. \A d \in Conn : Sends(d, x)' => h'[d].msg.tag = last'[x]
    BY <2>1, <2>2, <2>3, <2>4, ZenonT(60) DEF Follows
  <2>8. listener' \in Range(members') \/ \A d \in Conn : ~Sends(d, x)'
    BY <1>1, <2>2, <2>4, Zenon DEF Follows
  <2>9. (listener' = None => shown'[x] = last'[x]) /\ (listener' # None => Told(x)' \/ ToBeTold(x)')
    BY <1>1, <2>1, <2>4, <2>5, <2>6, ZenonT(60) DEF Follows
  <2> QED
    BY <2>7, <2>8, <2>9, ZenonT(60) DEF Follows
<1> QED
  BY <1>1, <1>6, <1>7, <1>8, Zenon DEF Badge

\* One send of a broadcast.
LEMMA BadgeSend ==
  ASSUME ShellTypes, Lives, Owned, Badge, NEW c \in Conn, Send(c)
  PROVE  Badge'
<1>0. /\ h \in [Conn -> Handlers] /\ channel \in [Conn -> Seq(Statuses)] /\ None \notin Conn
      /\ listener \in Conn \cup {None} /\ members \in Seq(Conn) /\ h[c].msg \in Statuses
  BY ShellAssumption, Zenon
     DEF ShellTypes, HandlerTypes, ServerTypes, QueueTypes, ChannelTypes, ClientTypes, Ready, Send
<1>1. h[c].pc = "send" /\ UNCHANGED <<out, listener, shown, last, excused>>
  BY Zenon DEF Send, socket, service, history
<1>2. PICK t \in Conn, dead \in SUBSET Conn :
           /\ t = Head(h[c].targets) /\ Sent(c, dead)
           /\ \/ /\ Receives(t) /\ dead = h[c].dead
                 /\ channel' = [channel EXCEPT ![t] = Append(@, h[c].msg)]
              \/ /\ ~Receives(t) /\ dead = h[c].dead \cup {t} /\ channel' = channel
  BY SendDead, Zenon
<1>3. PICK targets \in Seq(Conn), r \in Handlers :
           /\ Range(h[c].targets) = Range(targets) \cup {t}
           /\ h' = [h EXCEPT ![c] = r]
           /\ r.pc \in {"send", "vfs", "reply"} /\ (r.pc = "send" <=> targets # <<>>)
           /\ r.pc = "send" => r.msg = h[c].msg /\ r.targets = targets
  <2> DEFINE rest == Tail(h[c].targets)
  <2>1. PICK r \in Handlers :
           /\ h' = [h EXCEPT ![c] = r]
           /\ r.pc \in {"send", "vfs", "reply"} /\ (r.pc = "send" <=> rest # <<>>)
           /\ r.pc = "send" => r.msg = h[c].msg /\ r.targets = rest
    BY <1>1, <1>2, SentSet, Zenon
  <2>2. rest \in Seq(Conn) /\ Range(h[c].targets) = Range(rest) \cup {t}
    BY <1>1, <1>2, SentSet, Zenon
  <2> HIDE DEF rest
  <2> QED
    BY <2>1, <2>2, Zenon
<1>4. h'[c] = r /\ \A d \in Conn \ {c} : h'[d] = h[d]
  BY <1>0, <1>3, Zenon
<1>5. c # listener
  BY <1>0, <1>1, ZenonT(60) DEF Owned, Quiet
<1>6. listener # None /\ h'[listener].pc = "free" => excused' = Path
  BY <1>0, <1>1, <1>4, <1>5, SMTT(30) DEF Badge
<1>7. ASSUME NEW p \in Path \ excused PROVE Follows(p)'
  <2>1. Follows(p)
    BY ZenonT(60) DEF Badge
  <2>2. \A d \in Conn : Sends(d, p)' => Sends(d, p) /\ h'[d].msg = h[d].msg
    BY <1>1, <1>3, <1>4, SMTT(30) DEF Sends
  <2>3. \A d \in Conn : Sends(d, p)' => h'[d].msg.tag = last'[p]
    BY <1>1, <2>1, <2>2, ZenonT(60) DEF Follows
  <2>4. listener' = None => shown'[p] = last'[p]
    BY <1>1, <2>1, ZenonT(60) DEF Follows
  <2>5. CASE listener = None
    <3>1. \A d \in Conn : ~Sends(d, p)
      BY <1>0, <2>1, <2>5 DEF Follows, Range
    <3> QED
      BY <1>1, <2>2, <2>3, <2>4, <2>5, <3>1, SMTT(30) DEF Follows
  <2>6. CASE listener # None
    <3>1. listener \in Conn /\ listener \notin Gone /\ h[listener].pc # "free" /\ writer[listener] # "ended"
      BY <1>7, <2>6, ListenerReceives, Zenon DEF Badge
    <3>2. Receives(listener)
      BY <3>1, Zenon DEF Receives
    <3>3. listener \notin dead
      BY <1>2, <3>1, <3>2, Zenon DEF Lives
    <3>4. Range(members) \ dead \subseteq Range(members')
      BY <1>1, <1>2, SentMembers, ZenonT(60)
    <3>5. listener' \in Range(members') \/ \A d \in Conn : ~Sends(d, p)'
      BY <1>1, <2>1, <2>2, <3>3, <3>4, SMTT(30) DEF Follows
    <3>6. CASE t = listener
      <4>1. channel'[listener] = Append(channel[listener], h[c].msg)
        BY <1>0, <1>2, <3>2, <3>6, ZenonT(60)
      <4>2. channel[listener] \in Seq(Lines) /\ h[c].msg \in Lines /\ h[c].msg.kind = "STATUS"
        BY <1>0, <3>1, LineFacts
      <4> DEFINE q == Append(channel[listener], h[c].msg)
      <4>3. /\ About(h[c].msg, p) /\ h[c].msg.tag = last[p] => LastSays(q, p, last[p])
            /\ ~About(h[c].msg, p) /\ LastSays(channel[listener], p, last[p]) => LastSays(q, p, last[p])
            /\ ~About(h[c].msg, p) /\ Silent(channel[listener], p) => Silent(q, p)
        BY <4>2, SaysAdded, ZenonT(60)
      <4>4. channel'[listener'] = q
        BY <1>1, <4>1, Zenon
      <4> HIDE DEF q
      <4>5. CASE About(h[c].msg, p)
        <5>1. h[c].msg.tag = last[p]
          BY <1>1, <2>1, <4>5, ZenonT(60) DEF Follows, Sends, About
        <5>2. Told(p)'
          BY <1>1, <4>3, <4>4, <4>5, <5>1, SMTT(30) DEF Told
        <5> QED
          BY <2>3, <2>4, <3>5, <5>2, ZenonT(60) DEF Follows
      <4>6. CASE ~About(h[c].msg, p)
        <5>1. Told(p) => Told(p)'
          BY <1>1, <4>3, <4>4, <4>6, SMTT(30) DEF Told
        <5>2. ~Sends(c, p)
          BY <4>2, <4>6, ZenonT(60) DEF Sends, About
        <5>3. ToBeTold(p) => ToBeTold(p)'
          BY <1>1, <1>4, <5>2, SMTT(30) DEF ToBeTold, Sends
        <5>4. Told(p)' \/ ToBeTold(p)'
          BY <2>1, <2>6, <5>1, <5>3, SMTT(30) DEF Follows
        <5> QED
          BY <2>3, <2>4, <3>5, <5>4, SMTT(30) DEF Follows
      <4> QED
        BY <4>5, <4>6, Zenon
    <3>7. CASE t # listener
      <4>1. channel'[listener] = channel[listener]
        BY <1>0, <1>2, <3>1, <3>7, SMTT(30)
      <4>2. Told(p) => Told(p)'
        BY <1>1, <4>1, ToldSame, SMTT(30)
      <4>3. ASSUME Sends(c, p), listener \in Range(h[c].targets)
            PROVE  Sends(c, p)' /\ listener \in Range(h'[c].targets)
        <5>1. listener \in Range(targets)
          BY <1>3, <3>7, <4>3, SMTT(30)
        <5>2. targets # <<>>
          BY <5>1, SMTT(30) DEF Range
        <5> QED
          BY <1>3, <1>4, <4>3, <5>1, <5>2, SMTT(30) DEF Sends
      <4>4. ToBeTold(p) => ToBeTold(p)'
        BY <1>1, <1>4, <4>3, SMTT(30) DEF ToBeTold, Sends
      <4>5. Told(p)' \/ ToBeTold(p)'
        BY <2>1, <2>6, <4>2, <4>4 DEF Follows
      <4> QED
        BY <2>3, <2>4, <3>5, <4>5 DEF Follows
    <3> QED
      BY <3>6, <3>7, Zenon
  <2> QED
    BY <2>5, <2>6, Zenon
<1> QED
  BY <1>1, <1>6, <1>7, ZenonT(60) DEF Badge

\* Every step keeps the badges behind their hydrations.
LEMMA BadgeStep ==
  ASSUME ShellTypes, MembersServed, Lives, Owned, Badge, [Next]_vars
  PROVE  Badge'
<1>0. /\ h \in [Conn -> Handlers] /\ channel \in [Conn -> Seq(Statuses)] /\ out \in [Conn -> Seq(Lines)]
      /\ None \notin Conn /\ listener \in Conn \cup {None} /\ members \in Seq(Conn)
      /\ call \in [Caller -> Calls \cup {None}]
  BY ShellAssumption, Zenon
     DEF ShellTypes, HandlerTypes, ServerTypes, QueueTypes, ChannelTypes, SocketTypes, ClientTypes
<1>1. ASSUME UNCHANGED <<last, excused, listener, shown>>,
             \A d \in Conn : (h'[d].pc = "send" <=> h[d].pc = "send") /\ (h[d].pc = "send" => h'[d] = h[d]),
             listener \in Range(members) => listener \in Range(members'),
             listener # None => /\ h'[listener].pc = "free" => h[listener].pc = "free"
                                /\ channel'[listener] = channel[listener]
                                /\ out'[listener] = out[listener]
      PROVE  Badge'
  <2>1. listener # None => \A p \in Path \ excused : Told(p) => Told(p)'
    BY <1>1, ToldSame, ZenonT(60)
  <2> QED
    BY <1>1, <2>1, BadgeFrame, Zenon
<1>2. ASSUME NEW c \in Conn, Accept(c) PROVE Badge'
  <2>1. c \notin Range(members) /\ members' = Append(members, c) /\ h[c].pc = "accepting"
    BY <1>2, Zenon DEF Accept, MembersServed
  <2>2. Range(members) \subseteq Range(members')
    BY <1>0, <2>1, SetOfAppend
  <2>3. h'[c].pc \in {"read", "register"} /\ \A d \in Conn \ {c} : h'[d] = h[d]
    BY <1>0, <1>2 DEF Accept, Spawned, Handlers
  <2>4. UNCHANGED <<last, excused, listener, shown, channel, out>>
    BY <1>2, Zenon DEF Accept, socket, service, history
  <2>5. \A d \in Conn : (h'[d].pc = "send" <=> h[d].pc = "send") /\ (h[d].pc = "send" => h'[d] = h[d])
    BY <2>1, <2>3, Zenon
  <2> QED
    BY <1>0, <1>1, <2>2, <2>3, <2>4, <2>5, ZenonT(60)
<1>3. ASSUME NEW c \in Conn, register(c) PROVE Badge'
  <2>1. h[c].pc = "register" /\ UNCHANGED <<last, excused, listener, shown, channel, members>>
    BY <1>3, Zenon DEF register, service, history
  <2>2. h'[c].pc \in {"read", "register"} /\ \A d \in Conn \ {c} : h'[d] = h[d]
    <3>1. PICK left : h' = [h EXCEPT ![c].pc = IF left = 0 THEN "read" ELSE "register", ![c].left = left]
      BY <1>3, Zenon DEF register, Spawned
    <3> QED
      BY <1>0, <3>1 DEF Handlers
  <2>3. \A d \in Conn : (h'[d].pc = "send" <=> h[d].pc = "send") /\ (h[d].pc = "send" => h'[d] = h[d])
    BY <2>1, <2>2, Zenon
  <2>4. listener # None => (h'[listener].pc = "free" => h[listener].pc = "free")
    BY <1>0, <2>2, Zenon
  <2>5. ASSUME listener # None, NEW p \in Path \ excused, Told(p) PROVE Told(p)'
    <3>1. listener \in Conn /\ (out'[listener] = out[listener] \/ out'[listener] = Append(out[listener], Register))
      BY <1>0, <1>3, <2>5, Zenon DEF register
    <3>2. CASE out'[listener] = out[listener]
      BY <2>1, <2>5, <3>2, ToldSame, Zenon
    <3>3. CASE out'[listener] = Append(out[listener], Register)
      <4>1. Register \in Lines /\ ~About(Register, p) /\ out[listener] \in Seq(Lines)
        BY <1>0, <3>1, LineFacts, Zenon DEF About
      <4> DEFINE q == Append(out[listener], Register)
      <4>2. /\ LastSays(out[listener], p, last[p]) => LastSays(q, p, last[p])
            /\ Silent(out[listener], p) => Silent(q, p)
        BY <4>1, SaysAdded, Zenon
      <4>3. out'[listener'] = q
        BY <2>1, <3>3, Zenon
      <4> HIDE DEF q
      <4> QED
        BY <2>1, <2>5, <4>2, <4>3, Zenon DEF Told
    <3> QED
      BY <3>1, <3>2, <3>3, Zenon
  <2> QED
    BY <2>1, <2>3, <2>4, <2>5, BadgeFrame, ZenonT(60)
<1>4. ASSUME NEW c \in Conn, WriteTask(c) PROVE Badge'
  <2>1. UNCHANGED <<last, excused, listener, shown, h, members>> /\ channel[c] # <<>>
    BY <1>4, Zenon DEF WriteTask, service, history
  <2>2. CASE c # listener
    <3>1. listener # None => channel'[listener] = channel[listener] /\ out'[listener] = out[listener]
      BY <1>0, <1>4, <2>2, Zenon DEF WriteTask
    <3> QED
      BY <1>1, <2>1, <3>1, Zenon
  <2>3. CASE c = listener
    <3>1. c \notin closed
      BY <1>0, <2>3, ListenerReceives, Zenon
    <3>2. /\ channel'[listener] = Tail(channel[listener])
          /\ out'[listener] = Append(out[listener], Head(channel[listener]))
      BY <1>0, <1>4, <2>3, <3>1, Zenon DEF WriteTask
    <3>3. \A p \in Path \ excused : Told(p) => Told(p)'
      BY <2>1, <2>3, <3>2, ToldOn, Zenon
    <3> QED
      BY <2>1, <3>3, BadgeFrame, Zenon
  <2> QED
    BY <2>2, <2>3, Zenon
<1>5. ASSUME NEW c \in Conn, dispatch_line(c) PROVE Badge'
  <2>1. PICK r \in Handlers : h' = [h EXCEPT ![c] = r] /\ r.pc \in {"read", "vfs", "reply"}
    BY <1>5, DispatchSet, Zenon
  <2>2. h[c].pc = "read" /\ UNCHANGED <<last, excused, listener, shown, channel, out, members>>
    BY <1>5, Zenon DEF dispatch_line, service, history
  <2>3. h'[c].pc \in {"read", "vfs", "reply"} /\ \A d \in Conn \ {c} : h'[d] = h[d]
    BY <1>0, <2>1, Zenon
  <2>4. \A d \in Conn : (h'[d].pc = "send" <=> h[d].pc = "send") /\ (h[d].pc = "send" => h'[d] = h[d])
    BY <2>2, <2>3, Zenon
  <2>5. listener # None => (h'[listener].pc = "free" => h[listener].pc = "free")
    BY <1>0, <2>3, ZenonT(60)
  <2> QED
    BY <1>1, <2>2, <2>4, <2>5, Zenon
<1>6. ASSUME NEW c \in Conn, End(c), c \in closed, h[c].pc \in {"read", "reply"}, out' = out,
             UNCHANGED <<service, history>>
      PROVE  Badge'
  <2>1. c # listener
    BY <1>0, <1>6, ListenerReceives, Zenon
  <2>2. Range(members') = Range(members) \ {c}
    BY <1>6, EndMembers, Zenon
  <2>3. h'[c].pc = "free" /\ \A d \in Conn \ {c} : h'[d] = h[d] /\ channel'[d] = channel[d]
    BY <1>0, <1>6, FreeFacts, Zenon DEF End
  <2>4. UNCHANGED <<last, excused, listener, shown>>
    BY <1>6, Zenon DEF service, history
  <2>5. \A d \in Conn : (h'[d].pc = "send" <=> h[d].pc = "send") /\ (h[d].pc = "send" => h'[d] = h[d])
    BY <1>6, <2>3, Zenon
  <2> QED
    BY <1>0, <1>1, <1>6, <2>1, <2>2, <2>3, <2>4, <2>5, SMTT(30)
<1>7. ASSUME NEW c \in Conn, WriteReply(c) PROVE Badge'
  <2>1. h[c].pc = "reply" /\ UNCHANGED <<service, history>>
    BY <1>7, Zenon DEF WriteReply
  <2>2. c # listener
    BY <1>0, <2>1, Zenon DEF Owned, Quiet
  <2>3. PICK r \in Handlers :
           /\ h' = [h EXCEPT ![c] = r]
           /\ \/ c \in closed /\ End(c) /\ out' = out
              \/ /\ r.pc = "read" /\ out' = [out EXCEPT ![c] = Append(@, h[c].msg)]
                 /\ members' = members /\ channel' = channel
    BY <1>7, WriteReplySet, Zenon
  <2>4. CASE c \in closed /\ End(c) /\ out' = out
    BY <1>6, <2>1, <2>4, ZenonT(60)
  <2>5. CASE r.pc = "read" /\ out' = [out EXCEPT ![c] = Append(@, h[c].msg)]
             /\ members' = members /\ channel' = channel
    <3>1. h'[c].pc = "read" /\ \A d \in Conn \ {c} : h'[d] = h[d] /\ out'[d] = out[d]
      BY <1>0, <2>3, <2>5, ZenonT(60)
    <3>2. UNCHANGED <<last, excused, listener, shown>>
      BY <2>1, Zenon DEF service, history
    <3>3. \A d \in Conn : (h'[d].pc = "send" <=> h[d].pc = "send") /\ (h[d].pc = "send" => h'[d] = h[d])
      BY <2>1, <3>1, Zenon
    <3> QED
      BY <1>0, <1>1, <2>2, <2>5, <3>1, <3>2, <3>3, SMTT(30)
  <2> QED
    BY <2>3, <2>4, <2>5, Zenon
<1>8. ASSUME NEW c \in Conn, EndOfInput(c) PROVE Badge'
  BY <1>6, <1>8, Zenon DEF EndOfInput
<1>9. ASSUME NEW c \in Conn, NEW cmd, Connect(c, cmd)
      PROVE  /\ c \notin Held /\ h[c].pc = "free" /\ h'[c].pc = "accepting"
             /\ \A d \in Conn \ {c} : h'[d] = h[d]
             /\ \A d \in Conn : (h'[d].pc = "send" <=> h[d].pc = "send") /\ (h[d].pc = "send" => h'[d] = h[d])
  <2>1. PICK r \in Handlers : h' = [h EXCEPT ![c] = r] /\ r.pc = "accepting"
    BY <1>9, ConnectSet, Zenon
  <2>2. c \notin Held /\ h[c].pc = "free"
    BY <1>9, ConnectSet, Zenon
  <2>3. h'[c].pc = "accepting" /\ \A d \in Conn \ {c} : h'[d] = h[d]
    BY <1>0, <2>1, ZenonT(60)
  <2> QED
    BY <2>2, <2>3, Zenon
<1>10. ASSUME NEW k \in Caller, Call(k) PROVE Badge'
  <2>1. PICK cmd \in Commands, c \in Conn : Connect(c, cmd)
    BY <1>10, Zenon DEF Call
  <2>2. UNCHANGED <<last, excused, listener, shown, channel, out, members>>
    BY <1>10, Zenon DEF Call
  <2>3. c # listener
    BY <1>9, <2>1, HeldFacts, ZenonT(60)
  <2>4. listener # None => h'[listener] = h[listener]
    BY <1>0, <1>9, <2>1, <2>3, ZenonT(60)
  <2> QED
    BY <1>1, <1>9, <2>1, <2>2, <2>4, SMTT(30)
<1>11. ASSUME NEW k \in Caller, ReadLine(k) PROVE Badge'
  <2>1. UNCHANGED <<last, excused, listener, shown, channel, h, members>>
    BY <1>11, Zenon DEF ReadLine, daemon, history
  <2>2. call[k] # None /\ call[k].conn # listener /\ call[k].conn \in Conn
    BY <1>0, <1>11, Zenon DEF ReadLine, Owned, Apart, Calls
  <2>3. out' \in {out, [out EXCEPT ![call[k].conn] = <<>>]}
    BY <1>11, Zenon DEF ReadLine
  <2>4. listener # None => out'[listener] = out[listener]
    BY <1>0, <2>2, <2>3, Zenon
  <2> QED
    BY <1>1, <2>1, <2>4, ZenonT(60)
<1>12. CASE ListenerConnects
  <2>1. PICK c \in Conn : Connect(c, None) /\ listener' = c
    BY <1>12, Zenon DEF ListenerConnects
  <2>2. listener = None /\ UNCHANGED <<last, excused, shown, channel, out, members>>
    BY <1>12, Zenon DEF ListenerConnects, history
  <2>3. channel[c] = <<>> /\ out[c] = <<>>
    BY <1>9, <2>1, Zenon DEF Lives, Owned, Left
  <2>4. ASSUME NEW p \in Path \ excused PROVE Follows(p)'
    <3>1. Follows(p)
      BY ZenonT(60) DEF Badge
    <3>2. shown[p] = last[p] /\ \A d \in Conn : ~Sends(d, p)
      BY <1>0, <2>2, <3>1 DEF Follows, Range
    <3>3. \A d \in Conn : ~Sends(d, p)'
      BY <1>9, <2>1, <3>2, ZenonT(60) DEF Sends
    <3>4. channel'[listener'] = <<>> /\ out'[listener'] = <<>> /\ shown'[p] = last'[p]
      BY <2>1, <2>2, <2>3, <3>2, ZenonT(60)
    <3>5. Silent(<<>>, p)
      BY DEF Silent
    <3>6. Told(p)'
      BY <3>4, <3>5, Zenon DEF Told
    <3>7. listener' # None
      BY <1>0, <2>1, Zenon
    <3> QED
      BY <3>3, <3>6, <3>7, ZenonT(60) DEF Follows
  <2>5. h'[listener'].pc # "free"
    BY <1>9, <2>1, Zenon
  <2> QED
    BY <2>2, <2>4, <2>5, Zenon DEF Badge
<1>13. CASE read_broadcast
  <2>1. UNCHANGED <<last, excused, channel, h, members>> /\ listener # None /\ listener \in Conn
    BY <1>0, <1>13, ZenonT(60) DEF read_broadcast, daemon, history
  <2>2. CASE out[listener] # <<>>
    <3>1. /\ out' = [out EXCEPT ![listener] = Tail(@)] /\ listener' = listener
          /\ shown' = LET line == Head(out[listener]) IN
                      IF line.kind = "STATUS" THEN [shown EXCEPT ![line.path] = line.tag] ELSE shown
      BY <1>13, <2>2, Zenon DEF read_broadcast
    <3>2. out'[listener] = Tail(out[listener]) /\ channel'[listener] = channel[listener]
      BY <1>0, <2>1, <3>1, ZenonT(60)
    <3>3. ASSUME NEW p \in Path \ excused, Told(p) PROVE Told(p)'
      BY <2>1, <2>2, <3>1, <3>2, <3>3, ToldOn, SMTT(30)
    <3> QED
      BY <2>1, <3>1, <3>3, BadgeFrame
  <2>3. CASE out[listener] = <<>>
    <3>1. h[listener].pc = "free" /\ listener' = None
      BY <1>13, <2>3, Zenon DEF read_broadcast
    <3> QED
      BY <2>1, <3>1, Zenon DEF Badge
  <2> QED
    BY <2>2, <2>3, Zenon
<1>14. CASE Stops
  BY <1>14, Zenon DEF Stops, Badge
<1>15. CASE Starts \/ UNCHANGED vars
  <2>1. UNCHANGED <<last, excused, listener, shown, channel, out, h, members>>
    BY <1>15, Zenon DEF Starts, vars, daemon, socket, service, history
  <2> QED
    BY <1>1, <2>1, Zenon
<1>16. CASE AcceptFails
  <2>1. UNCHANGED <<last, listener, shown, out, members>>
    BY <1>16, RefusedSet, Zenon
  <2>2. \A d \in Conn : (h'[d].pc = "send" <=> h[d].pc = "send") /\ (h[d].pc = "send" => h'[d] = h[d])
    BY <1>16, RefusedSet, FreeFacts, ZenonT(60)
  <2>3. CASE listener \in Conn /\ h[listener].pc = "accepting"
    <3>1. excused' = Path
      BY <1>16, <2>3, Zenon DEF AcceptFails
    <3> QED
      BY <3>1, Zenon DEF Badge
  <2>4. CASE ~(listener \in Conn /\ h[listener].pc = "accepting")
    <3>1. excused' = excused
      BY <1>16, <2>4, Zenon DEF AcceptFails
    <3>2. listener # None => h'[listener] = h[listener] /\ channel'[listener] = channel[listener]
      BY <1>0, <1>16, <2>4, RefusedSet, ZenonT(60)
    <3> QED
      BY <1>1, <2>1, <2>2, <3>1, <3>2, Zenon
  <2> QED
    BY <2>3, <2>4, Zenon
<1> QED
  BY <1>2, <1>3, <1>4, <1>5, <1>7, <1>8, <1>10, <1>11, <1>12, <1>13, <1>14, <1>15, <1>16, BadgeVfs, BadgeSend, SMTT(30)
     DEF Next, Server

(****************************************************************************)
(* The theorems.                                                            *)
(****************************************************************************)

ShellInv == ShellTypes /\ MembersServed /\ Lives /\ Owned /\ Announced /\ Badge

\* A daemon that has just started and a service that has not connected.
LEMMA InitShellInv ==
  ASSUME Init
  PROVE  ShellInv
<1>1. /\ h = [c \in Conn |-> Free] /\ channel = [c \in Conn |-> <<>>] /\ writer = [c \in Conn |-> "none"]
      /\ in = [c \in Conn |-> None] /\ out = [c \in Conn |-> <<>>] /\ closed = {}
      /\ call = [k \in Caller |-> None] /\ listener = None
      /\ shown = [p \in Path |-> None] /\ last = [p \in Path |-> None] /\ excused = {}
      /\ members = <<>> /\ roots \in Nat
  BY ShellAssumption, Zenon DEF Init
<1>2. <<>> \in Seq(Statuses) /\ <<>> \in Seq(Lines) /\ <<>> \in Seq(Conn) /\ Len(<<>>) = 0
      /\ Capacity \in Nat /\ SocketRoom \in Nat
  BY ShellAssumption
<1>3. HandlerTypes
  BY <1>1, FreeFacts DEF HandlerTypes
<1>4. QueueTypes
  BY <1>1, <1>2 DEF QueueTypes, ChannelTypes, SocketTypes
<1>5. ServerTypes
  <2>1. up \in BOOLEAN /\ up
    BY ZenonT(60) DEF Init
  <2>2. IsInjective(<<>>)
    BY DEF IsInjective
  <2>3. writer \in [Conn -> {"none", "runs", "ended"}] /\ members \in Seq(Conn) /\ IsInjective(members)
    BY <1>1, <1>2, <2>2, Zenon
  <2> QED
    BY <1>1, <2>1, <2>3, ZenonT(60) DEF ServerTypes
<1>6. ClientTypes
  BY <1>1, Zenon DEF ClientTypes
<1>7. MembersServed
  BY <1>1 DEF MembersServed, Range
<1>8. Free.pc = "free" /\ Free.dead = {}
  BY Zenon DEF Free
<1>9. Lives
  BY <1>1, <1>8, Zenon DEF Lives
<1>10. Owned
  <2>1. \A c : c \in Held => c = None
    BY <1>1, HeldFacts, Zenon
  <2>2. Left
    BY <1>1, <1>8, Zenon DEF Left
  <2>3. Apart /\ Quiet
    BY <1>1, <2>1, Zenon DEF Apart, Quiet
  <2> QED
    BY <2>2, <2>3, Zenon DEF Owned
<1>11. Announced
  BY <1>1, NothingOrdered, Zenon DEF Announced
<1>12. Badge
  BY <1>1, <1>8, Zenon DEF Badge, Follows, Sends
<1> QED
  BY <1>3, <1>4, <1>5, <1>6, <1>7, <1>9, <1>10, <1>11, <1>12, SMTT(30)
    DEF ShellInv, ShellTypes

\* The invariant is inductive.
LEMMA NextShellInv ==
  ASSUME ShellInv, [Next]_vars
  PROVE  ShellInv'
<1>1. ShellTypes'
  BY HandlerTypesStep, QueueTypesStep, ServerTypesStep, ClientTypesStep, Zenon
    DEF ShellInv, ShellTypes
<1>2. MembersServed'
  BY MembersStep, Zenon DEF ShellInv
<1>3. Lives' /\ Owned'
  BY LivesStep, OwnedStep, Zenon DEF ShellInv
<1>4. Announced' /\ Badge'
  BY AnnouncedStep, BadgeStep, Zenon DEF ShellInv
<1> QED
  BY <1>1, <1>2, <1>3, <1>4, Zenon DEF ShellInv

\* The invariant holds in every reachable state, for any connections, callers,
\* paths and capacities of the socket API: it carries the four results below.
THEOREM ShellInvariant == Spec => []ShellInv
<1>1. Init => ShellInv
  BY InitShellInv, Zenon
<1>2. ShellInv /\ [Next]_vars => ShellInv'
  BY NextShellInv, Zenon
<1> QED
  BY <1>1, <1>2, PTL DEF Spec

\* TypeOK always holds: the connection list has no duplicates, and no channel
\* and no socket holds more than it has room for, however many connections,
\* callers and folders there are (server.rs, broadcast.rs).
THEOREM ShellTypesAlways == Spec => []TypeOK
<1>1. ShellInv => TypeOK
  <2> SUFFICES ASSUME ShellInv PROVE TypeOK
    BY Zenon
  <2>1. HandlerTypes /\ QueueTypes /\ ServerTypes /\ ClientTypes
    BY Zenon DEF ShellInv, ShellTypes
  <2>2. up \in BOOLEAN
    BY <2>1, ZenonT(60) DEF ServerTypes
  <2>3. roots \in Nat /\ members \in Seq(Conn) /\ IsInjective(members)
    BY <2>1, Zenon DEF ServerTypes
  <2>4. ASSUME NEW c \in Conn
        PROVE  /\ h[c].pc \in Pcs /\ h[c].left \in 0..roots
               /\ h[c].targets \in Seq(Conn) /\ h[c].dead \subseteq Conn
    BY <2>1, <2>3 DEF HandlerTypes, Handlers
  <2>5. ASSUME NEW c \in Conn
        PROVE  /\ channel[c] \in Seq(Lines) /\ Len(channel[c]) <= Capacity
               /\ out[c] \in Seq(Lines) /\ Len(out[c]) <= SocketRoom
               /\ writer[c] \in {"none", "runs", "ended"} /\ in[c] \in Commands \cup {None}
    <3>1. channel[c] \in Seq(Statuses)
      BY <2>1, Zenon DEF QueueTypes, ChannelTypes
    <3>2. channel[c] \in Seq(Lines)
      BY <3>1, LineFacts
    <3> QED
      BY <2>1, <3>2, Zenon
        DEF QueueTypes, ChannelTypes, SocketTypes, ServerTypes, ClientTypes
  <2>6. closed \subseteq Conn /\ listener \in Conn \cup {None} /\ shown \in [Path -> Tags \cup {None}]
    BY <2>1, Zenon DEF ClientTypes
  <2> QED
    BY <2>2, <2>3, <2>4, <2>5, <2>6, ZenonT(60) DEF TypeOK
<1> QED
  BY <1>1, ShellInvariant, PTL

\* RootsFirst always holds: every REGISTER_PATH line precedes everything else a
\* connection is sent, although the broadcast list has it from the start
\* (handle_connection).
THEOREM RootsAlwaysFirst == Spec => []RootsFirst
<1>1. ShellInv => RootsFirst
  BY AnnouncedRoots, Zenon DEF ShellInv
<1> QED
  BY <1>1, ShellInvariant, PTL

\* MembersServed always holds: a connection leaves the broadcast list on every
\* way out of handle_connection.
THEOREM MembersAlwaysServed == Spec => []MembersServed
<1>1. ShellInv => MembersServed
  BY Zenon DEF ShellInv
<1> QED
  BY <1>1, ShellInvariant, PTL

\* BadgeFollows always holds: no STATUS broadcast is lost or overtaken on its way
\* through the sends, the channel and the socket to the StatusChanged signal.
THEOREM BadgeAlwaysFollows == Spec => []BadgeFollows
<1>1. ShellInv => BadgeFollows
  BY BadgeShows, Zenon DEF ShellInv
<1> QED
  BY <1>1, ShellInvariant, PTL

================================================================================
