------------------------------- MODULE Client --------------------------------
(****************************************************************************)
(* An account's use of the server: the runs of its folders, which share one *)
(* TokenManager and begin with a token and a level-by-level PROPFIND of a   *)
(* tree that others change; the requests of pollers and of WebDavClient,    *)
(* which take the shared token as it is; and the tokens in the keychain.    *)
(* A token set is the number of its issue.                                  *)
(****************************************************************************)
EXTENDS Integers, Sequences, FiniteSets, SequencesExt

CONSTANTS
  None,
  Run,         \* sync runs, one per folder of the account
  Call,        \* tasks that issue requests with the shared token
  Node, Dir,   \* paths below the space's root, and those that are directories
  Root, Parent,
  Rotates,     \* is a refresh token used up by a refresh?
  MaxIssued, MaxFaults, MaxEdits

ASSUME ClientAssumption ==
  /\ IsFiniteSet(Node) /\ Dir \subseteq Node /\ Root \notin Node
  /\ Parent \in [Node -> Dir \cup {Root}]
  /\ \A S \in SUBSET Node : S # {} => \E n \in S : Parent[n] \notin S   \* no cycles
  /\ Rotates \in BOOLEAN /\ None \notin Nat
  /\ MaxIssued \in Nat \ {0} /\ {MaxFaults, MaxEdits} \subseteq Nat

VARIABLES
  \* server
  issued,      \* token sets issued so far
  alive,       \* those whose access token is accepted
  grants,      \* those whose refresh token is accepted
  tree,        \* paths that exist
  \* client
  token,       \* the shared TokenSet: access and refresh part
  keychain,    \* the saved one
  saves,       \* keychain writes under way
  pc, got,     \* per run: where it is, and with which token set
  queue, found,
  call,        \* per call: "idle", "first", "second", then "ok" or "denied"
  sent,        \* per call: the token set it used
  \* history, read by no action
  stable, ever, \* per walk: paths there all the time, paths there at some time
  broken,      \* an answer, a save or a refresh token was lost
  crossed,     \* the latest save began while another was under way
  faults, edits  \* failures and restarts, edits

server == <<issued, alive, grants>>
store  == <<token, keychain, saves>>
walk   == <<queue, found, stable, ever>>
calls  == <<call, sent>>
counts == <<faults, edits>>
history == <<broken, crossed>>
vars == <<server, tree, store, pc, got, walk, calls, history, counts>>

Init ==
  /\ issued = 1 /\ alive = {1} /\ grants = {1} /\ tree \in {{}, Node}
  /\ token = [access |-> 1, refresh |-> 1] /\ keychain = 1 /\ saves = {}
  /\ pc = [r \in Run |-> "idle"] /\ got = [r \in Run |-> 0]
  /\ queue = [r \in Run |-> <<>>] /\ found = [r \in Run |-> {}]
  /\ stable = [r \in Run |-> {}] /\ ever = [r \in Run |-> {}]
  /\ call = [c \in Call |-> "idle"] /\ sent = [c \in Call |-> 0]
  /\ broken = FALSE /\ crossed = FALSE /\ faults = 0 /\ edits = 0

Fault == faults < MaxFaults /\ faults' = faults + 1
Goes(r, where) == pc' = [pc EXCEPT ![r] = where]
Fresh == token.access \in alive

(****************************************************************************)
(* get_valid_token, one step per lock or request.                           *)
(****************************************************************************)

\* What run_sync does with the token it gets: list the root first.
Walks(r, n) ==
  /\ Goes(r, "walk") /\ got' = [got EXCEPT ![r] = n]
  /\ queue' = [queue EXCEPT ![r] = <<Root>>] /\ found' = [found EXCEPT ![r] = {}]
  /\ stable' = [stable EXCEPT ![r] = tree] /\ ever' = [ever EXCEPT ![r] = tree]

\* run_sync returns, and its locals with it.
Returns(r) ==
  /\ Goes(r, "idle") /\ got' = [got EXCEPT ![r] = 0]
  /\ queue' = [queue EXCEPT ![r] = <<>>] /\ found' = [found EXCEPT ![r] = {}]
  /\ stable' = [stable EXCEPT ![r] = {}] /\ ever' = [ever EXCEPT ![r] = {}]

\* Mutant: the token is taken without a look at its lifetime.
FastPath_NeverExpires(r) ==
  /\ pc[r] = "idle" /\ Walks(r, token.access)
  /\ UNCHANGED <<server, tree, store, calls, history, counts>>

FastPath(r) ==
  /\ pc[r] = "idle"
  /\ IF Fresh THEN Walks(r, token.access) ELSE Goes(r, "recheck") /\ UNCHANGED <<got, walk>>
  /\ UNCHANGED <<server, tree, store, calls, history, counts>>

\* The lock is released again: several runs may go on with one refresh token.
Recheck(r) ==
  /\ pc[r] = "recheck"
  /\ IF Fresh THEN Walks(r, token.access)
     ELSE IF token.refresh = None THEN Returns(r)
     ELSE Goes(r, "refresh") /\ got' = [got EXCEPT ![r] = token.refresh] /\ UNCHANGED walk
  /\ UNCHANGED <<server, tree, store, calls, history, counts>>

\* The token endpoint. An answer may get lost once it took effect.
refresh(r) ==
  /\ pc[r] = "refresh"
  /\ IF got[r] \in grants /\ issued < MaxIssued
     THEN LET n == issued + 1 IN
          /\ issued' = n /\ alive' = alive \cup {n}
          /\ grants' = (IF Rotates THEN grants \ {got[r]} ELSE grants) \cup {n}
          /\ \/ /\ Goes(r, "install") /\ got' = [got EXCEPT ![r] = n]
                /\ UNCHANGED <<walk, broken, faults>>
             \/ Fault /\ Returns(r) /\ broken' = TRUE
     ELSE Returns(r) /\ UNCHANGED <<server, broken, faults>>
  /\ UNCHANGED <<tree, store, calls, crossed, edits>>

\* Mutant: only the access token is replaced.
install_AccessOnly(r) ==
  /\ pc[r] = "install" /\ Walks(r, got[r])
  /\ token' = [token EXCEPT !.access = got[r]] /\ saves' = saves \cup {got[r]}
  /\ UNCHANGED <<server, tree, keychain, calls, history, counts>>

\* Mutant: the new set is not written to the keychain.
install_Unsaved(r) ==
  /\ pc[r] = "install" /\ Walks(r, got[r])
  /\ token' = [access |-> got[r], refresh |-> got[r]]
  /\ UNCHANGED <<server, tree, keychain, saves, calls, history, counts>>

\* The new set replaces the shared one and goes to the keychain in the background.
\* A response without a refresh token leaves none.
install(r) ==
  /\ pc[r] = "install" /\ Walks(r, got[r])
  /\ saves' = saves \cup {got[r]} /\ crossed' = (saves # {})
  /\ \/ /\ token' = [access |-> got[r], refresh |-> got[r]] /\ UNCHANGED <<broken, faults>>
     \/ /\ Fault /\ token' = [access |-> got[r], refresh |-> None] /\ broken' = TRUE
  /\ UNCHANGED <<server, tree, keychain, calls, edits>>

\* Best effort, in any order: of two writes the older may come last.
SaveTokens(n) ==
  /\ n \in saves /\ saves' = saves \ {n}
  /\ \/ keychain' = n /\ UNCHANGED <<broken, faults>>
     \/ Fault /\ broken' = TRUE /\ UNCHANGED keychain
  /\ UNCHANGED <<server, tree, token, pc, got, walk, calls, crossed, edits>>

(****************************************************************************)
(* discover_remote.                                                         *)
(****************************************************************************)

Children(d) == {n \in tree : Parent[n] = d}

\* Mutant: a directory that is gone by the time it is listed is passed over, as
\* is any other error.
propfind_Lenient(r) ==
  /\ pc[r] = "walk" /\ queue[r] # <<>>
  /\ LET d == Head(queue[r])
         new == IF got[r] \in alive THEN Children(d) \ found[r] ELSE {}
     IN /\ found' = [found EXCEPT ![r] = @ \cup new]
        /\ queue' = [queue EXCEPT ![r] = Tail(@) \o SetToSeq(new \cap Dir)]
  /\ UNCHANGED <<server, tree, store, pc, got, stable, ever, calls, history, counts>>

\* One collection. Any status but 207 ends the walk: the token has expired, the
\* directory is gone, or the request failed.
propfind(r) ==
  /\ pc[r] = "walk" /\ queue[r] # <<>>
  /\ LET d == Head(queue[r])
         new == Children(d) \ found[r]
         listed == got[r] \in alive /\ d \in tree \cup {Root}
     IN \/ /\ listed /\ UNCHANGED <<pc, got, stable, ever, faults>>
           /\ found' = [found EXCEPT ![r] = @ \cup new]
           /\ queue' = [queue EXCEPT ![r] = Tail(@) \o SetToSeq(new \cap Dir)]
        \/ ~listed /\ Returns(r) /\ UNCHANGED faults
        \/ Fault /\ Returns(r)
  /\ UNCHANGED <<server, tree, store, calls, history, edits>>

Discovered(r) ==
  /\ pc[r] = "walk" /\ queue[r] = <<>> /\ Goes(r, "done")
  /\ UNCHANGED <<server, tree, store, got, walk, calls, history, counts>>

\* The rest of the run is module SyncEngine's.
RunEnds(r) ==
  /\ pc[r] = "done" /\ Returns(r)
  /\ UNCHANGED <<server, tree, store, calls, history, counts>>

SyncRun(r) ==
  \/ FastPath(r) \/ Recheck(r) \/ refresh(r) \/ install(r)
  \/ propfind(r) \/ Discovered(r) \/ RunEnds(r)

(****************************************************************************)
(* Requests with the token as it is: request_with_retry, and get_json,      *)
(* which does not retry.                                                    *)
(****************************************************************************)

Request(c) ==
  /\ call[c] \in {"idle", "ok", "denied"}
  /\ call' = [call EXCEPT ![c] = "first"] /\ sent' = [sent EXCEPT ![c] = token.access]
  /\ UNCHANGED <<server, tree, store, pc, got, walk, history, counts>>

\* On 401 the token is read again and the request repeated, once.
Answered(c) ==
  /\ call[c] \in {"first", "second"}
  /\ IF sent[c] \in alive
     THEN call' = [call EXCEPT ![c] = "ok"] /\ sent' = [sent EXCEPT ![c] = 0]
     ELSE \/ /\ call[c] = "first" /\ call' = [call EXCEPT ![c] = "second"]
             /\ sent' = [sent EXCEPT ![c] = token.access]
          \/ call' = [call EXCEPT ![c] = "denied"] /\ sent' = [sent EXCEPT ![c] = 0]
  /\ UNCHANGED <<server, tree, store, pc, got, walk, history, counts>>

(****************************************************************************)
(* Server, other clients, process.                                          *)
(****************************************************************************)

\* A token expires at any time. The bound leaves a set to refresh to.
Expires(n) ==
  /\ n \in alive /\ issued < MaxIssued
  /\ alive' = alive \ {n}
  /\ UNCHANGED <<issued, grants, tree, store, pc, got, walk, calls, history, counts>>

\* A path with all that is below it.
Closed(S) == \A m \in Node : Parent[m] \in S => m \in S
Below == [n \in Node |-> {m \in Node : \A S \in SUBSET Node : n \in S /\ Closed(S) => m \in S}]

Edit(n) ==
  /\ edits < MaxEdits /\ edits' = edits + 1
  /\ \/ n \notin tree /\ Parent[n] \in tree \cup {Root} /\ tree' = tree \cup {n}
     \/ n \in tree /\ tree' = tree \ Below[n]
  /\ stable' = [r \in Run |-> stable[r] \cap tree']
  /\ ever' = [r \in Run |-> IF pc[r] = "walk" THEN ever[r] \cup tree' ELSE ever[r]]
  /\ UNCHANGED <<server, store, pc, got, queue, found, calls, history, faults>>

\* A restart takes the tokens from the keychain.
Restart ==
  /\ Fault
  /\ broken' = (broken \/ crossed \/ saves # {} \/ \E r \in Run : pc[r] = "install")
  /\ token' = [access |-> keychain, refresh |-> keychain] /\ saves' = {}
  /\ pc' = [r \in Run |-> "idle"] /\ got' = [r \in Run |-> 0]
  /\ queue' = [r \in Run |-> <<>>] /\ found' = [r \in Run |-> {}]
  /\ stable' = [r \in Run |-> {}] /\ ever' = [r \in Run |-> {}]
  /\ call' = [c \in Call |-> "idle"] /\ sent' = [c \in Call |-> 0]
  /\ UNCHANGED <<server, tree, keychain, crossed, edits>>

Next ==
  \/ \E r \in Run : SyncRun(r)
  \/ \E c \in Call : Request(c) \/ Answered(c)
  \/ \E n \in 1..MaxIssued : SaveTokens(n) \/ Expires(n)
  \/ \E n \in Node : Edit(n)
  \/ Restart

Spec == Init /\ [][Next]_vars

\* The daemon starts runs for ever (Daemon), pollers repeat their requests, and
\* requests and keychain writes end.
Fairness ==
  /\ \A r \in Run : WF_vars(SyncRun(r))
  /\ \A c \in Call : WF_vars(Request(c) \/ Answered(c))
  /\ \A n \in 1..MaxIssued : WF_vars(SaveTokens(n))

FairSpec == Spec /\ Fairness

(****************************************************************************)
(* Properties.                                                              *)
(****************************************************************************)

TokenNumber == 1..MaxIssued
Stage == {"idle", "recheck", "refresh", "install", "walk", "done"}

\* Token sets are numbers the server gave out, walks hold paths of the space.
TypeOK ==
  /\ issued \in TokenNumber /\ alive \subseteq TokenNumber /\ grants \subseteq TokenNumber
  /\ tree \subseteq Node
  /\ token \in [access : TokenNumber, refresh : TokenNumber \cup {None}]
  /\ keychain \in TokenNumber /\ saves \subseteq TokenNumber
  /\ pc \in [Run -> Stage] /\ got \in [Run -> 0..MaxIssued]
  /\ queue \in [Run -> Seq(Dir \cup {Root})] /\ found \in [Run -> SUBSET Node]
  /\ stable \in [Run -> SUBSET Node] /\ ever \in [Run -> SUBSET Node]
  /\ call \in [Call -> {"idle", "first", "second", "ok", "denied"}]
  /\ sent \in [Call -> 0..MaxIssued]
  /\ {broken, crossed} \subseteq BOOLEAN /\ faults \in 0..MaxFaults /\ edits \in 0..MaxEdits

\* However runs race for a refresh, the session survives: the shared refresh
\* token is one the server still takes, or a run holds its successor.
SessionKept ==
  broken \/ token.refresh \in grants \/ \E r \in Run : pc[r] = "install" /\ got[r] \in grants

\* Once the background writes are done, a restart could go on with the session,
\* unless the last two of them overlapped.
KeychainUsable ==
  broken \/ crossed \/ saves # {} \/ keychain \in grants \/ \E r \in Run : pc[r] = "install"

\* A walk that ends well has every path that existed throughout, and no path
\* that never existed: reconciliation takes what is missing for deleted.
WalkIsBetween ==
  \A r \in Run : pc[r] = "done" => stable[r] \subseteq found[r] /\ found[r] \subseteq ever[r]

\* Requests that leave refreshing to others succeed again and again, because the
\* runs refresh the token they share.
CallsRecover == \A c \in Call : []<>(call[c] = "ok" \/ broken)

=============================================================================
