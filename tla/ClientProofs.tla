----------------------------- MODULE ClientProofs -----------------------------
(****************************************************************************)
(* For any number of runs, requests, token sets, failures and restarts: the *)
(* session survives every race for a refresh, in memory and in the          *)
(* keychain. For any finite tree and any number of walks and edits: what a  *)
(* finished walk of discover_remote has found lies between what was there   *)
(* all the time and what was ever there.                                    *)
(****************************************************************************)
EXTENDS Client, TLAPS

\* Leaves that name no prover are Zenon's.
USE Zenon

\* The types the argument needs; a token set in the client's hands was issued.
TokenTypes ==
  /\ issued \in Nat /\ broken \in BOOLEAN /\ crossed \in BOOLEAN
  /\ pc \in [Run -> Stage] /\ got \in [Run -> Nat] /\ \A r \in Run : got[r] <= issued
  /\ token \in [access : Nat, refresh : Nat \cup {None}] /\ token.refresh \in {token.access, None}
  /\ token.access <= issued
  /\ keychain \in Nat /\ keychain <= issued
  /\ saves \subseteq Nat /\ \A n \in saves : n <= issued

\* A token set that a run is about to install is good and in no other hands:
\* no other run can use it up before it is shared.
Exclusive ==
  \A r \in Run : pc[r] = "install" =>
    /\ got[r] \in grants /\ got[r] # token.refresh
    /\ \A q \in Run \ {r} : pc[q] \in {"refresh", "install"} => got[q] # got[r]

\* A token set on its way to the keychain is good until a run has its successor;
\* if it is still on its way when that one follows, the two writes cross.
SavesGood ==
  broken \/ crossed \/ saves \subseteq grants \/ \E r \in Run : pc[r] = "install"

TokenInv == TokenTypes /\ Exclusive /\ SavesGood /\ SessionKept /\ KeychainUsable

\* All but one run stay as they are.
Others(r) ==
  /\ pc' \in [Run -> Stage] /\ got' \in [Run -> Nat]
  /\ \A q \in Run \ {r} : pc'[q] = pc[q] /\ got'[q] = got[q]

\* A step of a run that gets no new token set and is not about to refresh.
LEMMA TokenIdle ==
  ASSUME TokenInv, NEW r \in Run, pc[r] # "install", Others(r),
         pc'[r] \notin {"refresh", "install"}, got'[r] <= issued,
         UNCHANGED <<server, store, history>>
  PROVE  TokenInv'
<1>1. TokenTypes'
  BY DEF TokenInv, TokenTypes, Others, server, store, history
<1>2. Exclusive'
  BY DEF TokenInv, Exclusive, Others, server, store, history
<1>3. SavesGood'
  BY DEF TokenInv, SavesGood, Others, server, store, history
<1>4. SessionKept'
  BY DEF TokenInv, SessionKept, Others, server, store, history
<1>5. KeychainUsable'
  BY DEF TokenInv, KeychainUsable, Others, server, store, history
<1> QED
  BY <1>1, <1>2, <1>3, <1>4, <1>5 DEF TokenInv

\* A step that touches neither tokens nor runs.
LEMMA TokenFrame ==
  ASSUME TokenInv, UNCHANGED <<server, store, pc, got, history>>
  PROVE  TokenInv'
BY DEF TokenInv, TokenTypes, Exclusive, SavesGood, SessionKept, KeychainUsable, server, store, history

\* What Walks does to the runs.
LEMMA WalksOthers ==
  ASSUME TokenTypes, NEW r \in Run, NEW n \in Nat, Walks(r, n)
  PROVE  Others(r) /\ pc'[r] = "walk" /\ got'[r] = n
BY DEF TokenTypes, Walks, Goes, Others, Stage

\* What Returns does to the runs.
LEMMA ReturnsOthers ==
  ASSUME TokenTypes, NEW r \in Run, Returns(r)
  PROVE  Others(r) /\ pc'[r] = "idle" /\ got'[r] = 0
BY DEF TokenTypes, Returns, Goes, Others, Stage

\* What Goes does to the runs.
LEMMA GoesOthers ==
  ASSUME TokenTypes, NEW r \in Run, NEW where \in Stage, Goes(r, where), got' = got
  PROVE  Others(r) /\ pc'[r] = where /\ got'[r] = got[r]
BY DEF TokenTypes, Goes, Others

\* A run that found the shared token expired takes its refresh token along.
LEMMA TokenTakes ==
  ASSUME TokenInv, NEW r \in Run, pc[r] = "recheck", ~Fresh, token.refresh # None,
         Goes(r, "refresh"), got' = [got EXCEPT ![r] = token.refresh],
         UNCHANGED <<server, store, history>>
  PROVE  TokenInv'
<1>0. /\ Others(r) /\ pc'[r] = "refresh" /\ got'[r] = token.refresh
      /\ token.refresh = token.access /\ token.refresh \notin alive
  BY DEF TokenInv, TokenTypes, Goes, Others, Stage, Fresh
<1>1. TokenTypes'
  BY <1>0 DEF TokenInv, TokenTypes, Others, server, store, history
<1>2. Exclusive'
  BY <1>0 DEF TokenInv, Exclusive, Others, server, store, history
<1>3. SavesGood'
  BY <1>0 DEF TokenInv, SavesGood, Others, server, store, history
<1>4. SessionKept'
  BY <1>0 DEF TokenInv, SessionKept, Others, server, store, history
<1>5. KeychainUsable'
  BY <1>0 DEF TokenInv, KeychainUsable, Others, server, store, history
<1> QED
  BY <1>1, <1>2, <1>3, <1>4, <1>5 DEF TokenInv

\* The token endpoint answers, or its answer is lost.
LEMMA TokenRefreshed ==
  ASSUME TokenInv, NEW r \in Run, pc[r] = "refresh", Others(r),
         issued' = issued + 1, alive' = alive \cup {issued + 1},
         grants' = (IF Rotates THEN grants \ {got[r]} ELSE grants) \cup {issued + 1},
         \/ pc'[r] = "install" /\ got'[r] = issued + 1 /\ broken' = broken
         \/ pc'[r] = "idle" /\ got'[r] = 0 /\ broken' = TRUE,
         UNCHANGED <<store, crossed>>
  PROVE  TokenInv'
<1>0. /\ issued \in Nat /\ \A q \in Run : got[q] \in Nat /\ got[q] <= issued
      /\ token.refresh # issued + 1
  BY ClientAssumption, SMT DEF TokenInv, TokenTypes
<1>s. UNCHANGED <<token, keychain, saves>>
  BY DEF store
<1>1. TokenTypes'
  <2>1. \A q \in Run : got'[q] <= issued'
    BY <1>0, SMT DEF Others
  <2>2. issued' \in Nat /\ \A n \in Nat : n <= issued => n <= issued'
    BY <1>0, SMT
  <2>3. broken' \in BOOLEAN
    BY ZenonT(60) DEF TokenInv, TokenTypes
  <2> QED
    BY <2>1, <2>2, <2>3, <1>s DEF TokenInv, TokenTypes, Others
<1>2. Exclusive'
  <2> SUFFICES ASSUME NEW q \in Run, pc'[q] = "install"
               PROVE  /\ got'[q] \in grants' /\ got'[q] # token'.refresh
                      /\ \A p \in Run \ {q} : pc'[p] \in {"refresh", "install"} => got'[p] # got'[q]
    BY DEF Exclusive
  <2>1. CASE q = r
    <3>1. got'[q] = issued + 1
      BY <2>1
    <3>2. ASSUME NEW p \in Run \ {q} PROVE got'[p] # issued + 1
      BY <1>0, <2>1, <3>2, SMT DEF Others
    <3> QED
      BY <1>0, <1>s, <3>1, <3>2
  <2>2. CASE q # r
    <3>1. pc[q] = "install" /\ got'[q] = got[q] /\ got[q] # got[r] /\ got[q] # issued + 1
      BY <1>0, <2>2, SMT DEF Others, TokenInv, Exclusive
    <3>2. got[q] \in grants /\ got[q] # token.refresh
      BY <3>1 DEF TokenInv, Exclusive
    <3>3. ASSUME NEW p \in Run \ {q}, pc'[p] \in {"refresh", "install"} PROVE got'[p] # got[q]
      BY <1>0, <3>1, <3>3, SMT DEF Others, TokenInv, Exclusive
    <3> QED
      BY <1>s, <3>1, <3>2, <3>3
  <2> QED
    BY <2>1, <2>2
<1>3. SavesGood'
  BY DEF SavesGood
<1>4. SessionKept' /\ KeychainUsable'
  BY DEF SessionKept, KeychainUsable
<1> QED
  BY <1>1, <1>2, <1>3, <1>4 DEF TokenInv

\* The new set is shared, and its save begins.
LEMMA TokenInstalled ==
  ASSUME TokenInv, NEW r \in Run, install(r)
  PROVE  TokenInv'
<1>0. got[r] \in Nat /\ got[r] <= issued /\ got[r] \in grants
  BY DEF install, TokenInv, TokenTypes, Exclusive
<1>1. Others(r) /\ pc'[r] = "walk" /\ got'[r] = got[r]
  BY <1>0, WalksOthers DEF install, TokenInv
<1>2. /\ saves' = saves \cup {got[r]} /\ crossed' = (saves # {})
      /\ UNCHANGED <<issued, alive, grants, keychain>>
      /\ \/ token' = [access |-> got[r], refresh |-> got[r]] /\ broken' = broken
         \/ token' = [access |-> got[r], refresh |-> None] /\ broken' = TRUE
  BY DEF install, server
<1>3. ASSUME NEW q \in Run \ {r}, pc[q] \in {"refresh", "install"} PROVE got[q] # got[r]
  BY <1>3 DEF install, TokenInv, Exclusive
<1>4. TokenTypes'
  <2>1. /\ token' \in [access : Nat, refresh : Nat \cup {None}]
        /\ token'.access = got[r] /\ token'.refresh \in {got[r], None}
    BY <1>0, <1>2, SMT
  <2> QED
    BY <1>0, <1>1, <1>2, <2>1, ZenonT(60) DEF TokenInv, TokenTypes, Others
<1>5. Exclusive'
  <2>1. token'.refresh \in {got[r], None}
    BY <1>2, SMT
  <2>2. \A q \in Run : got[q] # None
    BY ClientAssumption, SMT DEF TokenInv, TokenTypes
  <2> QED
    BY <1>1, <1>2, <1>3, <2>1, <2>2, SMT DEF TokenInv, Exclusive, Others
<1>6. SavesGood'
  BY <1>0, <1>2 DEF SavesGood
<1>7. SessionKept' /\ KeychainUsable'
  BY <1>0, <1>2, SMT DEF SessionKept, KeychainUsable
<1> QED
  BY <1>4, <1>5, <1>6, <1>7 DEF TokenInv

\* A save ends with a good set in the keychain, or fails.
LEMMA TokenSaved ==
  ASSUME TokenInv, NEW n \in 1..MaxIssued, SaveTokens(n)
  PROVE  TokenInv'
<1>0. /\ n \in saves /\ saves' = saves \ {n}
      /\ UNCHANGED <<issued, alive, grants, token, pc, got, crossed>>
      /\ \/ keychain' = n /\ broken' = broken
         \/ keychain' = keychain /\ broken' = TRUE
  BY DEF SaveTokens, server
<1>1. TokenTypes'
  BY <1>0, ZenonT(60) DEF TokenInv, TokenTypes
<1>2. Exclusive'
  BY <1>0 DEF TokenInv, Exclusive
<1>3. SavesGood' /\ SessionKept' /\ KeychainUsable'
  BY <1>0, SMT DEF TokenInv, SessionKept, KeychainUsable, SavesGood
<1> QED
  BY <1>1, <1>2, <1>3 DEF TokenInv

\* That an access token expires costs no refresh token.
LEMMA TokenExpired ==
  ASSUME TokenInv, NEW n \in 1..MaxIssued, Expires(n)
  PROVE  TokenInv'
<1>0. UNCHANGED <<issued, grants, token, keychain, saves, pc, got, broken, crossed>>
  BY DEF Expires, store, history
<1> QED
  BY <1>0 DEF TokenInv, TokenTypes, Exclusive, SavesGood, SessionKept, KeychainUsable

\* A restart goes on with the keychain's set, and loses what had not reached it.
LEMMA TokenRestart ==
  ASSUME TokenInv, Restart
  PROVE  TokenInv'
<1>0. /\ UNCHANGED <<issued, alive, grants, keychain, crossed>> /\ saves' = {}
      /\ token' = [access |-> keychain, refresh |-> keychain]
      /\ pc' = [r \in Run |-> "idle"] /\ got' = [r \in Run |-> 0]
      /\ broken' = (broken \/ crossed \/ saves # {} \/ \E r \in Run : pc[r] = "install")
  BY DEF Restart, server
<1>1. TokenTypes'
  <2>1. pc' \in [Run -> Stage] /\ got' \in [Run -> Nat] /\ \A r \in Run : got'[r] <= issued
    BY <1>0, SMT DEF TokenInv, TokenTypes, Stage
  <2>2. token' \in [access : Nat, refresh : Nat \cup {None}] /\ broken' \in BOOLEAN
    BY <1>0 DEF TokenInv, TokenTypes
  <2> QED
    BY <1>0, <2>1, <2>2 DEF TokenInv, TokenTypes
<1>2. Exclusive' /\ SavesGood'
  BY <1>0 DEF Exclusive, SavesGood
<1>3. SessionKept' /\ KeychainUsable'
  BY <1>0, ZenonT(60) DEF TokenInv, SessionKept, KeychainUsable
<1> QED
  BY <1>1, <1>2, <1>3 DEF TokenInv

\* Every step keeps the invariant.
LEMMA TokenStep ==
  ASSUME TokenInv, [Next]_vars
  PROVE  TokenInv'
<1> DEFINE Goal == TokenInv'
<1> SUFFICES Goal
  OBVIOUS
<1>t. TokenTypes /\ token.access \in Nat /\ token.access <= issued /\ issued \in Nat
  BY DEF TokenInv, TokenTypes
<1>z. 0 <= issued
  BY <1>t, SMT
<1>w. ASSUME NEW r \in Run, pc[r] # "install", Walks(r, token.access), UNCHANGED <<server, store, history>>
      PROVE  Goal
  BY <1>t, <1>w, WalksOthers, TokenIdle
<1>r. ASSUME NEW r \in Run, pc[r] # "install", Returns(r), UNCHANGED <<server, store, history>>
      PROVE  Goal
  BY <1>t, <1>z, <1>r, ReturnsOthers, TokenIdle, SMTT(60), ZenonT(60)
<1>g. ASSUME NEW r \in Run, pc[r] # "install", NEW where \in Stage \ {"refresh", "install"}, Goes(r, where),
             UNCHANGED <<got, server, store, history>>
      PROVE  Goal
  <2>1. got[r] <= issued
    BY <1>t DEF TokenTypes
  <2> QED
    BY <1>t, <1>g, <2>1, GoesOthers, TokenIdle
<1> HIDE DEF Goal
<1>1. ASSUME NEW r \in Run, FastPath(r) PROVE Goal
  BY <1>1, <1>w, <1>g DEF FastPath, Stage
<1>2. ASSUME NEW r \in Run, Recheck(r) PROVE Goal
  <2>1. pc[r] # "install" /\ UNCHANGED <<server, store, history>>
    BY <1>2 DEF Recheck
  <2>2. CASE Fresh
    BY <1>2, <2>1, <2>2, <1>w, SMT DEF Recheck
  <2>3. CASE ~Fresh /\ token.refresh = None
    BY <1>2, <2>1, <2>3, <1>r DEF Recheck
  <2>4. CASE ~Fresh /\ token.refresh # None
    BY <1>2, <2>1, <2>4, TokenTakes DEF Recheck, Goal
  <2> QED
    BY <2>2, <2>3, <2>4, SMT
<1>3. ASSUME NEW r \in Run, refresh(r) PROVE Goal
  <2>1. pc[r] = "refresh" /\ UNCHANGED <<store, crossed>>
    BY <1>3 DEF refresh
  <2>2. CASE ~(got[r] \in grants /\ issued < MaxIssued)
    BY <1>3, <2>1, <2>2, <1>r, SMTT(60), ZenonT(60) DEF refresh, history
  <2>3. CASE got[r] \in grants /\ issued < MaxIssued
    <3>1. /\ issued' = issued + 1 /\ alive' = alive \cup {issued + 1}
          /\ grants' = (IF Rotates THEN grants \ {got[r]} ELSE grants) \cup {issued + 1}
          /\ \/ Goes(r, "install") /\ got' = [got EXCEPT ![r] = issued + 1] /\ broken' = broken
             \/ Returns(r) /\ broken' = TRUE
      BY <1>3, <2>3 DEF refresh
    <3>2. Others(r) /\ \/ pc'[r] = "install" /\ got'[r] = issued + 1 /\ broken' = broken
                       \/ pc'[r] = "idle" /\ got'[r] = 0 /\ broken' = TRUE
      <4>1. CASE Goes(r, "install") /\ got' = [got EXCEPT ![r] = issued + 1] /\ broken' = broken
        BY <1>t, <4>1, SMT DEF Goes, TokenTypes, Others, Stage
      <4> QED
        BY <1>t, <3>1, <4>1, ReturnsOthers, ZenonT(60)
    <3> QED
      BY <2>1, <3>1, <3>2, TokenRefreshed, ZenonT(60) DEF Goal
  <2> QED
    BY <2>2, <2>3
<1>4. ASSUME NEW r \in Run, install(r) PROVE Goal
  BY <1>4, TokenInstalled DEF Goal
<1>5. ASSUME NEW r \in Run, propfind(r) PROVE Goal
  <2>1. pc[r] # "install" /\ UNCHANGED <<server, store, history>>
    BY <1>5 DEF propfind
  <2>2. UNCHANGED <<pc, got>> \/ Returns(r)
    BY <1>5 DEF propfind
  <2> QED
    BY <2>1, <2>2, <1>r, TokenFrame DEF Goal
<1>6. ASSUME NEW r \in Run, Discovered(r) PROVE Goal
  BY <1>6, <1>g DEF Discovered, Stage
<1>7. ASSUME NEW r \in Run, RunEnds(r) PROVE Goal
  BY <1>7, <1>r DEF RunEnds
<1>8. ASSUME NEW c \in Call, Request(c) PROVE Goal
  BY <1>8, TokenFrame DEF Request, Goal
<1>9. ASSUME NEW c \in Call, Answered(c) PROVE Goal
  BY <1>9, TokenFrame DEF Answered, Goal
<1>10. ASSUME NEW n \in 1..MaxIssued, SaveTokens(n) PROVE Goal
  BY <1>10, TokenSaved DEF Goal
<1>11. ASSUME NEW n \in 1..MaxIssued, Expires(n) PROVE Goal
  BY <1>11, TokenExpired DEF Goal
<1>12. ASSUME NEW n \in Node, Edit(n) PROVE Goal
  BY <1>12, TokenFrame DEF Edit, Goal
<1>13. ASSUME Restart PROVE Goal
  BY <1>13, TokenRestart DEF Goal
<1>14. ASSUME UNCHANGED vars PROVE Goal
  BY <1>14, TokenFrame DEF vars, Goal
<1> QED
  BY <1>1, <1>2, <1>3, <1>4, <1>5, <1>6, <1>7, <1>8, <1>9, <1>10, <1>11, <1>12, <1>13, <1>14 DEF Next, SyncRun

\* At the start there is one token set, shared, saved and good.
LEMMA InitTokenInv == Init => TokenInv
<1> SUFFICES ASSUME Init PROVE TokenInv
  OBVIOUS
<1>1. TokenTypes
  <2>1. broken \in BOOLEAN /\ crossed \in BOOLEAN
    BY ZenonT(60) DEF Init
  <2>2. issued \in Nat /\ pc \in [Run -> Stage] /\ got \in [Run -> Nat]
    BY DEF Init, Stage
  <2>3. \A r \in Run : got[r] <= issued
    BY SMT DEF Init
  <2>4. /\ token \in [access : Nat, refresh : Nat \cup {None}] /\ token.refresh \in {token.access, None}
        /\ token.access <= issued /\ keychain \in Nat /\ keychain <= issued
    BY SMT DEF Init
  <2> QED
    BY <2>1, <2>2, <2>3, <2>4 DEF Init, TokenTypes
<1>2. Exclusive /\ SavesGood
  BY DEF Init, Exclusive, SavesGood
<1> QED
  BY <1>1, <1>2 DEF Init, TokenInv, SessionKept, KeychainUsable

\* The invariant holds throughout.
THEOREM TokensAlways == Spec => []TokenInv
<1>1. TokenInv /\ [Next]_vars => TokenInv'
  BY TokenStep
<1> QED
  BY InitTokenInv, <1>1, PTL DEF Spec

\* However many runs race in get_valid_token, the shared refresh token is one the
\* server takes, or a run is about to install its successor.
THEOREM SessionsKept == Spec => []SessionKept
<1>1. TokenInv => SessionKept
  BY DEF TokenInv
<1> QED
  BY TokensAlways, <1>1, PTL

\* Whatever the order of the background writes, once they are done and no run is
\* about to install, the keychain has a refresh token the server takes, unless
\* something was lost or the latest write began while an older one was under way.
THEOREM KeychainsUsable == Spec => []KeychainUsable
<1>1. TokenInv => KeychainUsable
  BY DEF TokenInv
<1> QED
  BY TokensAlways, <1>1, PTL

(****************************************************************************)
(* The walk, and first its queue.                                           *)
(****************************************************************************)

Lists(q, d) == \E i \in DOMAIN q : q[i] = d

\* SetToSeq lists every element of a part of a finite set. The lemmas on the walk
\* take this as a hypothesis; SetListed proves it, from the library's theorems on
\* finite sets.
ListsFinite ==
  \A S : IsFiniteSet(S) =>
    \A T \in SUBSET S : SetToSeq(T) \in Seq(T) /\ \A x \in T : Lists(SetToSeq(T), x)

\* What propfind leaves of the queue and adds to it.
Listed(q, s) == Tail(q) \o s

\* The rest of the queue and the new directories follow each other.
LEMMA Enqueued ==
  ASSUME NEW T, NEW q \in Seq(T), q # <<>>, NEW s \in Seq(T)
  PROVE  /\ Listed(q, s) \in Seq(T)
         /\ \A d : Lists(q, d) /\ d # Head(q) => Lists(Listed(q, s), d)
         /\ \A d : Lists(s, d) => Lists(Listed(q, s), d)
<1>1. /\ Tail(q) \in Seq(T) /\ Len(Tail(q)) = Len(q) - 1 /\ Len(q) \in Nat /\ Len(q) > 0
      /\ \A i \in 1..Len(q) - 1 : Tail(q)[i] = q[i + 1]
      /\ Head(q) = q[1] /\ Head(q) \in T
  BY SMT
<1>2. /\ Tail(q) \o s \in Seq(T) /\ DOMAIN (Tail(q) \o s) = 1..(Len(q) - 1 + Len(s)) /\ Len(s) \in Nat
      /\ \A i \in 1..Len(q) - 1 : (Tail(q) \o s)[i] = Tail(q)[i]
      /\ \A i \in 1..Len(s) : (Tail(q) \o s)[Len(q) - 1 + i] = s[i]
  BY <1>1, SMT
<1>3. ASSUME NEW i \in DOMAIN q, q[i] # Head(q)
      PROVE  \E j \in DOMAIN (Tail(q) \o s) : (Tail(q) \o s)[j] = q[i]
  <2>1. i \in 1..Len(q) /\ i # 1
    BY <1>1, <1>3, SMT
  <2>2. i - 1 \in 1..Len(q) - 1 /\ i - 1 + 1 = i /\ i - 1 \in 1..(Len(q) - 1 + Len(s))
    BY <1>1, <1>2, <2>1, SMT
  <2> QED
    BY <1>1, <1>2, <2>2, SMT
<1>4. ASSUME NEW i \in DOMAIN s
      PROVE  \E j \in DOMAIN (Tail(q) \o s) : (Tail(q) \o s)[j] = s[i]
  <2>1. i \in 1..Len(s) /\ Len(q) - 1 + i \in 1..(Len(q) - 1 + Len(s))
    BY <1>1, <1>2, SMT
  <2> QED
    BY <1>2, <2>1
<1> QED
  BY <1>2, <1>3, <1>4, ZenonT(60) DEF Lists, Listed

(****************************************************************************)
(* The invariant.                                                           *)
(****************************************************************************)

WalkTypes ==
  /\ tree \subseteq Node /\ pc \in [Run -> Stage]
  /\ queue \in [Run -> Seq(Dir \cup {Root})] /\ found \in [Run -> SUBSET Node]
  /\ stable \in [Run -> SUBSET Node] /\ ever \in [Run -> SUBSET Node]

\* With a path there is the directory it is in.
Rooted(S) == \A n \in S : Parent[n] \in S \cup {Root}

Queued(r, d) == Lists(queue[r], d)

\* A path that stays is found once the directory it is in has been listed; until
\* then that directory is in the queue, or has itself not been found.
Walking(r) ==
  /\ stable[r] \subseteq tree /\ tree \subseteq ever[r] /\ found[r] \subseteq ever[r]
  /\ Rooted(stable[r])
  /\ \A n \in stable[r] : Parent[n] \in found[r] \cup {Root} => n \in found[r] \/ Queued(r, Parent[n])

WalkInv ==
  /\ WalkTypes /\ Rooted(tree) /\ WalkIsBetween
  /\ \A r \in Run : pc[r] = "walk" => Walking(r)

\* A walk with nothing left to list has found every path that stayed: among those
\* it missed there would be one whose directory it did not miss.
LEMMA NothingMissed ==
  ASSUME WalkTypes, NEW r \in Run, Walking(r), queue[r] = <<>>
  PROVE  stable[r] \subseteq found[r]
<1> DEFINE S == stable[r] \ found[r]
<1> SUFFICES ASSUME S # {} PROVE FALSE
  OBVIOUS
<1>1. S \in SUBSET Node
  BY DEF WalkTypes
<1>2. PICK n \in S : Parent[n] \notin S
  BY <1>1, ClientAssumption, ZenonT(60)
<1>3. Parent[n] \in found[r] \cup {Root}
  BY <1>2 DEF Walking, Rooted
<1>4. ~Queued(r, Parent[n])
  BY SMT DEF Queued, Lists
<1> QED
  BY <1>2, <1>3, <1>4 DEF Walking

\* All but one walk stay as they are.
OtherWalks(r) ==
  /\ UNCHANGED tree /\ WalkTypes'
  /\ \A q \in Run \ {r} : /\ pc'[q] = pc[q] /\ queue'[q] = queue[q] /\ found'[q] = found[q]
                          /\ stable'[q] = stable[q] /\ ever'[q] = ever[q]

\* A step of one walk is judged by what becomes of that walk.
LEMMA OneWalk ==
  ASSUME WalkInv, NEW r \in Run, OtherWalks(r),
         pc'[r] = "walk" => Walking(r)',
         pc'[r] = "done" => stable'[r] \subseteq found'[r] /\ found'[r] \subseteq ever'[r]
  PROVE  WalkInv'
<1>1. ASSUME NEW q \in Run, pc'[q] = "walk" PROVE Walking(q)'
  BY <1>1 DEF WalkInv, OtherWalks, Walking, Queued, Rooted
<1>2. WalkIsBetween'
  BY DEF WalkInv, OtherWalks, WalkIsBetween
<1> QED
  BY <1>1, <1>2 DEF WalkInv, OtherWalks, Rooted

\* A walk begins at the root, with all that is there now.
LEMMA WalkBegins ==
  ASSUME WalkInv, NEW r \in Run, NEW n, Walks(r, n), UNCHANGED tree
  PROVE  WalkInv'
<1>1. /\ pc' = [pc EXCEPT ![r] = "walk"] /\ queue' = [queue EXCEPT ![r] = <<Root>>]
      /\ found' = [found EXCEPT ![r] = {}] /\ stable' = [stable EXCEPT ![r] = tree]
      /\ ever' = [ever EXCEPT ![r] = tree]
  BY DEF Walks, Goes
<1>2. <<Root>> \in Seq(Dir \cup {Root})
  BY SMT
<1>3. WalkTypes'
  BY <1>1, <1>2 DEF WalkInv, WalkTypes, Stage
<1>4. OtherWalks(r)
  BY <1>1, <1>3 DEF WalkInv, WalkTypes, OtherWalks
<1>5. queue'[r] = <<Root>> /\ found'[r] = {} /\ stable'[r] = tree /\ ever'[r] = tree /\ pc'[r] = "walk"
  BY <1>1 DEF WalkInv, WalkTypes
<1>6. Queued(r, Root)'
  <2>1. 1 \in DOMAIN queue'[r] /\ queue'[r][1] = Root
    BY <1>5, SMT
  <2> QED
    BY <2>1 DEF Queued, Lists
<1>7. Walking(r)'
  BY <1>5, <1>6 DEF WalkInv, Walking, Rooted
<1> QED
  BY <1>4, <1>5, <1>7, OneWalk

\* A run that returns forgets its walk.
LEMMA WalkEnds ==
  ASSUME WalkInv, NEW r \in Run, Returns(r), UNCHANGED tree
  PROVE  WalkInv'
<1>1. /\ pc' = [pc EXCEPT ![r] = "idle"] /\ queue' = [queue EXCEPT ![r] = <<>>]
      /\ found' = [found EXCEPT ![r] = {}] /\ stable' = [stable EXCEPT ![r] = {}]
      /\ ever' = [ever EXCEPT ![r] = {}]
  BY DEF Returns, Goes
<1>2. <<>> \in Seq(Dir \cup {Root})
  BY SMT
<1>3. WalkTypes'
  BY <1>1, <1>2 DEF WalkInv, WalkTypes, Stage
<1>4. OtherWalks(r) /\ pc'[r] = "idle"
  BY <1>1, <1>3 DEF WalkInv, WalkTypes, OtherWalks
<1> QED
  BY <1>4, OneWalk

\* A run that goes on to a step outside the walk.
LEMMA WalkGoes ==
  ASSUME WalkInv, NEW r \in Run, NEW where \in Stage, Goes(r, where), UNCHANGED <<tree, walk>>,
         where # "walk",
         where = "done" => stable[r] \subseteq found[r] /\ found[r] \subseteq ever[r]
  PROVE  WalkInv'
<1>1. WalkTypes' /\ pc'[r] = where
  BY DEF WalkInv, WalkTypes, Goes, walk
<1>2. OtherWalks(r)
  BY <1>1 DEF WalkInv, WalkTypes, Goes, walk, OtherWalks
<1> QED
  BY <1>1, <1>2, OneWalk DEF walk

\* One collection is listed: what it holds is found, its directories are queued.
LEMMA WalkLists ==
  ASSUME ListsFinite, WalkInv, NEW r \in Run, pc[r] = "walk", queue[r] # <<>>,
         NEW new, new = Children(Head(queue[r])) \ found[r],
         found' = [found EXCEPT ![r] = @ \cup new],
         queue' = [queue EXCEPT ![r] = Tail(@) \o SetToSeq(new \cap Dir)],
         UNCHANGED <<tree, pc, stable, ever>>
  PROVE  WalkInv'
<1> DEFINE q == queue[r]
           s == SetToSeq(new \cap Dir)
           T == Dir \cup {Root}
<1>1. new \subseteq tree /\ new \subseteq Node
  BY DEF Children, WalkInv, WalkTypes
<1>2. IsFiniteSet(Node) /\ new \cap Dir \in SUBSET Node
  BY <1>1, ClientAssumption
<1>3. s \in Seq(new \cap Dir) /\ \A x \in new \cap Dir : Lists(s, x)
  BY <1>2, ZenonT(60) DEF ListsFinite
<1>4. s \in Seq(T) /\ q \in Seq(T) /\ q # <<>>
  BY <1>3, SMT DEF WalkInv, WalkTypes
<1>5. queue'[r] = Listed(q, s) /\ found'[r] = found[r] \cup new
  BY DEF WalkInv, WalkTypes, Listed
<1> HIDE DEF s, q, T
<1>6. /\ queue'[r] \in Seq(T)
      /\ \A d : Lists(q, d) /\ d # Head(q) => Lists(queue'[r], d)
      /\ \A d : Lists(s, d) => Lists(queue'[r], d)
  <2>1. /\ Listed(q, s) \in Seq(T)
        /\ \A d : Lists(q, d) /\ d # Head(q) => Lists(Listed(q, s), d)
        /\ \A d : Lists(s, d) => Lists(Listed(q, s), d)
    BY <1>4, Enqueued
  <2> QED
    BY <1>5, <2>1, ZenonT(60)
<1>7. \A d : Queued(r, d) /\ d # Head(q) => Queued(r, d)'
  BY <1>6, ZenonT(60) DEF Queued, q
<1>8. \A d \in new \cap Dir : Queued(r, d)'
  BY <1>3, <1>6, ZenonT(60) DEF Queued
<1>9. WalkTypes' /\ OtherWalks(r)
  <2>1. queue' \in [Run -> Seq(Dir \cup {Root})]
    BY <1>6 DEF WalkInv, WalkTypes, T
  <2>2. found' \in [Run -> SUBSET Node]
    BY <1>1 DEF WalkInv, WalkTypes
  <2>3. WalkTypes'
    BY <2>1, <2>2 DEF WalkInv, WalkTypes
  <2> QED
    BY <2>3 DEF WalkInv, WalkTypes, OtherWalks
<1>10. Walking(r)
  BY DEF WalkInv
<1>11. ASSUME NEW n \in stable[r], Parent[n] \in found'[r] \cup {Root}
       PROVE  n \in found'[r] \/ Queued(r, Parent[n])'
  <2>1. n \in tree /\ n \in Node /\ Parent[n] \in Dir \cup {Root}
    BY <1>10, ClientAssumption DEF Walking, WalkInv, WalkTypes
  <2>2. CASE Parent[n] \in found[r] \cup {Root}
    <3>1. n \in found[r] \/ Queued(r, Parent[n])
      BY <1>10, <2>2 DEF Walking
    <3>2. CASE Parent[n] = Head(q)
      BY <1>5, <2>1, <3>2 DEF Children, q
    <3> QED
      BY <1>5, <1>7, <3>1, <3>2, SMT
  <2>3. CASE Parent[n] \in new
    <3>1. Parent[n] # Root
      BY <1>1, <2>3, ClientAssumption, SMT
    <3> QED
      BY <1>8, <2>1, <2>3, <3>1
  <2> QED
    BY <1>5, <1>11, <2>2, <2>3
<1>12. Walking(r)'
  BY <1>1, <1>5, <1>10, <1>11 DEF Walking, Rooted
<1> QED
  BY <1>9, <1>12, OneWalk

\* A directory goes with all that is below it, and a path comes into a directory.
LEMMA EditRooted ==
  ASSUME WalkInv, NEW n \in Node, Edit(n)
  PROVE  Rooted(tree') /\ tree' \subseteq Node
<1>1. CASE n \notin tree /\ Parent[n] \in tree \cup {Root} /\ tree' = tree \cup {n}
  BY <1>1 DEF WalkInv, WalkTypes, Rooted
<1>2. CASE n \in tree /\ tree' = tree \ Below[n]
  <2>1. ASSUME NEW m \in Node, Parent[m] \in Below[n] PROVE m \in Below[n]
    BY <2>1 DEF Below, Closed
  <2> QED
    BY <1>2, <2>1 DEF WalkInv, WalkTypes, Rooted
<1> QED
  BY <1>1, <1>2 DEF Edit

\* An edit takes from what stays and adds to what was ever there.
LEMMA WalkEdit ==
  ASSUME WalkInv, NEW n \in Node, Edit(n)
  PROVE  WalkInv'
<1>1. /\ stable' = [r \in Run |-> stable[r] \cap tree']
      /\ ever' = [r \in Run |-> IF pc[r] = "walk" THEN ever[r] \cup tree' ELSE ever[r]]
      /\ UNCHANGED <<pc, queue, found>>
  BY DEF Edit
<1>2. Rooted(tree') /\ tree' \subseteq Node
  BY EditRooted
<1>3. WalkTypes'
  BY <1>1, <1>2 DEF WalkInv, WalkTypes
<1>4. ASSUME NEW r \in Run, pc[r] = "walk" PROVE Walking(r)'
  <2>1. Walking(r) /\ stable'[r] = stable[r] \cap tree' /\ ever'[r] = ever[r] \cup tree'
    BY <1>1, <1>4 DEF WalkInv
  <2>2. Rooted(stable'[r])
    BY <1>2, <2>1 DEF Walking, Rooted
  <2>3. \A d : Queued(r, d)' <=> Queued(r, d)
    BY <1>1 DEF Queued
  <2> QED
    BY <1>1, <2>1, <2>2, <2>3, SMT DEF Walking, Rooted
<1>5. WalkIsBetween'
  BY <1>1 DEF WalkInv, WalkIsBetween
<1> QED
  BY <1>1, <1>2, <1>3, <1>4, <1>5 DEF WalkInv, Rooted

\* A restart forgets all walks.
LEMMA WalkRestart ==
  ASSUME WalkInv, Restart
  PROVE  WalkInv'
<1>1. /\ pc' = [r \in Run |-> "idle"] /\ queue' = [r \in Run |-> <<>>] /\ found' = [r \in Run |-> {}]
      /\ stable' = [r \in Run |-> {}] /\ ever' = [r \in Run |-> {}] /\ UNCHANGED tree
  BY DEF Restart
<1>2. <<>> \in Seq(Dir \cup {Root})
  BY SMT
<1>3. WalkTypes'
  BY <1>1, <1>2 DEF WalkInv, WalkTypes, Stage
<1> QED
  BY <1>1, <1>3 DEF WalkInv, WalkIsBetween, Rooted

\* A step that concerns no walk.
LEMMA WalkFrame ==
  ASSUME WalkInv, UNCHANGED <<tree, pc, walk>>
  PROVE  WalkInv'
BY DEF WalkInv, WalkTypes, WalkIsBetween, Walking, Queued, Rooted, walk

\* Every step keeps the invariant.
LEMMA WalkStep ==
  ASSUME ListsFinite, WalkInv, [Next]_vars
  PROVE  WalkInv'
<1> DEFINE Goal == WalkInv'
<1> SUFFICES Goal
  OBVIOUS
<1> HIDE DEF Goal
<1>1. ASSUME NEW r \in Run, FastPath(r) PROVE Goal
  <2>1. UNCHANGED tree /\ (Walks(r, token.access) \/ (Goes(r, "recheck") /\ UNCHANGED walk))
    BY <1>1 DEF FastPath
  <2> QED
    BY <2>1, WalkBegins, WalkGoes DEF Goal, Stage
<1>2. ASSUME NEW r \in Run, Recheck(r) PROVE Goal
  <2>1. UNCHANGED tree /\ \/ Walks(r, token.access) \/ Returns(r)
                          \/ Goes(r, "refresh") /\ UNCHANGED walk
    BY <1>2 DEF Recheck
  <2> QED
    BY <2>1, WalkBegins, WalkEnds, WalkGoes DEF Goal, Stage
<1>3. ASSUME NEW r \in Run, refresh(r) PROVE Goal
  <2>1. UNCHANGED tree /\ (Returns(r) \/ (Goes(r, "install") /\ UNCHANGED walk))
    BY <1>3 DEF refresh
  <2> QED
    BY <2>1, WalkEnds, WalkGoes DEF Goal, Stage
<1>4. ASSUME NEW r \in Run, install(r) PROVE Goal
  <2>1. UNCHANGED tree /\ Walks(r, got[r])
    BY <1>4 DEF install
  <2> QED
    BY <2>1, WalkBegins DEF Goal
<1>5. ASSUME NEW r \in Run, propfind(r) PROVE Goal
  <2>1. PICK new : new = Children(Head(queue[r])) \ found[r]
    BY ZenonT(60)
  <2>2. /\ pc[r] = "walk" /\ queue[r] # <<>> /\ UNCHANGED tree
        /\ \/ /\ UNCHANGED <<pc, stable, ever>> /\ found' = [found EXCEPT ![r] = @ \cup new]
              /\ queue' = [queue EXCEPT ![r] = Tail(@) \o SetToSeq(new \cap Dir)]
           \/ Returns(r)
    BY <1>5, <2>1, ZenonT(60) DEF propfind
  <2> QED
    BY <2>1, <2>2, WalkLists, WalkEnds, ZenonT(60) DEF Goal
<1>6. ASSUME NEW r \in Run, Discovered(r) PROVE Goal
  <2>1. pc[r] = "walk" /\ queue[r] = <<>> /\ Goes(r, "done") /\ UNCHANGED <<tree, walk>>
    BY <1>6 DEF Discovered
  <2>2. Walking(r) /\ WalkTypes
    BY <2>1 DEF WalkInv
  <2>3. stable[r] \subseteq found[r] /\ found[r] \subseteq ever[r]
    BY <2>1, <2>2, NothingMissed DEF Walking
  <2> QED
    BY <2>1, <2>3, WalkGoes DEF Goal, Stage
<1>7. ASSUME NEW r \in Run, RunEnds(r) PROVE Goal
  BY <1>7, WalkEnds DEF RunEnds, Goal
<1>8. ASSUME NEW c \in Call, Request(c) \/ Answered(c) PROVE Goal
  BY <1>8, WalkFrame DEF Request, Answered, Goal
<1>9. ASSUME NEW n \in 1..MaxIssued, SaveTokens(n) \/ Expires(n) PROVE Goal
  BY <1>9, WalkFrame, SMTT(30) DEF SaveTokens, Expires, Goal
<1>10. ASSUME NEW n \in Node, Edit(n) PROVE Goal
  BY <1>10, WalkEdit DEF Goal
<1>11. ASSUME Restart PROVE Goal
  BY <1>11, WalkRestart DEF Goal
<1>12. ASSUME UNCHANGED vars PROVE Goal
  BY <1>12, WalkFrame DEF vars, Goal
<1> QED
  BY <1>1, <1>2, <1>3, <1>4, <1>5, <1>6, <1>7, <1>8, <1>9, <1>10, <1>11, <1>12, SMTT(30) DEF Next, SyncRun

\* No walk is under way at the start.
LEMMA InitWalkInv == Init => WalkInv
<1> SUFFICES ASSUME Init PROVE WalkInv
  OBVIOUS
<1>1. <<>> \in Seq(Dir \cup {Root})
  BY SMT
<1>2. WalkTypes
  BY <1>1 DEF Init, WalkTypes, Stage
<1>3. Rooted(tree)
  BY ClientAssumption DEF Init, Rooted
<1>4. \A r \in Run : pc[r] = "idle"
  BY DEF Init
<1> QED
  BY <1>2, <1>3, <1>4 DEF WalkInv, WalkIsBetween

(****************************************************************************)
(* The facts on finite sets, and the theorem.                               *)
(****************************************************************************)
INSTANCE FiniteSetTheorems

\* SetToSeq lists every element of a finite set.
LEMMA SetListed ==
  ASSUME NEW S, IsFiniteSet(S)
  PROVE  /\ SetToSeq(S) \in Seq(S)
         /\ \A x \in S : Lists(SetToSeq(S), x)
<1> DEFINE n == Cardinality(S)
<1>1. n \in Nat /\ ExistsBijection(1..n, S)
  BY FS_CardinalityType
<1>2. \E f \in [1..n -> S] : IsInjective(f)
  BY <1>1 DEF ExistsBijection, Bijection, Injection
<1>3. SetToSeq(S) \in [1..n -> S] /\ IsInjective(SetToSeq(S))
  BY <1>2 DEF SetToSeq
<1>4. SetToSeq(S) \in Injection(1..n, S)
  BY <1>3 DEF Injection
<1>5. Cardinality(1..n) = n
  BY <1>1, FS_Interval, SMT
<1>6. SetToSeq(S) \in Surjection(1..n, S)
  BY <1>4, <1>5, FS_Injection
<1> HIDE DEF n
<1>7. SetToSeq(S) \in Seq(S)
  BY <1>1, <1>3, SMT
<1> QED
  BY <1>3, <1>6, <1>7, SMT DEF Surjection, Lists

\* And so it does those of a part of a finite set, which is finite.
LEMMA FiniteListed == ListsFinite
<1>1. \A S : IsFiniteSet(S) => \A T \in SUBSET S : IsFiniteSet(T)
  BY FS_Subset
<1> QED
  BY <1>1, SetListed, ZenonT(60) DEF ListsFinite

\* However the space changes between the PROPFINDs of discover_remote, a walk that
\* ends well has every path that existed throughout and no path that never existed.
THEOREM WalksAreBetween == Spec => []WalkIsBetween
<1>1. WalkInv /\ [Next]_vars => WalkInv'
  BY FiniteListed, WalkStep
<1>2. WalkInv => WalkIsBetween
  BY DEF WalkInv
<1> QED
  BY InitWalkInv, <1>1, <1>2, PTL DEF Spec

===============================================================================
