---------------------------- MODULE AccountsProofs ---------------------------
(****************************************************************************)
(* What Accounts promises, for any number of accounts, users, folders,      *)
(* spaces, faults and crashes.                                              *)
(****************************************************************************)
EXTENDS Accounts, TLAPS

\* Leaves that name no prover are Zenon's.
USE Zenon

(****************************************************************************)
(* The stores: types, and whose an account is.                              *)
(****************************************************************************)

\* An attempt that has begun has a user, and only such attempts are in a config,
\* under the name of that user.
Named ==
  \A a \in Account :
    /\ stage[a] = "new" => cfg[a] = None /\ disk[a] = None
    /\ stage[a] # "new" => who[a] \in User
    /\ cfg[a] # None => cfg[a].who = who[a]
    /\ disk[a] # None => disk[a].who = who[a]

Polls  == [at : {"idle", "list", "remove"}, known : SUBSET Folder]

\* Every account of d is in c, under the same user and with these folders at least.
Within(d, c) ==
  \A b \in Account : d[b] # None => c[b] # None /\ d[b].who = c[b].who /\ d[b].folder \subseteq c[b].folder

\* What a save, failed or not, does to the file.
Saved ==
  /\ disk' \in Config /\ torn' \in BOOLEAN
  /\ \/ UNCHANGED <<disk, torn>>
     \/ Within(disk', cfg') /\ (torn' \/ disk' = cfg')

\* A save leaves the file as it was, or with a part of the config in it. One that
\* succeeds leaves the config.
LEMMA SaveEffect ==
  ASSUME disk \in Config, cfg' \in Config, torn \in BOOLEAN, NEW ok \in BOOLEAN, save(ok)
  PROVE  Saved /\ (ok => disk' = cfg' /\ ~torn')
<1>1. CASE ok
  BY <1>1 DEF save, Saved, Within
<1>2. CASE ~ok
  BY <1>2 DEF save, Saved, Within, Beginnings
<1> QED
  BY <1>1, <1>2

\* Changing the folders of an account keeps its user.
LEMMA EditEntry ==
  ASSUME NEW c \in Entry, NEW X \in SUBSET Folder
  PROVE  LET e == [c EXCEPT !.folder = X]
         IN e \in Entry /\ e # None /\ e.who = c.who /\ e.folder = X
<1>1. LET e == [c EXCEPT !.folder = X] IN e \in Entry /\ e.who = c.who /\ e.folder = X
  BY DEF Entry
<1> QED
  BY <1>1, AccountsAssumption

\* AddFolder and RemoveGone change the folders of one account in the config.
LEMMA WithFolders ==
  ASSUME NEW a \in Account, cfg \in Config, cfg[a] # None, NEW X \in SUBSET Folder,
         cfg' = [cfg EXCEPT ![a].folder = X]
  PROVE  /\ cfg' \in Config
         /\ cfg'[a] # None /\ cfg'[a].who = cfg[a].who /\ cfg'[a].folder = X
         /\ \A b \in Account \ {a} : cfg'[b] = cfg[b]
<1> DEFINE e == [cfg[a] EXCEPT !.folder = X]
<1>1. cfg[a] \in Entry
  BY DEF Config
<1>2. e \in Entry /\ e # None /\ e.who = cfg[a].who /\ e.folder = X
  BY <1>1, EditEntry
<1>3. cfg' = [cfg EXCEPT ![a] = e]
  OBVIOUS
<1> HIDE DEF e
<1> QED
  BY <1>2, <1>3 DEF Config

\* A new account is an entry of the config.
LEMMA NewIsEntry ==
  ASSUME NEW u \in User
  PROVE  NewAccount(u) \in Entry /\ NewAccount(u) # None /\ NewAccount(u).who = u /\ NewAccount(u).folder = {}
<1>1. NewAccount(u) \in Entry /\ NewAccount(u).who = u /\ NewAccount(u).folder = {}
  BY DEF NewAccount, Entry
<1> QED
  BY <1>1, AccountsAssumption

\* The counters stay within their bounds.
LEMMA CountersTyped ==
  ASSUME TypeOK, NEW ok
  PROVE  /\ Fault => faults' \in 0..MaxFaults
         /\ Works(ok) => faults' \in 0..MaxFaults
BY AccountsAssumption, SMT DEF TypeOK, Config, Fault, Works

\* A folder id that NextId gives out has not been given out before.
LEMMA NextIsFresh ==
  ASSUME NEW f \in Folder, f = NextId
  PROVE  space[f] = None
<1>1. CASE \A g \in Folder : space[g] # None
  <2>1. NextId = None
    BY <1>1 DEF NextId
  <2> QED
    BY <2>1, AccountsAssumption
<1>2. CASE ~\A g \in Folder : space[g] # None
  BY <1>2 DEF NextId
<1> QED
  BY <1>1, <1>2

\* A folder that is added joins its account's and changes nothing else in the config;
\* the file follows, or stays.
LEMMA AddFolderEffect ==
  ASSUME TypeOK, NEW a \in Account, NEW f \in Folder, NEW s \in Space, AddFolder(a, f, s)
  PROVE  /\ cfg' \in Config /\ Saved /\ cfg[a] # None
         /\ cfg'[a] # None /\ cfg'[a].who = cfg[a].who /\ cfg'[a].folder = cfg[a].folder \cup {f}
         /\ \A b \in Account \ {a} : cfg'[b] = cfg[b]
<1>1. cfg[a].folder \cup {f} \in SUBSET Folder
  BY DEF AddFolder, TypeOK, Config, Entry
<1>2. cfg' = [cfg EXCEPT ![a].folder = cfg[a].folder \cup {f}] /\ cfg[a] # None
  BY DEF AddFolder
<1>3. cfg \in Config
  BY DEF TypeOK, Config
<1>4. /\ cfg' \in Config
      /\ cfg'[a] # None /\ cfg'[a].who = cfg[a].who /\ cfg'[a].folder = cfg[a].folder \cup {f}
      /\ \A b \in Account \ {a} : cfg'[b] = cfg[b]
  BY <1>1, <1>2, <1>3, WithFolders, ZenonT(60)
<1>5. Saved
  BY <1>4, SaveEffect DEF AddFolder, TypeOK, Config
<1> QED
  BY <1>2, <1>4, <1>5

\* A poller's removal takes folders from one account and leaves every account its
\* user; the file follows, or stays.
LEMMA RemoveGoneEffect ==
  ASSUME TypeOK, NEW a \in Account, RemoveGone(a)
  PROVE  /\ cfg' \in Config /\ Saved
         /\ \A b \in Account : /\ cfg'[b] # None <=> cfg[b] # None
                               /\ cfg[b] # None => cfg'[b].who = cfg[b].who
                               /\ FoldersOf(cfg'[b]) \subseteq FoldersOf(cfg[b])
         /\ taken' = taken \cup (FoldersOf(cfg[a]) \cap poller[a].known)
<1>1. cfg \in Config
  BY DEF TypeOK, Config
<1>s. cfg' \in Config => Saved
  BY SaveEffect DEF RemoveGone, TypeOK, Config
<1>2. CASE cfg[a] = None
  BY <1>1, <1>s, <1>2 DEF RemoveGone, FoldersOf
<1>3. CASE cfg[a] # None
  <2>1. cfg[a].folder \ poller[a].known \in SUBSET Folder
    BY <1>3 DEF TypeOK, Config, Entry
  <2>2. /\ cfg' = [cfg EXCEPT ![a].folder = cfg[a].folder \ poller[a].known]
        /\ taken' = taken \cup (cfg[a].folder \cap poller[a].known)
    BY <1>3 DEF RemoveGone
  <2>3. /\ cfg' \in Config
        /\ cfg'[a] # None /\ cfg'[a].who = cfg[a].who /\ cfg'[a].folder = cfg[a].folder \ poller[a].known
        /\ \A b \in Account \ {a} : cfg'[b] = cfg[b]
    BY <1>1, <1>3, <2>1, <2>2, WithFolders, ZenonT(60)
  <2> QED
    BY <1>1, <1>s, <1>3, <2>2, <2>3 DEF FoldersOf
<1> QED
  BY <1>2, <1>3

\* Enrolling changes nothing, or adds an account of a user who has none and saves; the
\* account is announced only if it is on disk.
LEMMA EnrollEffect ==
  ASSUME TypeOK, Named, NEW a \in Account, Enroll(a)
  PROVE  \/ UNCHANGED <<cfg, disk, torn, said>>
         \/ /\ cfg' = [cfg EXCEPT ![a] = NewAccount(who[a])] /\ Saved
            /\ \A b \in Account : cfg[b] # None => cfg[b].who # who[a]
            /\ said' = said \/ (Says(a, "completed") /\ disk' = cfg')
<1>1. CASE SameUser(a) /\ Silent(a, "cleanup") /\ UNCHANGED <<cfg, disk, torn, faults>>
  BY <1>1 DEF Silent
<1>2. ASSUME ~SameUser(a), NEW ok \in BOOLEAN, cfg' = [cfg EXCEPT ![a] = NewAccount(who[a])], save(ok),
             IF ok THEN To(a, "respond") /\ Says(a, "completed") ELSE Silent(a, "cleanup")
      PROVE  /\ Saved /\ \A b \in Account : cfg[b] # None => cfg[b].who # who[a]
             /\ said' = said \/ (Says(a, "completed") /\ disk' = cfg')
  <2>1. who[a] \in User
    BY DEF Enroll, At, Named
  <2>2. cfg' \in Config
    BY <1>2, <2>1, NewIsEntry DEF TypeOK, Config
  <2>3. Saved /\ (ok => disk' = cfg')
    BY <1>2, <2>2, SaveEffect DEF TypeOK, Config
  <2>4. \A b \in Account : cfg[b] # None => cfg[b].who # who[a]
    BY <1>2 DEF SameUser
  <2>5. said' = said \/ (Says(a, "completed") /\ disk' = cfg')
    <3>1. CASE ok
      BY <1>2, <2>3, <3>1
    <3>2. CASE ~ok
      BY <1>2, <3>2 DEF Silent
    <3> QED
      BY <3>1, <3>2
  <2> QED
    BY <2>3, <2>4, <2>5
<1> QED
  BY <1>1, <1>2 DEF Enroll

\* Every step keeps the types, and every account under its user's name.
LEMMA TypedStep ==
  ASSUME TypeOK, Named, [Next]_vars
  PROVE  TypeOK' /\ Named'
<1> DEFINE Goal == TypeOK' /\ Named'
<1> SUFFICES Goal
  OBVIOUS
<1> USE CountersTyped, AccountsAssumption
<1>c. Fault => faults' \in 0..MaxFaults
  OBVIOUS
<1>p. /\ poller \in [Account -> {None} \cup Polls]
      /\ \A at \in {"idle", "list", "remove"}, X \in SUBSET Folder : [at |-> at, known |-> X] \in Polls
  BY DEF TypeOK, Config, Polls
<1>1. ASSUME NEW a \in Account, NEW u \in User, AddAccount(a, u) PROVE Goal
  <2>1. /\ To(a, "discover") \/ To(a, "done")
        /\ said' = said \/ Says(a, "failed")
        /\ quiet' = quiet \/ quiet' = quiet \cup {a}
        /\ faults' \in 0..MaxFaults
    BY <1>1, <1>c DEF AddAccount, Silent, Fails, TypeOK
  <2>2. /\ UNCHANGED <<up, stores, service, poller, spaces, skipped, removed, vanished, lost, taken, crashes, changes>>
        /\ who' = [who EXCEPT ![a] = u] /\ stage[a] = "new"
    BY <1>1 DEF AddAccount, At
  <2>3. TypeOK'
    BY <2>1, <2>2, SMT DEF TypeOK, Says, To, Stage, stores, service
  <2>4. Named'
    BY <2>1, <2>2, SMT DEF TypeOK, Named, To, stores
  <2> QED
    BY <2>3, <2>4
<1>2. ASSUME NEW a \in Account, RemoveAccount(a) PROVE Goal
  <2>1. cfg' = [cfg EXCEPT ![a] = None] /\ cfg' \in Config
    BY <1>2 DEF RemoveAccount, TypeOK, Config
  <2>2. Saved /\ faults' \in 0..MaxFaults
    BY <1>2, <2>1, SaveEffect DEF RemoveAccount, TypeOK, Config
  <2>3. /\ UNCHANGED <<up, keychain, service, attempts, poller, spaces, quiet, skipped, vanished, lost, taken, crashes, changes>>
        /\ removed' = removed \cup {a}
    BY <1>2 DEF RemoveAccount
  <2>4. TypeOK'
    BY <2>1, <2>2, <2>3 DEF TypeOK, Config, Saved, service, attempts
  <2>5. Named'
    <3>1. \A b \in Account : cfg'[b] # None => cfg'[b] = cfg[b]
      BY <2>1 DEF TypeOK, Config
    <3> QED
      BY <2>2, <2>3, <3>1, SMT DEF Named, Saved, Within, attempts
  <2> QED
    BY <2>4, <2>5
<1>3. ASSUME NEW a \in Account, NEW f \in Folder, NEW s \in Space, AddFolder(a, f, s) PROVE Goal
  <2>1. faults' \in 0..MaxFaults /\ UNCHANGED <<stage, who>>
    BY <1>3 DEF AddFolder, attempts
  <2>2. space' \in [Folder -> Space \cup {None}] /\ served' \subseteq Folder /\ vanished' \subseteq Folder
    BY <1>3, SMT DEF AddFolder, TypeOK, Config
  <2>3. UNCHANGED <<up, keychain, tms, attempts, poller, spaces, quiet, skipped, removed, lost, taken, crashes, changes>>
    BY <1>3 DEF AddFolder
  <2>4. cfg' \in Config /\ disk' \in Config /\ torn' \in BOOLEAN
    BY <1>3, AddFolderEffect DEF Saved
  <2>5. TypeOK'
    BY <2>1, <2>2, <2>3, <2>4 DEF TypeOK, Config, attempts
  <2>6. Named'
    BY <1>3, <2>1, AddFolderEffect, SMT DEF Named, Saved, Within
  <2> QED
    BY <2>5, <2>6
<1>4. ASSUME NEW a \in Account, DismissSpace(a) PROVE Goal
  <2>1. Saved /\ faults' \in 0..MaxFaults
    BY <1>4, SaveEffect DEF DismissSpace, TypeOK, Config
  <2>2. UNCHANGED <<up, cfg, keychain, service, attempts, poller, spaces, history, crashes, changes>>
    BY <1>4 DEF DismissSpace
  <2>3. TypeOK'
    BY <2>1, <2>2 DEF TypeOK, Config, Saved, service, attempts, history
  <2>4. Named'
    BY <2>1, <2>2, SMT DEF Named, Saved, Within, attempts
  <2> QED
    BY <2>3, <2>4
<1>5. ASSUME Stops PROVE Goal
  <2>1. /\ stage' \in [Account -> Stage]
        /\ \A a \in Account : stage'[a] = "new" <=> stage[a] = "new"
    BY <1>5 DEF Stops, TypeOK, Config, Stage
  <2>2. disk' \in Config /\ torn' \in BOOLEAN /\ (disk' = disk \/ Within(disk', cfg))
    BY <1>5 DEF Stops, Beginnings, Within, TypeOK, Config
  <2>3. cfg' \in [Account -> Entry \cup {None}] /\ \A a \in Account : cfg'[a] = None
    BY <1>5 DEF Stops, NoAccounts
  <2>4. TypeOK'
    <3>1. /\ poller' \in [Account -> {None} \cup Polls]
          /\ quiet' \subseteq Account /\ up' \in BOOLEAN /\ tms' = {} /\ served' = {}
      BY <1>5, ZenonT(60) DEF Stops, TypeOK, Config
    <3>2. crashes' \in 0..MaxCrashes
      BY <1>5, SMT DEF Stops, TypeOK, Config
    <3>3. UNCHANGED <<keychain, space, who, said, spaces, skipped, removed, vanished, lost, taken, faults, changes>>
      BY <1>5 DEF Stops
    <3> QED
      BY <2>1, <2>2, <2>3, <3>1, <3>2, <3>3 DEF TypeOK, Config, Polls
  <2>5. Named'
    BY <1>5, <2>1, <2>2, <2>3, SMT DEF Stops, Named, Within
  <2> QED
    BY <2>4, <2>5
<1>6. ASSUME Starts PROVE Goal
  <2>1. tms' \subseteq keychain /\ skipped' \subseteq Account /\ \A a \in tms' : disk[a] # None
    BY <1>6 DEF Starts, build_token_managers, Able
  <2>2. faults' \in 0..MaxFaults
    BY <1>6, <1>c DEF Starts, TypeOK, Config
  <2>3. served' \subseteq Folder
    <3>1. \A a \in tms' : disk[a] \in Entry
      BY <2>1 DEF TypeOK, Config
    <3>2. \A a \in tms' : disk[a].folder \subseteq Folder
      BY <3>1 DEF Entry
    <3> QED
      BY <1>6, <3>2 DEF Starts, init_sync
  <2>4. poller' \in [Account -> {None} \cup Polls]
    BY <1>6, <1>p DEF Starts, SpawnPollers, Idle
  <2>5. TypeOK'
    BY <1>6, <2>1, <2>2, <2>3, <2>4 DEF Starts, TypeOK, Config, attempts, Polls
  <2>6. Named'
    BY <1>6 DEF Starts, Named, attempts
  <2> QED
    BY <2>5, <2>6, SMT
<1>7. ASSUME NEW a \in Account, Discover(a) PROVE Goal
  <2>1. \A u, flow : BrowserAt(u, flow) \in {"callback", "astray"}
    BY DEF BrowserAt
  <2>2. \E t \in {"callback", "astray", "done"} : To(a, t)
    BY <1>7, <2>1 DEF Discover, Fails, Silent
  <2>3. said' = said \/ Says(a, "failed")
    BY <1>7 DEF Discover, Fails, Silent
  <2>4. faults' \in 0..MaxFaults /\ stage[a] # "new"
    BY <1>7, <1>c DEF Discover, At
  <2> QED
    BY <1>7, <2>2, <2>3, <2>4, SMT DEF Discover, TypeOK, Config, Named, Says, To, Stage, stores, service, history
<1>8. ASSUME NEW a \in Account, ExchangeAndSave(a) PROVE Goal
  BY <1>8, SMTT(60), ZenonT(60) DEF ExchangeAndSave, TypeOK, Config, Named, Says, To, Fails, At, Silent, history, Stage
<1>9. ASSUME NEW a \in Account, resolve_identity(a) PROVE Goal
  BY <1>9, SMT DEF resolve_identity, TypeOK, Config, Named, To, At, Silent, stores, service, history, Stage
<1>10. ASSUME NEW a \in Account, Enroll(a) PROVE Goal
  <2>1. who[a] \in User /\ stage[a] # "new"
    BY <1>10 DEF Enroll, At, Named
  <2>2. \/ UNCHANGED <<cfg, disk, torn>>
        \/ cfg' = [cfg EXCEPT ![a] = NewAccount(who[a])] /\ Saved
    BY <1>10, EnrollEffect
  <2>3. \E t \in {"cleanup", "respond"} : To(a, t)
    BY <1>10 DEF Enroll, Silent
  <2>4. stage' \in [Account -> Stage]
    BY <2>3 DEF To, Stage, TypeOK, Config
  <2>5. said' = said \/ Says(a, "completed")
    BY <1>10 DEF Enroll, Silent
  <2>6. faults' \in 0..MaxFaults
    <3>1. UNCHANGED faults \/ \E ok \in BOOLEAN : Works(ok)
      BY <1>10 DEF Enroll
    <3> QED
      BY <3>1 DEF TypeOK, Config
  <2>7. cfg' \in Config /\ disk' \in Config /\ torn' \in BOOLEAN
    <3>1. NewAccount(who[a]) \in Entry
      BY <2>1, NewIsEntry
    <3> QED
      BY <2>2, <3>1, SMT DEF TypeOK, Config, Saved
  <2>8. UNCHANGED <<up, keychain, service, who, poller, spaces, history, crashes, changes>>
    BY <1>10 DEF Enroll
  <2>9. TypeOK'
    BY <2>4, <2>5, <2>6, <2>7, <2>8, SMTT(60), ZenonT(60) DEF TypeOK, Config, Says, service, history
  <2>10. Named'
    BY <2>1, <2>2, <2>3, <2>8, NewIsEntry, SMT DEF TypeOK, Config, Named, To, Saved, Within
  <2> QED
    BY <2>9, <2>10
<1>11. ASSUME NEW a \in Account, Cleanup(a) PROVE Goal
  BY <1>11, SMT DEF Cleanup, TypeOK, Config, Named, Says, To, Fails, At, Stage
<1>12. ASSUME NEW a \in Account, Respond(a) PROVE Goal
  BY <1>12 DEF Respond, TypeOK, Config, Named, To, At, Silent, stores, service, history, counts, Stage
<1>13. ASSUME NEW a \in Account, TimesOut(a) PROVE Goal
  BY <1>13, SMT DEF TimesOut, TypeOK, Config, Named, Says, To, Fails, service, counts, Stage
<1>14. ASSUME NEW a \in Account, ReadConfig(a) PROVE Goal
  <2>1. cfg[a].folder \subseteq Folder
    BY <1>14 DEF ReadConfig, TypeOK, Config, Entry
  <2>2. poller' \in [Account -> {None} \cup Polls]
    BY <1>14, <1>p, <2>1 DEF ReadConfig
  <2> QED
    BY <1>14, <2>2 DEF ReadConfig, TypeOK, Config, Named, Polls, stores, service, attempts, history, counts
<1>15. ASSUME NEW a \in Account, list_spaces(a) PROVE Goal
  <2>1. poller[a] \in Polls
    BY <1>15, <1>p DEF list_spaces
  <2>2. poller[a].known \subseteq Folder
    BY <2>1 DEF Polls
  <2>3. poller' \in [Account -> {None} \cup Polls]
    BY <1>15, <1>p, <2>2, SMT DEF list_spaces, Idle
  <2>4. faults' \in 0..MaxFaults
    BY <1>15 DEF list_spaces
  <2> QED
    BY <1>15, <2>3, <2>4 DEF list_spaces, TypeOK, Config, Named, Polls, stores, service, attempts, history
<1>16. ASSUME NEW a \in Account, RemoveGone(a) PROVE Goal
  <2>1. poller' \in [Account -> {None} \cup Polls]
    BY <1>16, <1>p DEF RemoveGone, Idle
  <2>2. /\ faults' \in 0..MaxFaults
        /\ UNCHANGED <<up, keychain, service, attempts, spaces, quiet, skipped, removed, vanished, lost, crashes, changes>>
    BY <1>16 DEF RemoveGone
  <2>3. FoldersOf(cfg[a]) \subseteq Folder
    BY DEF TypeOK, Config, Entry, FoldersOf
  <2>4. cfg' \in Config /\ disk' \in Config /\ torn' \in BOOLEAN
    BY <1>16, RemoveGoneEffect DEF Saved
  <2>5. taken' \subseteq Folder
    BY <1>16, <2>3, RemoveGoneEffect, SMT DEF TypeOK, Config
  <2>6. TypeOK'
    BY <2>1, <2>2, <2>4, <2>5 DEF TypeOK, Config, Polls, service, attempts
  <2>7. Named'
    BY <1>16, <2>2, RemoveGoneEffect, SMT DEF Named, Saved, Within, attempts
  <2> QED
    BY <2>6, <2>7, SMT
<1>17. ASSUME NEW u \in User, NEW s \in Space, ServerChanges(u, s) PROVE Goal
  BY <1>17, SMT DEF ServerChanges, TypeOK, Config, Named, stores, service, attempts, Stage
<1>18. ASSUME UNCHANGED vars PROVE Goal
  BY <1>18 DEF vars, TypeOK, Config, Named, stores, service, attempts, history, counts
<1> QED
  BY <1>1, <1>2, <1>3, <1>4, <1>5, <1>6, <1>7, <1>8, <1>9, <1>10, <1>11, <1>12, <1>13, <1>14, <1>15, <1>16,
     <1>17, <1>18 DEF Next, Commands, SignIn, Poll

(****************************************************************************)
(* One account per user.                                                    *)
(****************************************************************************)

\* No step configures a user twice.
LEMMA DistinctStep ==
  ASSUME TypeOK, Named, AccountsDistinct, [Next]_vars
  PROVE  AccountsDistinct'
<1> DEFINE Goal == AccountsDistinct'
<1> SUFFICES Goal
  OBVIOUS
<1>0. ASSUME UNCHANGED <<cfg, disk>> PROVE Goal
  BY <1>0 DEF AccountsDistinct
<1>1. ASSUME NEW a \in Account, NEW u \in User, AddAccount(a, u) PROVE Goal
  BY <1>0, <1>1 DEF AddAccount, stores
<1>2. ASSUME NEW a \in Account, RemoveAccount(a) PROVE Goal
  <2>1. cfg' = [cfg EXCEPT ![a] = None] /\ Saved
    BY <1>2, SaveEffect DEF RemoveAccount, TypeOK, Config
  <2> QED
    BY <2>1, SMT DEF AccountsDistinct, Saved, Within, TypeOK, Config
<1>3. ASSUME NEW a \in Account, NEW f \in Folder, NEW s \in Space, AddFolder(a, f, s) PROVE Goal
  BY <1>3, AddFolderEffect, SMT DEF AccountsDistinct, Saved, Within
<1>4. ASSUME NEW a \in Account, DismissSpace(a) PROVE Goal
  <2>1. UNCHANGED cfg /\ Saved
    BY <1>4, SaveEffect DEF DismissSpace, TypeOK, Config
  <2> QED
    BY <2>1, SMT DEF AccountsDistinct, Saved, Within
<1>5. ASSUME Stops PROVE Goal
  BY <1>5, SMT DEF Stops, AccountsDistinct, NoAccounts, Beginnings
<1>6. ASSUME Starts PROVE Goal
  BY <1>6 DEF Starts, AccountsDistinct, TypeOK, Config
<1>7. ASSUME NEW a \in Account, Discover(a) PROVE Goal
  BY <1>0, <1>7 DEF Discover, stores
<1>8. ASSUME NEW a \in Account, ExchangeAndSave(a) PROVE Goal
  BY <1>0, <1>8 DEF ExchangeAndSave
<1>9. ASSUME NEW a \in Account, resolve_identity(a) PROVE Goal
  BY <1>0, <1>9 DEF resolve_identity, stores
<1>10. ASSUME NEW a \in Account, Enroll(a) PROVE Goal
  <2>1. who[a] \in User
    BY <1>10 DEF Enroll, At, Named
  <2>2. \/ UNCHANGED <<cfg, disk>>
        \/ /\ cfg' = [cfg EXCEPT ![a] = NewAccount(who[a])] /\ Saved
           /\ \A b \in Account : cfg[b] # None => cfg[b].who # who[a]
    BY <1>10, EnrollEffect
  <2> QED
    <3>1. cfg \in [Account -> Entry \cup {None}]
      BY DEF TypeOK, Config
    <3> QED
      BY <2>1, <2>2, <3>1, NewIsEntry, SMT DEF AccountsDistinct, Saved, Within
<1>11. ASSUME NEW a \in Account, Cleanup(a) PROVE Goal
  BY <1>0, <1>11 DEF Cleanup
<1>12. ASSUME NEW a \in Account, Respond(a) PROVE Goal
  BY <1>0, <1>12 DEF Respond, stores
<1>13. ASSUME NEW a \in Account, TimesOut(a) PROVE Goal
  BY <1>0, <1>13 DEF TimesOut
<1>14. ASSUME NEW a \in Account, ReadConfig(a) PROVE Goal
  BY <1>0, <1>14 DEF ReadConfig, stores
<1>15. ASSUME NEW a \in Account, list_spaces(a) PROVE Goal
  BY <1>0, <1>15 DEF list_spaces, stores
<1>16. ASSUME NEW a \in Account, RemoveGone(a) PROVE Goal
  BY <1>16, RemoveGoneEffect, SMT DEF AccountsDistinct, Saved, Within
<1>17. ASSUME NEW u \in User, NEW s \in Space, ServerChanges(u, s) PROVE Goal
  BY <1>0, <1>17 DEF ServerChanges, stores
<1>18. ASSUME UNCHANGED vars PROVE Goal
  BY <1>0, <1>18 DEF vars, stores
<1> QED
  BY <1>1, <1>2, <1>3, <1>4, <1>5, <1>6, <1>7, <1>8, <1>9, <1>10, <1>11, <1>12, <1>13, <1>14, <1>15, <1>16,
     <1>17, <1>18 DEF Next, Commands, SignIn, Poll

(****************************************************************************)
(* Credentials.                                                             *)
(****************************************************************************)

\* What an attempt has of credentials and has said, by where it is. Attempts end
\* when the daemon stops.
Credentials ==
  \A a \in Account :
    /\ ~up => stage[a] \in {"new", "done"}
    /\ stage[a] \notin {"respond", "done"} => said[a] = {}
    /\ stage[a] \in {"identity", "enroll"} => a \in tms /\ a \in keychain
    /\ stage[a] \in {"new", "discover", "callback", "astray"} /\ a \notin quiet => a \notin tms /\ a \notin keychain
    /\ "failed" \in said[a] => stage[a] = "done"

\* No step leaves an attempt's credentials out of line with its stage.
LEMMA CredentialsStep ==
  ASSUME TypeOK, Credentials, FailedLeavesNothing, [Next]_vars
  PROVE  (Credentials /\ FailedLeavesNothing)'
<1> DEFINE Goal == (Credentials /\ FailedLeavesNothing)'
<1> SUFFICES Goal
  OBVIOUS
<1>0. ASSUME UNCHANGED <<up, stage, said, tms, keychain, quiet>> PROVE Goal
  BY <1>0 DEF Credentials, FailedLeavesNothing
<1>1. ASSUME NEW a \in Account, NEW u \in User, AddAccount(a, u) PROVE Goal
  <2>1. /\ up /\ stage[a] = "new" /\ UNCHANGED <<up, tms, keychain>>
        /\ \/ To(a, "discover") /\ UNCHANGED <<said, quiet>>
           \/ To(a, "done") /\ Says(a, "failed") /\ UNCHANGED quiet
           \/ To(a, "done") /\ UNCHANGED said /\ quiet' = quiet \cup {a}
    BY <1>1 DEF AddAccount, At, Silent, Fails, stores, service
  <2> QED
    BY <2>1, SMT DEF Credentials, FailedLeavesNothing, To, Says, TypeOK
<1>2. ASSUME NEW a \in Account, RemoveAccount(a) PROVE Goal
  BY <1>0, <1>2 DEF RemoveAccount, service, attempts
<1>3. ASSUME NEW a \in Account, NEW f \in Folder, NEW s \in Space, AddFolder(a, f, s) PROVE Goal
  BY <1>0, <1>3 DEF AddFolder, attempts
<1>4. ASSUME NEW a \in Account, DismissSpace(a) PROVE Goal
  BY <1>0, <1>4 DEF DismissSpace, service, attempts, history
<1>5. ASSUME Stops PROVE Goal
  BY <1>5 DEF Stops, Credentials, FailedLeavesNothing, TypeOK, Config
<1>6. ASSUME Starts PROVE Goal
  BY <1>6 DEF Starts, build_token_managers, Able, Credentials, FailedLeavesNothing, TypeOK, Config, attempts
<1>7. ASSUME NEW a \in Account, Discover(a) PROVE Goal
  <2>1. \A u, flow : BrowserAt(u, flow) \in {"callback", "astray"}
    BY DEF BrowserAt
  <2>2. \/ \E t \in {"callback", "astray"} : Silent(a, t)
        \/ Fails(a)
    BY <1>7, <2>1 DEF Discover
  <2> QED
    BY <1>7, <2>2, SMT DEF Discover, Credentials, FailedLeavesNothing, At, Silent, Fails, To, Says, TypeOK, Config, stores, service, history
<1>8. ASSUME NEW a \in Account, ExchangeAndSave(a) PROVE Goal
  BY <1>8, SMT DEF ExchangeAndSave, Credentials, FailedLeavesNothing, At, Silent, Fails, To, Says, TypeOK, Config, history
<1>9. ASSUME NEW a \in Account, resolve_identity(a) PROVE Goal
  BY <1>9, SMT DEF resolve_identity, Credentials, FailedLeavesNothing, At, Silent, To, TypeOK, Config, stores, service, history
<1>10. ASSUME NEW a \in Account, Enroll(a) PROVE Goal
  BY <1>10, SMT DEF Enroll, Credentials, FailedLeavesNothing, At, Silent, To, Says, TypeOK, Config, service, history
<1>11. ASSUME NEW a \in Account, Cleanup(a) PROVE Goal
  BY <1>11 DEF Cleanup, Credentials, FailedLeavesNothing, At, Fails, To, Says, TypeOK, Config
<1>12. ASSUME NEW a \in Account, Respond(a) PROVE Goal
  BY <1>12 DEF Respond, Credentials, FailedLeavesNothing, At, Silent, To, TypeOK, Config, stores, service, history
<1>13. ASSUME NEW a \in Account, TimesOut(a) PROVE Goal
  BY <1>13, SMT DEF TimesOut, Credentials, FailedLeavesNothing, Fails, To, Says, TypeOK, Config, service
<1>14. ASSUME NEW a \in Account, ReadConfig(a) PROVE Goal
  BY <1>0, <1>14 DEF ReadConfig, stores, service, attempts, history
<1>15. ASSUME NEW a \in Account, list_spaces(a) PROVE Goal
  BY <1>0, <1>15 DEF list_spaces, stores, service, attempts, history
<1>16. ASSUME NEW a \in Account, RemoveGone(a) PROVE Goal
  BY <1>0, <1>16 DEF RemoveGone, service, attempts
<1>17. ASSUME NEW u \in User, NEW s \in Space, ServerChanges(u, s) PROVE Goal
  BY <1>0, <1>17 DEF ServerChanges, stores, service, attempts
<1>18. ASSUME UNCHANGED vars PROVE Goal
  BY <1>0, <1>18 DEF vars, stores, service, attempts, history
<1> QED
  BY <1>1, <1>2, <1>3, <1>4, <1>5, <1>6, <1>7, <1>8, <1>9, <1>10, <1>11, <1>12, <1>13, <1>14, <1>15, <1>16,
     <1>17, <1>18 DEF Next, Commands, SignIn, Poll

\* No step takes an account that was announced as added from memory, disk or keychain.
LEMMA SurvivesStep ==
  ASSUME TypeOK, Named, Credentials, CompletedSurvives, [Next]_vars
  PROVE  CompletedSurvives'
<1> DEFINE Goal == CompletedSurvives'
<1> SUFFICES Goal
  OBVIOUS
<1>t. cfg \in [Account -> Entry \cup {None}] /\ said \in [Account -> SUBSET {"completed", "failed"}]
  BY DEF TypeOK, Config
<1>0. ASSUME UNCHANGED <<up, cfg, disk, torn, keychain, tms, said, skipped, removed, lost>> PROVE Goal
  BY <1>0 DEF CompletedSurvives
<1>d. ASSUME UNCHANGED <<up, keychain, tms, said, skipped, lost>>, Saved, up, removed \subseteq removed',
             \A b \in Account \ removed' : cfg[b] # None => cfg'[b] # None
      PROVE  Goal
  BY <1>d, SMT DEF CompletedSurvives, Saved
<1>1. ASSUME NEW a \in Account, NEW u \in User, AddAccount(a, u) PROVE Goal
  BY <1>t, <1>1, SMT DEF AddAccount, CompletedSurvives, Credentials, At, Silent, Fails, Says, stores, service, history
<1>2. ASSUME NEW a \in Account, RemoveAccount(a) PROVE Goal
  <2>1. cfg' = [cfg EXCEPT ![a] = None] /\ Saved
    BY <1>2, SaveEffect DEF RemoveAccount, TypeOK, Config
  <2> QED
    BY <1>t, <1>d, <1>2, <2>1 DEF RemoveAccount, service, attempts
<1>3. ASSUME NEW a \in Account, NEW f \in Folder, NEW s \in Space, AddFolder(a, f, s) PROVE Goal
  <2>1. up /\ UNCHANGED <<up, keychain, tms, said, skipped, removed, lost>>
    BY <1>3 DEF AddFolder, attempts
  <2> QED
    BY <1>3, <1>d, <2>1, AddFolderEffect
<1>4. ASSUME NEW a \in Account, DismissSpace(a) PROVE Goal
  <2>1. UNCHANGED cfg /\ Saved
    BY <1>4, SaveEffect DEF DismissSpace, TypeOK, Config
  <2> QED
    BY <1>d, <1>4, <2>1 DEF DismissSpace, service, attempts, history
<1>5. ASSUME Stops PROVE Goal
  <2>1. up /\ ~up' /\ UNCHANGED <<keychain, said, removed, lost>>
    BY <1>5 DEF Stops
  <2>2. UNCHANGED <<disk, torn>> \/ torn' \/ disk' = cfg
    BY <1>5 DEF Stops
  <2>3. ASSUME NEW a \in Account \ (removed \cup lost), "completed" \in said[a]
        PROVE  a \in keychain /\ (~torn' => disk'[a] # None)
    <3>1. a \in keychain /\ cfg[a] # None /\ (~torn => disk[a] # None)
      BY <2>1, <2>3 DEF CompletedSurvives
    <3> QED
      BY <2>2, <3>1
  <2> QED
    BY <2>1, <2>3 DEF CompletedSurvives
<1>6. ASSUME Starts PROVE Goal
  BY <1>t, <1>6 DEF Starts, build_token_managers, CompletedSurvives,attempts
<1>7. ASSUME NEW a \in Account, Discover(a) PROVE Goal
  BY <1>t, <1>7, SMT DEF Discover, CompletedSurvives, Silent, Fails, Says, stores, service, history
<1>8. ASSUME NEW a \in Account, ExchangeAndSave(a) PROVE Goal
  BY <1>t, <1>8, SMT DEF ExchangeAndSave, CompletedSurvives, Credentials, At, Silent, Fails, Says,history
<1>9. ASSUME NEW a \in Account, resolve_identity(a) PROVE Goal
  BY <1>0, <1>9 DEF resolve_identity, stores, service, history, Silent
<1>10. ASSUME NEW a \in Account, Enroll(a) PROVE Goal
  <2>1. who[a] \in User /\ a \in tms /\ a \in keychain
    BY <1>10 DEF Enroll, At, Named, Credentials
  <2>2. up /\ UNCHANGED <<up, keychain, tms, skipped, removed, lost>>
    BY <1>10 DEF Enroll, At, service, history
  <2>3. CASE UNCHANGED <<cfg, disk, torn, said>>
    BY <1>0, <2>2, <2>3
  <2>4. CASE cfg' = [cfg EXCEPT ![a] = NewAccount(who[a])] /\ Saved /\ said' = said
    BY <1>t, <1>d, <2>1, <2>2, <2>4, NewIsEntry
  <2>5. CASE cfg' = [cfg EXCEPT ![a] = NewAccount(who[a])] /\ Says(a, "completed") /\ disk' = cfg'
    BY <1>t, <2>1, <2>2, <2>5, NewIsEntry, SMTT(30), ZenonT(30) DEF CompletedSurvives, Says
  <2> QED
    BY <1>10, <2>3, <2>4, <2>5, EnrollEffect
<1>11. ASSUME NEW a \in Account, Cleanup(a) PROVE Goal
  BY <1>t, <1>11 DEF Cleanup, CompletedSurvives, Credentials, At, Fails, Says
<1>12. ASSUME NEW a \in Account, Respond(a) PROVE Goal
  BY <1>0, <1>12 DEF Respond, stores, service, history, Silent
<1>13. ASSUME NEW a \in Account, TimesOut(a) PROVE Goal
  BY <1>t, <1>13 DEF TimesOut, CompletedSurvives, Credentials, Fails, Says,service
<1>14. ASSUME NEW a \in Account, ReadConfig(a) PROVE Goal
  BY <1>0, <1>14 DEF ReadConfig, stores, service, attempts, history
<1>15. ASSUME NEW a \in Account, list_spaces(a) PROVE Goal
  BY <1>0, <1>15 DEF list_spaces, stores, service, attempts, history
<1>16. ASSUME NEW a \in Account, RemoveGone(a) PROVE Goal
  <2>1. up /\ UNCHANGED <<up, keychain, tms, said, skipped, removed, lost>>
    BY <1>16 DEF RemoveGone, attempts, service
  <2> QED
    BY <1>16, <1>d, <2>1, RemoveGoneEffect
<1>17. ASSUME NEW u \in User, NEW s \in Space, ServerChanges(u, s) PROVE Goal
  BY <1>0, <1>17 DEF ServerChanges, stores, service, attempts
<1>18. ASSUME UNCHANGED vars PROVE Goal
  BY <1>0, <1>18 DEF vars, stores, service, attempts, history
<1> QED
  BY <1>1, <1>2, <1>3, <1>4, <1>5, <1>6, <1>7, <1>8, <1>9, <1>10, <1>11, <1>12, <1>13, <1>14, <1>15, <1>16,
     <1>17, <1>18 DEF Next, Commands, SignIn, Poll

(****************************************************************************)
(* The theorems.                                                            *)
(****************************************************************************)

\* The inductive invariant.
Inv == TypeOK /\ Named /\ Credentials /\ AccountsDistinct /\ FailedLeavesNothing /\ CompletedSurvives

\* A daemon that has just been installed satisfies the invariant.
LEMMA InitInv == Init => Inv
<1> SUFFICES ASSUME Init PROVE Inv
  OBVIOUS
<1>1. \A a \in Account : cfg[a] = None /\ disk[a] = None
  BY DEF Init, NoAccounts
<1>2. TypeOK
  <2>1. /\ cfg \in [Account -> Entry \cup {None}] /\ disk \in [Account -> Entry \cup {None}]
        /\ space \in [Folder -> Space \cup {None}] /\ who \in [Account -> User \cup {None}]
        /\ poller \in [Account -> {None} \cup [at : {"idle", "list", "remove"}, known : SUBSET Folder]]
    BY ZenonT(60) DEF Init, NoAccounts
  <2>2. spaces \in [User -> SUBSET Space]
    BY DEF Init
  <2>3. stage \in [Account -> Stage] /\ said \in [Account -> SUBSET {"completed", "failed"}]
    BY DEF Init, Stage
  <2>4. faults \in 0..MaxFaults /\ crashes \in 0..MaxCrashes /\ changes \in 0..MaxChanges
    BY AccountsAssumption, SMT DEF Init
  <2> QED
    BY <2>1, <2>2, <2>3, <2>4, ZenonT(60) DEF Init, TypeOK, Config
<1>3. Named /\ AccountsDistinct
  BY <1>1 DEF Init, Named, AccountsDistinct
<1>4. Credentials /\ FailedLeavesNothing /\ CompletedSurvives
  BY DEF Init, Credentials, FailedLeavesNothing, CompletedSurvives
<1> QED
  BY <1>2, <1>3, <1>4 DEF Inv

\* Sign-ins, commands, polls, restarts and failures of any of their steps keep it.
THEOREM InvAlways == Spec => []Inv
<1>1. Inv /\ [Next]_vars => Inv'
  BY TypedStep, DistinctStep, CredentialsStep, SurvivesStep DEF Inv
<1> QED
  BY InitInv, <1>1, PTL DEF Spec

\* The stores keep their types.
THEOREM Typed == Spec => []TypeOK
BY InvAlways, PTL DEF Inv

\* However many sign-ins overlap and whatever fails, finish_add_account never lets
\* the same user of a server into the config twice.
THEOREM Distinct == Spec => []AccountsDistinct
BY InvAlways, PTL DEF Inv

\* A sign-in that reported an error has left neither a token manager nor a keychain
\* entry, unless it timed out, was cut off or could not delete the entry.
THEOREM NothingLeft == Spec => []FailedLeavesNothing
BY InvAlways, PTL DEF Inv

\* An account that was announced as added survives failing saves and restarts until
\* it is removed. What can lose it is a start from a file that a save, failing or cut
\* off after it had emptied the file, has left.
THEOREM Survives == Spec => []CompletedSurvives
BY InvAlways, PTL DEF Inv

(****************************************************************************)
(* The folders of an account: those configured are served, and a poller     *)
(* takes out only those whose space was gone.                               *)
(****************************************************************************)

\* No step configures a folder that nothing serves.
LEMMA ServedStep ==
  ASSUME TypeOK, Named, ConfiguredIsServed, [Next]_vars
  PROVE  ConfiguredIsServed'
<1> DEFINE Goal == ConfiguredIsServed'
<1> SUFFICES Goal
  BY SMT
<1>t. cfg \in [Account -> Entry \cup {None}]
  BY DEF TypeOK, Config
<1>0. ASSUME UNCHANGED <<up, cfg, served, skipped>> PROVE Goal
  BY <1>0 DEF ConfiguredIsServed
<1>1. ASSUME NEW a \in Account, NEW u \in User, AddAccount(a, u) PROVE Goal
  BY <1>0, <1>1 DEF AddAccount, stores, service, history
<1>2. ASSUME NEW a \in Account, RemoveAccount(a) PROVE Goal
  BY <1>t, <1>2 DEF RemoveAccount, ConfiguredIsServed,service
<1>3. ASSUME NEW a \in Account, NEW f \in Folder, NEW s \in Space, AddFolder(a, f, s) PROVE Goal
  BY <1>3, AddFolderEffect, SMT DEF AddFolder, ConfiguredIsServed
<1>4. ASSUME NEW a \in Account, DismissSpace(a) PROVE Goal
  BY <1>0, <1>4 DEF DismissSpace, service, history
<1>5. ASSUME Stops PROVE Goal
  BY <1>t, <1>5 DEF Stops, ConfiguredIsServed
<1>6. ASSUME Starts PROVE Goal
  BY <1>t, <1>6 DEF Starts, build_token_managers, init_sync, ConfiguredIsServed
<1>7. ASSUME NEW a \in Account, Discover(a) PROVE Goal
  BY <1>0, <1>7 DEF Discover, stores, service, history
<1>8. ASSUME NEW a \in Account, ExchangeAndSave(a) PROVE Goal
  BY <1>0, <1>8 DEF ExchangeAndSave, history
<1>9. ASSUME NEW a \in Account, resolve_identity(a) PROVE Goal
  BY <1>0, <1>9 DEF resolve_identity, stores, service, history
<1>10. ASSUME NEW a \in Account, Enroll(a) PROVE Goal
  <2>1. who[a] \in User
    BY <1>10, SMT DEF Enroll, At, Named
  <2>2. cfg' = cfg \/ cfg' = [cfg EXCEPT ![a] = NewAccount(who[a])]
    BY <1>10 DEF Enroll
  <2>3. UNCHANGED <<up, served, skipped>>
    BY <1>10 DEF Enroll, service, history
  <2> QED
    BY <1>t, <2>1, <2>2, <2>3, NewIsEntry DEF ConfiguredIsServed
<1>11. ASSUME NEW a \in Account, Cleanup(a) PROVE Goal
  BY <1>0, <1>11 DEF Cleanup
<1>12. ASSUME NEW a \in Account, Respond(a) PROVE Goal
  BY <1>0, <1>12 DEF Respond, stores, service, history
<1>13. ASSUME NEW a \in Account, TimesOut(a) PROVE Goal
  BY <1>0, <1>13 DEF TimesOut, service
<1>14. ASSUME NEW a \in Account, ReadConfig(a) PROVE Goal
  BY <1>0, <1>14 DEF ReadConfig, stores, service, history
<1>15. ASSUME NEW a \in Account, list_spaces(a) PROVE Goal
  BY <1>0, <1>15 DEF list_spaces, stores, service, history
<1>16. ASSUME NEW a \in Account, RemoveGone(a) PROVE Goal
  <2>1. UNCHANGED <<up, served, skipped>>
    BY <1>16 DEF RemoveGone, service
  <2> QED
    BY <1>16, <2>1, RemoveGoneEffect DEF ConfiguredIsServed, FoldersOf
<1>17. ASSUME NEW u \in User, NEW s \in Space, ServerChanges(u, s) PROVE Goal
  BY <1>0, <1>17 DEF ServerChanges, stores, service
<1>18. ASSUME UNCHANGED vars PROVE Goal
  BY <1>0, <1>18 DEF vars, stores, service, history
<1> QED
  BY <1>1, <1>2, <1>3, <1>4, <1>5, <1>6, <1>7, <1>8, <1>9, <1>10, <1>11, <1>12, <1>13, <1>14, <1>15, <1>16,
     <1>17, <1>18, SMT DEF Next, Commands, SignIn, Poll

\* A folder that is configured has its space's id, and that space is on the server
\* unless it was missed since; a poll that is about to remove what it read has only
\* such folders of its account.
Accounted ==
  /\ \A a \in Account, f \in Folder :
       f \in FoldersOf(cfg[a]) \cup FoldersOf(disk[a]) =>
         space[f] # None /\ (space[f] \in spaces[who[a]] \/ f \in vanished)
  /\ \A a \in Account : poller[a] # None =>
       /\ \A f \in poller[a].known : space[f] # None
       /\ poller[a].at = "remove" => FoldersOf(cfg[a]) \cap poller[a].known \subseteq vanished

\* No step lets a poller take a folder whose space was there all along.
LEMMA GoneStep ==
  ASSUME TypeOK, Named, Accounted, OnlyGoneTaken, [Next]_vars
  PROVE  (Accounted /\ OnlyGoneTaken)'
<1> DEFINE Goal == (Accounted /\ OnlyGoneTaken)'
<1> SUFFICES Goal
  OBVIOUS
<1>t. /\ cfg \in [Account -> Entry \cup {None}] /\ who \in [Account -> User \cup {None}]
      /\ space \in [Folder -> Space \cup {None}] /\ spaces \in [User -> SUBSET Space]
  BY DEF TypeOK, Config
<1>p. poller \in [Account -> {None} \cup Polls]
  BY DEF TypeOK, Config, Polls
<1>f. \A a \in Account : FoldersOf(cfg[a]) \subseteq Folder /\ FoldersOf(disk[a]) \subseteq Folder
  BY DEF FoldersOf, TypeOK, Config, Entry
<1> DEFINE Fewer == \A b \in Account :
             /\ FoldersOf(cfg'[b]) \subseteq FoldersOf(cfg[b])
             /\ FoldersOf(disk'[b]) \subseteq FoldersOf(cfg[b]) \cup FoldersOf(disk[b])
<1>w. ASSUME Saved
      PROVE  \A b \in Account : FoldersOf(disk'[b]) \subseteq FoldersOf(cfg'[b]) \cup FoldersOf(disk[b])
  BY <1>w DEF Saved, Within, FoldersOf
<1>s. ASSUME Fewer, UNCHANGED <<space, spaces, who, vanished, poller, taken>> PROVE Goal
  BY <1>s DEF Accounted, OnlyGoneTaken
<1>0. ASSUME UNCHANGED <<cfg, disk, space, spaces, who, vanished, poller, taken>> PROVE Goal
  BY <1>0 DEF Accounted, OnlyGoneTaken
<1>1. ASSUME NEW a \in Account, NEW u \in User, AddAccount(a, u) PROVE Goal
  <2>1. /\ UNCHANGED <<cfg, disk, space, spaces, vanished, poller, taken>>
        /\ who' = [who EXCEPT ![a] = u]
    BY <1>1 DEF AddAccount, stores, service, history
  <2>2. FoldersOf(cfg[a]) = {} /\ FoldersOf(disk[a]) = {}
    BY <1>1 DEF AddAccount, At, Named, FoldersOf
  <2> QED
    BY <1>t, <2>1, <2>2 DEF Accounted, OnlyGoneTaken
<1>2. ASSUME NEW a \in Account, RemoveAccount(a) PROVE Goal
  <2>1. cfg' = [cfg EXCEPT ![a] = None] /\ Saved
    BY <1>2, SaveEffect DEF RemoveAccount, TypeOK, Config
  <2>2. Fewer
    BY <1>t, <1>w, <2>1 DEF FoldersOf
  <2> QED
    BY <1>2, <1>s, <2>2 DEF RemoveAccount, service, attempts
<1>3. ASSUME NEW a \in Account, NEW f \in Folder, NEW s \in Space, AddFolder(a, f, s) PROVE Goal
  <2>1. space[f] = None /\ cfg[a].who = who[a]
    BY <1>3, NextIsFresh DEF AddFolder, Named
  <2>2. /\ \A b \in Account \ {a} : FoldersOf(cfg'[b]) = FoldersOf(cfg[b])
        /\ FoldersOf(cfg'[a]) = FoldersOf(cfg[a]) \cup {f}
        /\ \A b \in Account : FoldersOf(disk'[b]) \subseteq FoldersOf(cfg'[b]) \cup FoldersOf(disk[b])
    BY <1>3, <1>w, AddFolderEffect DEF FoldersOf
  <2>3. /\ space' = [space EXCEPT ![f] = s] /\ vanished \subseteq vanished'
        /\ s \in spaces[who[a]] \/ f \in vanished'
        /\ UNCHANGED <<who, poller, spaces, taken>>
    BY <1>3, <2>1 DEF AddFolder, attempts
  <2>4. s # None
    BY AccountsAssumption
  <2> QED
    <3>1. \A b \in Account, g \in Folder :
            g \in FoldersOf(cfg'[b]) \cup FoldersOf(disk'[b]) =>
              g \in FoldersOf(cfg[b]) \cup FoldersOf(disk[b]) \/ (b = a /\ g = f)
      BY <2>2, SMT
    <3>2. \A g \in Folder : space'[g] = IF g = f THEN s ELSE space[g]
      BY <1>t, <2>3
    <3>3. \A b \in Account, g \in Folder :
            g \in FoldersOf(cfg'[b]) \cup FoldersOf(disk'[b]) =>
              space'[g] # None /\ (space'[g] \in spaces'[who'[b]] \/ g \in vanished')
      BY <2>1, <2>3, <2>4, <3>1, <3>2, SMT DEF Accounted
    <3>4. \A b \in Account : poller'[b] # None =>
            /\ \A g \in poller'[b].known : space'[g] # None
            /\ poller'[b].at = "remove" => FoldersOf(cfg'[b]) \cap poller'[b].known \subseteq vanished'
      BY <1>t, <2>1, <2>2, <2>3, <2>4, SMT DEF Accounted
    <3> QED
      BY <2>3, <3>3, <3>4 DEF Accounted, OnlyGoneTaken
<1>4. ASSUME NEW a \in Account, DismissSpace(a) PROVE Goal
  <2>1. UNCHANGED cfg /\ Saved
    BY <1>4, SaveEffect DEF DismissSpace, TypeOK, Config
  <2>2. Fewer
    BY <1>w, <2>1
  <2> QED
    BY <1>4, <1>s, <2>2 DEF DismissSpace, service, attempts, history
<1>5. ASSUME Stops PROVE Goal
  <2>1. \A b \in Account : FoldersOf(cfg'[b]) = {} /\ poller'[b] = None
    BY <1>5 DEF Stops, NoAccounts, FoldersOf
  <2>2. \A b \in Account : FoldersOf(disk'[b]) \subseteq FoldersOf(cfg[b]) \cup FoldersOf(disk[b])
    BY <1>5 DEF Stops, Beginnings, FoldersOf
  <2>3. UNCHANGED <<space, spaces, who, vanished, taken>>
    BY <1>5 DEF Stops
  <2> QED
    BY <2>1, <2>2, <2>3 DEF Accounted, OnlyGoneTaken
<1>6. ASSUME Starts PROVE Goal
  BY <1>6 DEF Starts, SpawnPollers, Idle, Accounted, OnlyGoneTaken, attempts
<1>7. ASSUME NEW a \in Account, Discover(a) PROVE Goal
  BY <1>0, <1>7 DEF Discover, stores, service, history
<1>8. ASSUME NEW a \in Account, ExchangeAndSave(a) PROVE Goal
  BY <1>0, <1>8 DEF ExchangeAndSave, history
<1>9. ASSUME NEW a \in Account, resolve_identity(a) PROVE Goal
  BY <1>0, <1>9 DEF resolve_identity, stores, service, history
<1>10. ASSUME NEW a \in Account, Enroll(a) PROVE Goal
  <2>1. who[a] \in User
    BY <1>10 DEF Enroll, At, Named
  <2>2. \/ UNCHANGED <<cfg, disk>>
        \/ cfg' = [cfg EXCEPT ![a] = NewAccount(who[a])] /\ Saved
    BY <1>10, EnrollEffect
  <2>3. \A b \in Account : FoldersOf(cfg'[b]) \subseteq FoldersOf(cfg[b])
    BY <1>t, <2>1, <2>2, NewIsEntry, SMT DEF FoldersOf
  <2>4. Fewer
    BY <1>w, <2>2, <2>3, SMT
  <2> QED
    BY <1>10, <1>s, <2>4 DEF Enroll, service, history
<1>11. ASSUME NEW a \in Account, Cleanup(a) PROVE Goal
  BY <1>0, <1>11 DEF Cleanup
<1>12. ASSUME NEW a \in Account, Respond(a) PROVE Goal
  BY <1>0, <1>12 DEF Respond, stores, service, history
<1>13. ASSUME NEW a \in Account, TimesOut(a) PROVE Goal
  BY <1>0, <1>13 DEF TimesOut, service
<1>14. ASSUME NEW a \in Account, ReadConfig(a) PROVE Goal
  <2>1. poller' = [poller EXCEPT ![a] = [at |-> "list", known |-> FoldersOf(cfg[a])]]
    BY <1>14 DEF ReadConfig, FoldersOf
  <2>2. UNCHANGED <<cfg, disk, space, spaces, who, vanished, taken>>
    BY <1>14 DEF ReadConfig, stores, service, attempts, history
  <2> QED
    BY <1>p, <1>f, <2>1, <2>2 DEF Accounted, OnlyGoneTaken
<1>15. ASSUME NEW a \in Account, list_spaces(a) PROVE Goal
  <2> DEFINE missing == {f \in poller[a].known : space[f] \notin spaces[who[a]]}
  <2>1. \E q \in {Idle, [at |-> "remove", known |-> missing]} : poller' = [poller EXCEPT ![a] = q]
    BY <1>15, ZenonT(60) DEF list_spaces
  <2>2. UNCHANGED <<cfg, disk, space, spaces, who, vanished, taken>>
    BY <1>15 DEF list_spaces, stores, service, attempts, history
  <2>3. FoldersOf(cfg[a]) \cap missing \subseteq vanished
    BY <1>f DEF Accounted
  <2>4. \A f \in missing : space[f] # None
    BY <1>15 DEF list_spaces, Accounted
  <2> HIDE DEF missing
  <2>5. PICK q \in {Idle, [at |-> "remove", known |-> missing]} : poller' = [poller EXCEPT ![a] = q]
    BY <2>1
  <2>6. /\ \A f \in q.known : space[f] # None
        /\ q.at = "remove" => FoldersOf(cfg[a]) \cap q.known \subseteq vanished
    BY <2>3, <2>4, <2>5, SMT DEF Idle
  <2>7. \A b \in Account : poller'[b] = IF b = a THEN q ELSE poller[b]
    BY <1>p, <2>5
  <2> QED
    BY <2>2, <2>6, <2>7 DEF Accounted, OnlyGoneTaken
<1>16. ASSUME NEW a \in Account, RemoveGone(a) PROVE Goal
  <2>1. Fewer
    BY <1>16, <1>w, RemoveGoneEffect, SMT
  <2>2. taken' \subseteq vanished
    BY <1>16, RemoveGoneEffect, ZenonT(60) DEF RemoveGone, Accounted, OnlyGoneTaken
  <2>3. poller' = [poller EXCEPT ![a] = Idle] /\ UNCHANGED <<space, spaces, who, vanished>>
    BY <1>16 DEF RemoveGone, service, attempts
  <2> QED
    BY <1>p, <2>1, <2>2, <2>3, ZenonT(60) DEF Idle, Accounted, OnlyGoneTaken
<1>17. ASSUME NEW u \in User, NEW s \in Space, ServerChanges(u, s) PROVE Goal
  <2>1. /\ vanished \subseteq vanished'
        /\ UNCHANGED <<cfg, disk, space, who, poller, taken>>
    BY <1>17 DEF ServerChanges, stores, service, attempts
  <2>2. ASSUME NEW a \in Account, NEW f \in Folder, f \in FoldersOf(cfg[a]) \cup FoldersOf(disk[a])
        PROVE  space[f] \in spaces'[who[a]] \/ f \in vanished'
    <3>1. space[f] \in spaces[who[a]] \/ f \in vanished
      BY <2>2 DEF Accounted
    <3>2. CASE who[a] = u /\ space[f] = s
      BY <1>17, <1>t, <2>1, <2>2, <3>1, <3>2 DEF ServerChanges
    <3>3. CASE ~(who[a] = u /\ space[f] = s)
      BY <1>17, <1>t, <2>1, <3>1, <3>3, SMT DEF ServerChanges
    <3> QED
      BY <3>2, <3>3
  <2> QED
    BY <2>1, <2>2 DEF Accounted, OnlyGoneTaken
<1>18. ASSUME UNCHANGED vars PROVE Goal
  BY <1>0, <1>18 DEF vars, stores, service, attempts, history
<1> QED
  BY <1>1, <1>2, <1>3, <1>4, <1>5, <1>6, <1>7, <1>8, <1>9, <1>10, <1>11, <1>12, <1>13, <1>14, <1>15, <1>16,
     <1>17, <1>18 DEF Next, Commands, SignIn, Poll

\* The inductive part of the two promises.
FolderInv == ConfiguredIsServed /\ Accounted /\ OnlyGoneTaken

\* It holds in every state, next to the invariant of the accounts.
THEOREM FoldersAlways == Spec => []FolderInv
<1>1. Init => FolderInv
  <2> SUFFICES ASSUME Init PROVE FolderInv
    OBVIOUS
  <2>1. \A a \in Account : cfg[a] = None /\ disk[a] = None /\ poller[a] = None
    BY DEF Init, NoAccounts
  <2> QED
    BY <2>1 DEF Init, FolderInv, ConfiguredIsServed, Accounted, OnlyGoneTaken, FoldersOf
<1>2. Inv /\ FolderInv /\ [Next]_vars => FolderInv'
  BY ServedStep, GoneStep DEF Inv, FolderInv
<1> QED
  BY <1>1, <1>2, InvAlways, PTL DEF Spec

\* The engines and the scheduler know every folder of every account that could be
\* authenticated.
THEOREM Served == Spec => []ConfiguredIsServed
BY FoldersAlways, PTL DEF FolderInv

\* The space poller judges a folder by a list made after it was added, whatever
\* happens between its reading the config, the listing and the removal.
THEOREM GoneOnly == Spec => []OnlyGoneTaken
BY FoldersAlways, PTL DEF FolderInv

(****************************************************************************)
(* Where a sign-in may end up, for any address and any answer.              *)
(****************************************************************************)

\* The theorems on finite sets, for LeastIndex only.
INSTANCE FiniteSetTheorems

\* A set of natural numbers that is not empty has a least member.
LEMMA LeastIndex ==
  ASSUME NEW S \in SUBSET Nat, S # {}
  PROVE  \E i \in S : \A j \in S : i <= j
<1> DEFINE T == {0..i : i \in S}
           R == StrictSubsetOrdering(Nat)
<1>1. T \subseteq FiniteSubsetsOf(Nat) /\ T # {}
  <2>1. \A i \in Nat : 0..i \subseteq Nat /\ IsFiniteSet(0..i)
    BY FS_Interval, SMT
  <2> QED
    BY <2>1, ZenonT(60) DEF FiniteSubsetsOf
<1>2. PICK x \in T : \A y \in T : ~(<<y, x>> \in R)
  BY <1>1, FS_StrictSubsetOrderingWellFounded, WFMin, ZenonT(60)
<1>3. PICK i \in S : x = 0..i
  BY ZenonT(60)
<1>4. ASSUME NEW j \in S, j < i PROVE FALSE
  <2>1. 0..j \subseteq 0..i /\ 0..j # 0..i
    BY <1>4, SMT
  <2>2. <<0..j, x>> \in R
    BY <1>3, <2>1, SMT DEF StrictSubsetOrdering
  <2> QED
    BY <1>2, <2>2, ZenonT(60)
<1> QED
  BY <1>4, SMT

\* WebFinger takes the first usable link of the answer: what select_server_instance
\* returns is nothing if no link is usable, and otherwise the host of a usable link
\* before which there is none.
THEOREM FirstUsableWins ==
  ASSUME NEW base, NEW links \in Seq(Link)
  PROVE  LET s == select_server_instance(base, links)
         IN \/ s = <<>> /\ \A i \in 1..Len(links) : ~Usable(base, links[i])
            \/ \E i \in 1..Len(links) :
                 /\ s = links[i].host /\ Usable(base, links[i])
                 /\ \A j \in 1..(i - 1) : ~Usable(base, links[j])
<1> DEFINE good == {i \in 1..Len(links) : Usable(base, links[i])}
           first == CHOOSE i \in good : \A j \in good : i <= j
<1>1. CASE good = {}
  BY <1>1 DEF select_server_instance
<1>2. CASE good # {}
  <2>1. first \in good /\ \A j \in good : first <= j
    <3>1. good \in SUBSET Nat
      BY SMT
    <3>2. \E i \in good : \A j \in good : i <= j
      BY <1>2, <3>1, LeastIndex, ZenonT(60)
    <3> QED
      BY <3>2, ZenonT(60)
  <2>2. select_server_instance(base, links) = links[first].host
    BY <1>2 DEF select_server_instance
  <2>3. \A j \in 1..(first - 1) : ~Usable(base, links[j])
    BY <2>1, SMT
  <2> QED
    BY <2>1, <2>2, <2>3, ZenonT(60)
<1> QED
  BY <1>1, <1>2

\* Whatever the network answers, a sign-in that gets as far as the browser talks to
\* the host that was entered or to one within its registrable domain.
THEOREM StaysInDomain ==
  ASSUME NEW base, base # <<>>, NEW net,
         net.webfinger.kind = "jrd" => net.webfinger.links \in Seq(Link),
         set_up(base, net) # Failed
  PROVE  instance_host_is_trusted(base, set_up(base, net).host)
<1> DEFINE reply == net.webfinger
           host == resolve_server_instance(base, reply)
<1>1. host # <<>> /\ set_up(base, net).host = host
  BY DEF set_up, discover, with_endpoints
<1>2. instance_host_is_trusted(base, base)
  BY DEF instance_host_is_trusted
<1>3. CASE reply.kind = "jrd" /\ select_server_instance(base, reply.links) # <<>>
  <2>1. host = select_server_instance(base, reply.links)
    BY <1>3 DEF resolve_server_instance
  <2>2. instance_host_is_trusted(base, select_server_instance(base, reply.links))
    BY <1>3, FirstUsableWins, SMT DEF Usable
  <2> QED
    BY <1>1, <2>1, <2>2
<1>4. CASE ~(reply.kind = "jrd" /\ select_server_instance(base, reply.links) # <<>>)
  BY <1>1, <1>2, <1>4 DEF resolve_server_instance
<1> QED
  BY <1>3, <1>4

==============================================================================
