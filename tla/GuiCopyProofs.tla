---------------------------- MODULE GuiCopyProofs ----------------------------
(****************************************************************************)
(* The rest of the argument of module GuiProofs: the steps of the user and  *)
(* of the daemon keep the invariant, and the theorems. Once all messages    *)
(* are handled the GUI's copy is complete, and a folder shown as syncing    *)
(* is.                                                                      *)
(****************************************************************************)
EXTENDS GuiProofs

\* Leaves that name no prover are Zenon's.
USE Zenon

(****************************************************************************)
(* The GUI: the user.                                                       *)
(****************************************************************************)

\* The user's clicks keep the invariant, and so does a step that changes
\* nothing.
LEMMA UserInv ==
  ASSUME SetFacts, Inv, User \/ UNCHANGED vars
  PROVE  Inv'
\* What the pages offer: every link leads to a page, and only the settings of a
\* listed account offer to remove it or to add a space.
<1>PressFacts.
      ASSUME TypeOK, NEW p \in sidebar \cup content
      PROVE  /\ p[1] = "NavigateTo" => p[2] \in Page
             /\ p[1] \in {"RemoveAccount", "AddSpaceClicked"} => Has(accounts, view.account)
  <2> USE <1>PressFacts
  \* What the overview offers.
  <2>OverviewFacts.
        ASSUME NEW q \in sync_status_view
        PROVE  /\ q[1] \in {"NavigateTo", "ForceSyncFolder", "PauseFolder", "ResumeFolder"}
               /\ q[1] = "NavigateTo" => q[2] \in Page
    <3>1. accounts \in Seq(AccountEntry)
      BY DEF TypeOK
    <3>2. \A a \in Account \cup {None}, name \in View :
            Link(At(name, a))[1] = "NavigateTo" /\ Link(At(name, a))[2] \in Page
      BY AtPage DEF Link
    <3>3. CASE q \in empty_state_view
      <4>1. q = Link(At("AddAccount", None))
        BY <3>3 DEF empty_state_view
      <4> QED
        BY <3>2, <4>1 DEF View
    <3>4. ASSUME NEW i \in DOMAIN accounts, q \in account_section(accounts[i])
          PROVE  /\ q[1] \in {"NavigateTo", "ForceSyncFolder", "PauseFolder", "ResumeFolder"}
                 /\ q[1] = "NavigateTo" => q[2] \in Page
      <4>1. PICK a \in Account : a = accounts[i].id
        BY <3>1, EntryFacts
      <4>2. CASE q = Link(At("AccountSettings", a))
        BY <3>2, <4>2 DEF View
      <4>3. ASSUME NEW j \in DOMAIN accounts[i].folders, q \in folder_row(a, accounts[i].folders[j])
            PROVE  /\ q[1] \in {"NavigateTo", "ForceSyncFolder", "PauseFolder", "ResumeFolder"}
                   /\ q[1] = "NavigateTo" => q[2] \in Page
        <5>1. PICK row \in FolderRow : row = accounts[i].folders[j]
          BY <3>1, EntryFacts
        <5>2. row.status \in {"Idle", "Syncing", "Paused", "Error"}
          BY DEF FolderRow, Status
        <5>3. q \in folder_row(a, row)
          BY <4>3, <5>1
        <5>4. \/ q = <<"ForceSyncFolder", row.id>> \/ q = <<"PauseFolder", row.id>>
              \/ q = <<"ResumeFolder", row.id>> \/ q = Link(At("FolderErrors", a))
          BY <5>2, <5>3 DEF folder_row
        <5> QED
          BY <3>2, <5>4, SMT DEF View
      <4>4. \/ q = Link(At("AccountSettings", a))
            \/ \E j \in DOMAIN accounts[i].folders : q \in folder_row(a, accounts[i].folders[j])
        BY <3>4, <4>1 DEF account_section
      <4> QED
        BY <4>2, <4>3, <4>4
    <3>5. q \in empty_state_view \/ \E i \in DOMAIN accounts : q \in account_section(accounts[i])
      BY DEF sync_status_view
    <3> QED
      BY <3>3, <3>4, <3>5

  <2>1. view.at \in View
    BY PageFacts DEF TypeOK
  <2>2. \A a \in Account \cup {None}, name \in View :
          Link(At(name, a))[1] = "NavigateTo" /\ Link(At(name, a))[2] \in Page
    BY AtPage DEF Link
  <2>3. Back[1] = "NavigateTo" /\ Back[2] \in Page
    BY <2>2 DEF Back, SyncStatus, View
  <2>4. CASE p \in sidebar
    <3>1. p = Back \/ \E name \in {"AddAccount", "GeneralSettings", "About"} : p = Link(At(name, None))
      BY <2>4 DEF sidebar
    <3> QED
      BY <2>2, <2>3, <3>1 DEF View
  <2>5. CASE p \in content
    <3>1. CASE p \in sync_status_view
      BY <3>1, <2>OverviewFacts
    <3>2. CASE p = Back \/ p[1] \in {"AddAccountSubmit", "ToggleSpaceSelection", "PickSpacesNext",
                                     "PickRootFolderBrowse", "PickRootFolderSubmit"}
      BY <2>3, <3>2
    <3>3. CASE p \in account_settings_view(view.account) /\ find_account(view.account) # {}
      <4>1. Has(accounts, view.account)
        BY <3>3 DEF find_account, Has
      <4>2. p = Back \/ p = <<"RemoveAccount", view.account>> \/ p = <<"AddSpaceClicked", view.account>>
        BY <3>3 DEF account_settings_view
      <4> QED
        BY <2>3, <4>1, <4>2, SMT
    <3>4. CASE view.at \in {"SyncStatus", "FolderErrors"}
      <4>1. p \in sync_status_view \/ p \in folder_errors_view
        BY <2>5, <3>4 DEF content
      <4> QED
        BY <3>1, <3>2, <4>1 DEF folder_errors_view
    <3>5. CASE view.at = "AccountSettings"
      <4>1. p \in account_settings_view(view.account) /\ find_account(view.account) # {}
        BY <2>5, <3>5 DEF content
      <4> QED
        BY <3>3, <4>1
    <3>6. CASE view.at \in {"AddAccount", "AddAccountWaiting", "GeneralSettings", "About"}
      <4>1. p \in add_account_view \cup add_account_waiting_view \cup general_settings_view \cup about_view
        BY <2>5, <3>6 DEF content
      <4>2. p = Back \/ p = <<"AddAccountSubmit">>
        BY <4>1 DEF add_account_view, add_account_waiting_view, general_settings_view, about_view
      <4> QED
        BY <3>2, <4>2, SMT
    <3>7. CASE view.at = "PickSpaces"
      <4>1. p \in pick_spaces_view(view.offered, view.selected)
        BY <2>5, <3>7 DEF content
      <4>2. p = Back \/ p = <<"PickSpacesNext">> \/ \E s : p = <<"ToggleSpaceSelection", s>>
        BY <4>1 DEF pick_spaces_view
      <4> QED
        BY <3>2, <4>2, SMT
    <3>8. CASE view.at = "PickRootFolder"
      <4>1. p \in pick_root_folder_view(view.path)
        BY <2>5, <3>8 DEF content
      <4>2. p = Back \/ p = <<"PickRootFolderBrowse">> \/ p = <<"PickRootFolderSubmit">>
        BY <4>1 DEF pick_root_folder_view
      <4> QED
        BY <3>2, <4>2, SMT
    <3> QED
      BY <2>1, <3>4, <3>5, <3>6, <3>7, <3>8 DEF View
  <2> QED
    BY <2>4, <2>5

\* A press alone leaves the daemon, the connection and what is on it as they are.
<1>PressedStep.
      ASSUME NEW p, Pressed(p)
      PROVE  /\ p \in sidebar \cup content
             /\ UNCHANGED <<config, jobs, tasks, link, queue, wire, inbox, lagged, dropped, unanswered>>
             /\ inbox' = inbox
  BY <1>PressedStep DEF Pressed

\* RemoveClicked keeps the invariant: the account is off the list at once, and
\* leaves the daemon when the command is handled.
<1>RemoveClickedInv.
      ASSUME RemoveClicked
      PROVE  Inv'
  <2> USE <1>RemoveClickedInv
  \* RemoveClicked: the account's entries leave the list.
  <2>EntriesTaken.
        ASSUME accounts \in Seq(AccountEntry), NEW a,
               NEW list2 \in Retained(accounts, DOMAIN accounts \ find_account(a)),
               NEW own, NEW us, NEW cred, Fits(accounts, own, us, cred)
        PROVE  /\ list2 \in Seq(AccountEntry) /\ Fits(list2, own, us, cred) /\ Loses(accounts, list2, a)
               /\ \A g : Shows(list2, g) => Shows(accounts, g)
    <3> USE <2>EntriesTaken
    <3> DEFINE keep == DOMAIN accounts \ find_account(a)
    <3>1. \A i \in DOMAIN accounts : i \in keep <=> accounts[i].id # a
      BY DEF find_account
    <3>2. keep \subseteq DOMAIN accounts
      OBVIOUS
    <3>3. list2 \in Retained(accounts, keep)
      OBVIOUS
    <3> HIDE DEF keep
    <3>4. /\ list2 \in Seq(AccountEntry)
          /\ \E h \in [DOMAIN list2 -> keep] : Keeps(accounts, list2, keep, h)
      BY <3>2, <3>3, RetainedFacts, ZenonT(60)
    <3>5. PICK h \in [DOMAIN list2 -> keep] :
            /\ \A i \in DOMAIN list2 : list2[i] = accounts[h[i]]
            /\ \A i, j \in DOMAIN list2 : i < j => h[i] < h[j]
            /\ \A k \in keep : \E i \in DOMAIN list2 : h[i] = k
      BY <3>4 DEF Keeps
    <3>6. \A i \in DOMAIN list2 : h[i] \in DOMAIN accounts /\ accounts[h[i]].id # a
      BY <3>1, <3>2, <3>5
    <3>7. \A i \in DOMAIN accounts : accounts[i].id # a => \E m \in DOMAIN list2 : list2[m] = accounts[i]
      BY <3>1, <3>5, SMT
    <3>8. Loses(accounts, list2, a)
      <4>1. \A b \in Account : Has(list2, b) <=> Has(accounts, b) /\ b # a
        BY <3>5, <3>6, <3>7, SMT DEF Has
      <4>2. \A b \in Account, g \in Folder, t \in Space :
              HasRow(list2, b, g, t) <=> HasRow(accounts, b, g, t) /\ b # a
        BY <3>5, <3>6, <3>7, SMT DEF HasRow
      <4> QED
        BY <4>1, <4>2 DEF Loses
    <3>9. \A g : Shows(list2, g) => Shows(accounts, g)
      BY <3>5, <3>6, SMT DEF Shows
    <3>10. DOMAIN accounts \subseteq Nat /\ DOMAIN list2 \subseteq Nat
      BY <3>4, EntryFacts
    <3>11. FirstHasRows(list2)
      <4>1. ASSUME NEW i \in DOMAIN list2, NEW j \in DOMAIN list2, j < i, list2[j].id = list2[i].id
            PROVE  list2[i].folders = <<>>
        <5>1. h[j] < h[i] /\ accounts[h[j]].id = accounts[h[i]].id
          BY <3>5, <4>1
        <5>2. accounts[h[i]].folders = <<>>
          BY <3>6, <5>1 DEF Fits, FirstHasRows
        <5> QED
          BY <3>5, <5>2
      <4> QED
        BY <4>1 DEF FirstHasRows
    <3>12. FirstSyncs(list2)
      <4>1. ASSUME NEW i \in DOMAIN list2, NEW m \in DOMAIN list2,
                   NEW j \in DOMAIN list2[i].folders, NEW k \in DOMAIN list2[m].folders,
                   list2[i].folders[j].status = "Syncing",
                   list2[i].folders[j].id = list2[m].folders[k].id
            PROVE  i < m \/ (i = m /\ j <= k)
        <5>1. h[i] < h[m] \/ (h[i] = h[m] /\ j <= k)
          BY <3>5, <3>6, <4>1, SMT DEF Fits, FirstSyncs
        <5>2. m < i => h[m] < h[i]
          BY <3>5
        <5>3. i < m => h[i] < h[m]
          BY <3>5
        <5>4. i \in Nat /\ m \in Nat /\ h[i] \in Nat /\ h[m] \in Nat
          BY <3>6, <3>10
        <5> QED
          BY <5>1, <5>2, <5>3, <5>4, SMT
      <4> QED
        BY <4>1 DEF FirstSyncs
    <3>13. Fits(list2, own, us, cred)
      BY <3>5, <3>6, <3>11, <3>12, SMT DEF Fits
    <3> QED
      BY <3>4, <3>8, <3>9, <3>13

  \* The GUI removes an account that no event brings back.
  <2>MirrorLeave.
        ASSUME NEW list, NEW list2, NEW r, NEW conf, NEW fold, NEW leave, NEW a \in Account,
               Mirrors(list, r, conf, fold, leave), Loses(list, list2, a),
               \A i \in DOMAIN r : ~Joins(r[i], a)
        PROVE  Mirrors(list2, r, conf, fold, leave \cup {a})
    <3> USE <2>MirrorLeave
    <3>1. AccountsMirror(list2, r, conf, leave \cup {a})
      BY DEF Mirrors, AccountsMirror, Loses
    <3>2. FoldersMirror(list2, r, fold, leave \cup {a})
      BY DEF Mirrors, FoldersMirror, Loses
    <3> QED
      BY <3>1, <3>2 DEF Mirrors

  \* Without something on its way that revives an account, no snapshot on the wire
  \* lists it and nothing behind one brings it back.
  <2>NotRevived.
        ASSUME NEW w \in Seq(DaemonEvent), NEW q \in Seq(DaemonEvent), NEW a,
               ~Revives(q \o w, a)
        PROVE  /\ \A i \in DOMAIN w : ~Joins(w[i], a)
               /\ \A i \in DOMAIN q : ~Joins(q[i], a)
               /\ \A i \in DOMAIN w : w[i].ev = "AccountSnapshot" => ~Has(w[i].accounts, a)
    <3> USE <2>NotRevived
    <3>1. Len(w) \in Nat /\ DOMAIN w = 1..Len(w) /\ Len(q) \in Nat /\ DOMAIN q = 1..Len(q)
      BY SMT
    <3>2. PICK s : s = q \o w
      OBVIOUS
    <3>3. /\ q \o w \in Seq(DaemonEvent) /\ Len(q \o w) = Len(q) + Len(w)
          /\ \A i \in 1..(Len(q) + Len(w)) : (q \o w)[i] = IF i <= Len(q) THEN q[i] ELSE w[i - Len(q)]
      BY SMT
    <3>4. /\ s \in Seq(DaemonEvent) /\ Len(s) = Len(q) + Len(w)
          /\ \A i \in 1..(Len(q) + Len(w)) : s[i] = IF i <= Len(q) THEN q[i] ELSE w[i - Len(q)]
      BY <3>2, <3>3
    <3>5. DOMAIN s = 1..(Len(q) + Len(w))
      BY <3>4, SMT
    <3>6. ASSUME NEW i \in DOMAIN q PROVE i \in DOMAIN s /\ s[i] = q[i]
      BY <3>1, <3>4, <3>5, SMT
    <3>7. ASSUME NEW i \in DOMAIN w PROVE Len(q) + i \in DOMAIN s /\ s[Len(q) + i] = w[i]
      <4>1. Len(q) + i \in 1..(Len(q) + Len(w)) /\ ~(Len(q) + i <= Len(q)) /\ Len(q) + i - Len(q) = i
        BY <3>1, SMT
      <4> QED
        BY <3>4, <3>5, <4>1, SMT
    <3>8. /\ \A i \in DOMAIN s : ~Joins(s[i], a)
          /\ \A i \in DOMAIN s : s[i].ev = "AccountSnapshot" => ~Has(s[i].accounts, a)
      BY <3>2 DEF Revives, Joins, Has
    <3> QED
      BY <3>6, <3>7, <3>8

  \* Nor does anything of the rest.
  <2>RestNotRevived.
        ASSUME NEW w \in Seq(DaemonEvent), NEW q \in Seq(DaemonEvent), NEW k \in 0..Len(w), NEW a,
               \A i \in DOMAIN w : ~Joins(w[i], a), \A i \in DOMAIN q : ~Joins(q[i], a)
        PROVE  \A i \in DOMAIN Rest(w, q, k) : ~Joins(Rest(w, q, k)[i], a)
    <3> USE <2>RestNotRevived
    <3> DEFINE r == Rest(w, q, k)
               d == Len(w) - k
    <3>1. Len(w) \in Nat /\ DOMAIN w = 1..Len(w) /\ Len(q) \in Nat /\ DOMAIN q = 1..Len(q)
      BY SMT
    <3>2. k \in Nat /\ d \in Nat /\ Len(w) = k + d
      BY <3>1, SMT
    <3> HIDE DEF d
    <3>3. r \in Seq(DaemonEvent) /\ IsRest(r, w, q, k, d)
      BY <3>2, RestFacts
    <3> HIDE DEF r
    <3>4. DOMAIN r = 1..(d + Len(q))
      BY <3>3, SMT DEF IsRest
    <3>5. ASSUME NEW i \in DOMAIN r PROVE ~Joins(r[i], a)
      <4>1. CASE i <= d
        <5>1. i \in 1..d /\ k + i \in DOMAIN w
          BY <3>1, <3>2, <3>4, <4>1, SMT
        <5>2. r[i] = w[k + i]
          BY <3>3, <5>1 DEF IsRest
        <5> QED
          BY <5>1, <5>2
      <4>2. CASE ~(i <= d)
        <5>1. i - d \in DOMAIN q /\ d + (i - d) = i
          BY <3>1, <3>2, <3>4, <4>2, SMT
        <5>2. r[d + (i - d)] = q[i - d]
          BY <3>1, <3>3, <5>1 DEF IsRest
        <5> QED
          BY <5>1, <5>2
      <4> QED
        BY <4>1, <4>2
    <3> QED
      BY <3>5 DEF r

  <2>1. TypeOK /\ Roles /\ QueueInv /\ CopyInv /\ Leaving \subseteq credentials
    BY InvTypes DEF Inv
  <2>2. /\ accounts \in Seq(AccountEntry) /\ wire \in Seq(DaemonEvent) /\ queue \in Seq(DaemonEvent)
        /\ raced \in BOOLEAN
    BY InvTypes DEF TypeOK
  <2>3. /\ UNCHANGED <<config, jobs, tasks, link, queue, wire, inbox, lagged, dropped, unanswered>>
        /\ inbox' = inbox
    BY <1>PressedStep DEF RemoveClicked
  <2>4. /\ configured' = configured /\ folder' = folder /\ used' = used /\ credentials' = credentials
        /\ sched' = sched /\ running' = running /\ announcing' = announcing
        /\ signing' = signing /\ listing' = listing
        /\ inbox' = inbox /\ queue' = queue /\ wire' = wire /\ lagged' = lagged
        /\ dropped' = dropped /\ unanswered' = unanswered /\ link' = link
    BY <2>3 DEF config, jobs, tasks
  <2>5. PICK a : a = view.account
    OBVIOUS
  <2>6. Has(accounts, a)
    <3>1. PICK p : p = <<"RemoveAccount", view.account>>
      OBVIOUS
    <3>2. p \in sidebar \cup content /\ p[1] = "RemoveAccount"
      BY <3>1 DEF RemoveClicked, Pressed
    <3> QED
      BY <2>1, <2>5, <3>2, <1>PressFacts
  <2>7. a \in Account
    BY <2>2, <2>6, EntryFacts DEF Has
  <2>8. PICK own \in [Folder -> Account \cup {None}] : Agreed(own)
    BY DEF Inv, Owned
  <2>9. a \in credentials /\ Heard(a)
    BY <2>6, <2>8, HeardSigned DEF Heard
  <2>10. PICK new \in Retained(accounts, DOMAIN accounts \ find_account(a)) : new = accounts'
    BY <2>5 DEF RemoveClicked, find_account
  <2>11. Fits(accounts, own, used, credentials)
    BY <2>8 DEF Agreed
  <2>12. /\ new \in Seq(AccountEntry) /\ Fits(new, own, used, credentials) /\ Loses(accounts, new, a)
         /\ \A g : Shows(new, g) => Shows(accounts, g)
    BY <2>2, <2>10, <2>11, <2>EntriesTaken, ZenonT(60)
  <2>13. PICK c : c = Command("RemoveAccount", a)
    OBVIOUS
  <2>14. c \in DaemonCommand /\ c.cmd = "RemoveAccount" /\ c.account = a
    BY <2>7, <2>13 DEF DaemonCommand, Command
  <2>15. PICK sent \in BOOLEAN :
           /\ send(c, sent)
           /\ raced' = (raced \/ ~sent \/ link # "streaming" \/ Revives(queue \o wire, a))
    BY <2>5, <2>13 DEF RemoveClicked, send
  <2>16. /\ cmds' \in Seq(DaemonCommand) /\ Len(cmds') <= CmdCap /\ lost' \in BOOLEAN
         /\ Leaving \subseteq Leaving'
         /\ \A b \in Leaving' : b \in Leaving \/ (c.cmd = "RemoveAccount" /\ c.account = b)
         /\ sent /\ link # "down" /\ c.cmd = "RemoveAccount" /\ c.account \in Account =>
              c.account \in Leaving'
    BY <2>1, <2>4, <2>14, <2>15, SendFacts, ZenonT(60)
  <2>17. Leaving' \subseteq Leaving \cup {a} /\ (sent /\ link # "down" => Leaving' = Leaving \cup {a})
    BY <2>7, <2>14, <2>16
  <2>18. raced' \in BOOLEAN
    BY <2>15
  <2>19. view' \in Page
    BY AtPage DEF RemoveClicked, SyncStatus, View
  <2>20. Reals' = Reals
    BY <2>4 DEF Reals
  <2>21. TypeOK'
    BY <2>1, <2>4, <2>10, <2>12, <2>16, <2>18, <2>19 DEF TypeOK
  <2>22. Roles'
    BY <2>1, <2>4, <2>9, <2>17 DEF Roles
  <2>23. Owned'
    <3>1. Agreed(own)'
      BY <2>4, <2>8, <2>10, <2>12 DEF Agreed
    <3> QED
      BY <3>1 DEF Owned
  <2>24. QueueInv'
    <3>1. \A b \in Account : Heard(b)' => Heard(b)
      BY <2>4, <2>10, <2>12 DEF Heard, Loses
    <3>2. ASSUME link = "subscribed", NEW i \in DOMAIN queue, NEW b \in Account, Joins(queue[i], b)
          PROVE  b \in configured \ Leaving' /\ ~Heard(b)'
      <4>1. b \in configured \ Leaving /\ ~Heard(b)
        BY <2>1, <3>2 DEF QueueInv
      <4>2. b # a
        BY <2>9, <4>1
      <4> QED
        BY <2>17, <3>1, <4>1, <4>2
    <3> QED
      BY <2>1, <2>4, <2>20, <3>2 DEF QueueInv, Listening
  <2>25. ASSUME link \in {"snapped", "streaming"}, ~lagged, NEW k \in 0..Len(wire), Mark(wire, k)
         PROVE  LET r == Rest(wire, queue, k)
                    list == Base(accounts', wire, k)
                IN /\ Ends(r, Reals) /\ ShowsReal(list, r, Reals)
                   /\ ~raced' => Mirrors(list, r, configured, folder, Leaving')
    <3>1. InStep(Base(accounts, wire, k), Rest(wire, queue, k))
      BY <2>1, <2>25 DEF CopyInv
    <3>2. PICK r : r = Rest(wire, queue, k)
      OBVIOUS
    <3>3. PICK old : old = Base(accounts, wire, k)
      OBVIOUS
    <3>4. PICK list : list = Base(accounts', wire, k)
      OBVIOUS
    <3>5. Ends(r, Reals) /\ ShowsReal(old, r, Reals)
      BY <3>1, <3>2, <3>3 DEF InStep
    <3>6. (k = 0 => old = accounts /\ list = new) /\ (k # 0 => list = old)
      BY <2>10, <3>3, <3>4 DEF Base
    <3>7. ShowsReal(list, r, Reals)
      BY <2>12, <3>5, <3>6 DEF ShowsReal
    <3>8. ASSUME ~raced' PROVE Mirrors(list, r, configured, folder, Leaving')
      <4>1. ~raced /\ sent /\ link = "streaming" /\ ~Revives(queue \o wire, a)
        BY <2>15, <3>8
      <4>2. /\ \A i \in DOMAIN wire : ~Joins(wire[i], a)
            /\ \A i \in DOMAIN queue : ~Joins(queue[i], a)
            /\ \A i \in DOMAIN wire : wire[i].ev = "AccountSnapshot" => ~Has(wire[i].accounts, a)
        BY <2>2, <4>1, <2>NotRevived, ZenonT(60)
      <4>3. \A i \in DOMAIN Rest(wire, queue, k) : ~Joins(Rest(wire, queue, k)[i], a)
        BY <2>2, <4>2, <2>RestNotRevived, ZenonT(60)
      <4>4. \A i \in DOMAIN r : ~Joins(r[i], a)
        BY <3>2, <4>3
      <4>5. Mirrors(old, r, configured, folder, Leaving)
        BY <3>1, <3>2, <3>3, <4>1 DEF InStep
      <4>6. Loses(old, list, a)
        <5>1. CASE k = 0
          BY <2>12, <3>6, <5>1
        <5>2. CASE k # 0
          <6>1. k \in DOMAIN wire
            BY <2>2, <5>2, SMT
          <6>2. wire[k].ev = "AccountSnapshot" /\ old = wire[k].accounts
            BY <2>25, <3>3, <5>2 DEF Mark, Base
          <6>3. ~Has(old, a)
            BY <4>2, <6>1, <6>2
          <6>4. \A g, t : ~HasRow(old, a, g, t)
            BY <6>3 DEF Has, HasRow
          <6> QED
            BY <3>6, <5>2, <6>3, <6>4 DEF Loses
        <5> QED
          BY <5>1, <5>2
      <4>7. Mirrors(list, r, configured, folder, Leaving \cup {a})
        BY <2>7, <4>4, <4>5, <4>6, <2>MirrorLeave
      <4> QED
        BY <2>17, <4>1, <4>7
    <3> QED
      BY <3>2, <3>4, <3>5, <3>7, <3>8
  <2>26. CopyInv'
    BY <2>4, <2>20, <2>25 DEF CopyInv, InStep
  <2> QED
    BY <2>21, <2>22, <2>23, <2>24, <2>26 DEF Inv

\* The user does something that changes no account and no folder of the list.
<1>UserStep.
      ASSUME UNCHANGED <<config, jobs, tasks, link, queue, wire, inbox, lagged, dropped, unanswered, raced>>,
             view' \in Page, cmds' \in Seq(DaemonCommand), Len(cmds') <= CmdCap, lost' \in BOOLEAN,
             Leaving' = Leaving, accounts' \in Seq(AccountEntry),
             NEW own \in [Folder -> Account \cup {None}], Agreed(own),
             Fits(accounts', own, used, credentials), Same(accounts, accounts'),
             \A g \in Folder : Shows(accounts', g) => Shows(accounts, g)
      PROVE  Inv'
  <2> USE <1>UserStep
  \* A list of the same accounts and folders amounts to the same.
  <2>MirrorSame.
        ASSUME NEW list, NEW list2, NEW r, NEW conf, NEW fold, NEW leave,
               Mirrors(list, r, conf, fold, leave), Same(list, list2)
        PROVE  Mirrors(list2, r, conf, fold, leave)
    <3> USE <2>MirrorSame
    <3>1. AccountsMirror(list2, r, conf, leave)
      BY DEF Mirrors, AccountsMirror, Same
    <3>2. FoldersMirror(list2, r, fold, leave)
      BY DEF Mirrors, FoldersMirror, Same
    <3> QED
      BY <3>1, <3>2 DEF Mirrors

  <2>1. TypeOK /\ Roles /\ QueueInv /\ CopyInv
    BY DEF Inv
  <2>2. /\ configured' = configured /\ folder' = folder /\ used' = used /\ credentials' = credentials
        /\ sched' = sched /\ running' = running /\ announcing' = announcing
        /\ signing' = signing /\ listing' = listing
        /\ inbox' = inbox /\ queue' = queue /\ wire' = wire /\ lagged' = lagged /\ raced' = raced
        /\ dropped' = dropped /\ unanswered' = unanswered /\ link' = link
    BY DEF config, jobs, tasks
  <2>3. Reals' = Reals
    BY <2>2 DEF Reals
  <2>4. TypeOK'
    BY <2>1, <2>2 DEF TypeOK
  <2>5. Roles'
    BY <2>1, <2>2 DEF Roles
  <2>6. Owned'
    <3>1. Agreed(own)'
      BY <2>2 DEF Agreed
    <3> QED
      BY <3>1 DEF Owned
  <2>7. \A a \in Account : Heard(a)' => Heard(a)
    BY <2>2 DEF Heard, Same
  <2>8. QueueInv'
    BY <2>1, <2>2, <2>3, <2>7 DEF QueueInv, Listening
  <2>9. ASSUME link \in {"snapped", "streaming"}, ~lagged, NEW k \in 0..Len(wire), Mark(wire, k)
        PROVE  LET r == Rest(wire, queue, k)
                   list == Base(accounts', wire, k)
               IN /\ Ends(r, Reals) /\ ShowsReal(list, r, Reals)
                  /\ ~raced => Mirrors(list, r, configured, folder, Leaving)
    <3>1. InStep(Base(accounts, wire, k), Rest(wire, queue, k))
      BY <2>1, <2>9 DEF CopyInv
    <3>2. CASE k # 0
      <4>1. Base(accounts', wire, k) = Base(accounts, wire, k)
        BY <3>2 DEF Base
      <4> QED
        BY <3>1, <4>1 DEF InStep
    <3>3. CASE k = 0
      <4>1. Base(accounts', wire, k) = accounts' /\ Base(accounts, wire, k) = accounts
        BY <3>3 DEF Base
      <4>2. PICK r : r = Rest(wire, queue, k)
        OBVIOUS
      <4>3. Ends(r, Reals) /\ ShowsReal(accounts, r, Reals)
        BY <3>1, <4>1, <4>2 DEF InStep
      <4>4. ShowsReal(accounts', r, Reals)
        BY <4>3 DEF ShowsReal
      <4>5. ASSUME ~raced PROVE Mirrors(accounts', r, configured, folder, Leaving)
        <5>1. Mirrors(accounts, r, configured, folder, Leaving)
          BY <3>1, <4>1, <4>2, <4>5 DEF InStep
        <5> QED
          BY <5>1, <2>MirrorSame
      <4> QED
        BY <4>1, <4>2, <4>3, <4>4, <4>5
    <3> QED
      BY <3>2, <3>3
  <2>10. CopyInv'
    BY <2>2, <2>3, <2>9, SMT DEF CopyInv, InStep
  <2> QED
    BY <2>4, <2>5, <2>6, <2>8, <2>10 DEF Inv

\* So for a step that leaves the list as it is.
<1>PageStep.
      ASSUME UNCHANGED <<config, jobs, tasks, link, queue, wire, inbox, lagged, dropped, unanswered, raced>>,
             view' \in Page, cmds' \in Seq(DaemonCommand), Len(cmds') <= CmdCap, lost' \in BOOLEAN,
             Leaving' = Leaving, accounts' = accounts
      PROVE  Inv'
  <2> USE <1>PageStep
  <2>1. PICK own \in [Folder -> Account \cup {None}] : Agreed(own)
    BY DEF Inv, Owned
  <2>2. accounts' \in Seq(AccountEntry) /\ Fits(accounts', own, used, credentials)
    BY <2>1 DEF Inv, TypeOK, Agreed
  <2>3. Same(accounts, accounts') /\ \A g \in Folder : Shows(accounts', g) => Shows(accounts, g)
    BY DEF Same
  <2> QED
    BY <2>1, <2>2, <2>3, <1>UserStep

\* A command that removes no account makes no account leave.
<1>OtherSent.
      ASSUME TypeOK, NEW c \in DaemonCommand, c.cmd # "RemoveAccount", NEW sent \in BOOLEAN,
             send(c, sent), inbox' = inbox
      PROVE  /\ cmds' \in Seq(DaemonCommand) /\ Len(cmds') <= CmdCap /\ lost' \in BOOLEAN
             /\ Leaving' = Leaving
  BY <1>OtherSent, SendFacts, ZenonT(60)

\* No command is sent.
<1>NoneSent.
      ASSUME TypeOK, cmds' = cmds, lost' = lost, inbox' = inbox
      PROVE  /\ cmds' \in Seq(DaemonCommand) /\ Len(cmds') <= CmdCap /\ lost' \in BOOLEAN
             /\ Leaving' = Leaving
  <2> USE <1>NoneSent
  <2>1. Leaving' = Leaving
    BY DEF Leaving
  <2>2. lost \in BOOLEAN
    BY DEF TypeOK
  <2> QED
    BY <2>1, <2>2 DEF TypeOK

\* NavigateTo keeps the invariant.
<1>NavigateInv.
      ASSUME NEW p \in sidebar \cup content, p[1] = "NavigateTo", NavigateTo(p[2])
      PROVE  Inv'
  <2> USE <1>NavigateInv
  <2>1. TypeOK
    BY DEF Inv
  <2>2. view' \in Page
    BY <2>1, <1>PressFacts DEF NavigateTo
  <2>3. /\ UNCHANGED <<config, jobs, tasks, link, queue, wire, inbox, lagged, dropped, unanswered>>
        /\ inbox' = inbox
    BY <1>PressedStep DEF NavigateTo
  <2>4. cmds' = cmds /\ lost' = lost /\ raced' = raced /\ accounts' = accounts
    BY DEF NavigateTo
  <2>5. /\ cmds' \in Seq(DaemonCommand) /\ Len(cmds') <= CmdCap /\ lost' \in BOOLEAN
        /\ Leaving' = Leaving
    BY <2>1, <2>3, <2>4, <1>NoneSent
  <2> QED
    BY <2>2, <2>3, <2>4, <2>5, <1>PageStep

\* AddAccountSubmit keeps the invariant.
<1>AddAccountSubmitInv.
      Inv /\ AddAccountSubmit => Inv'
  <2> SUFFICES ASSUME Inv, AddAccountSubmit PROVE Inv'
    OBVIOUS
  <2>1. TypeOK /\ view \in Page
    BY DEF Inv, TypeOK
  <2>2. [view EXCEPT !.error = TRUE] \in Page /\ At("AddAccountWaiting", None) \in Page
    BY <2>1, PageFacts, AtPage DEF View
  <2>3. /\ UNCHANGED <<config, jobs, tasks, link, queue, wire, inbox, lagged, dropped, unanswered>>
        /\ inbox' = inbox
    BY <1>PressedStep DEF AddAccountSubmit
  <2>4. raced' = raced /\ accounts' = accounts
    BY DEF AddAccountSubmit
  <2>5. CASE view' = [view EXCEPT !.error = TRUE] /\ UNCHANGED <<cmds, lost>>
    <3>1. /\ cmds' \in Seq(DaemonCommand) /\ Len(cmds') <= CmdCap /\ lost' \in BOOLEAN
          /\ Leaving' = Leaving
      BY <2>1, <2>3, <2>5, <1>NoneSent
    <3> QED
      BY <2>2, <2>3, <2>4, <2>5, <3>1, <1>PageStep
  <2>6. ASSUME NEW sent \in BOOLEAN, send([cmd |-> "AddAccount"], sent),
               view' = IF sent THEN At("AddAccountWaiting", None) ELSE [view EXCEPT !.error = TRUE]
        PROVE  Inv'
    <3>1. [cmd |-> "AddAccount"] \in DaemonCommand /\ [cmd |-> "AddAccount"].cmd # "RemoveAccount"
      BY DEF DaemonCommand
    <3>2. /\ cmds' \in Seq(DaemonCommand) /\ Len(cmds') <= CmdCap /\ lost' \in BOOLEAN
          /\ Leaving' = Leaving
      BY <2>1, <2>3, <2>6, <3>1, <1>OtherSent
    <3>3. view' \in Page
      BY <2>2, <2>6
    <3> QED
      BY <2>3, <2>4, <3>2, <3>3, <1>PageStep
  <2> QED
    BY <2>5, <2>6 DEF AddAccountSubmit

\* The choice of spaces and the choice of a directory keep the invariant.
<1>PicksInv.
      Inv /\ (PickRootFolderPicked \/ \E s \in Space : ToggleSpaceSelection(s)) => Inv'
  <2> SUFFICES ASSUME Inv, PickRootFolderPicked \/ \E s \in Space : ToggleSpaceSelection(s)
               PROVE  Inv'
    OBVIOUS
  <2>1. TypeOK /\ view \in Page
    BY DEF Inv, TypeOK
  <2>2. /\ UNCHANGED <<config, jobs, tasks, link, queue, wire, inbox, lagged, dropped, unanswered>>
        /\ inbox' = inbox
    BY <1>PressedStep DEF PickRootFolderPicked, ToggleSpaceSelection
  <2>3. cmds' = cmds /\ lost' = lost /\ raced' = raced /\ accounts' = accounts
    BY DEF PickRootFolderPicked, ToggleSpaceSelection, NoCommand
  <2>4. view' \in Page
    <3>1. CASE PickRootFolderPicked
      BY <2>1, <3>1, PageFacts DEF PickRootFolderPicked
    <3>2. ASSUME NEW s \in Space, ToggleSpaceSelection(s) PROVE view' \in Page
      <4>1. PICK S \in SUBSET Space : view' = [view EXCEPT !.selected = S]
        <5>1. view.selected \in SUBSET Space
          BY <2>1, PageFacts
        <5>2. view' = [view EXCEPT !.selected = IF s \in view.selected THEN view.selected \ {s}
                                                ELSE view.selected \cup {s}]
          BY <3>2 DEF ToggleSpaceSelection
        <5> QED
          BY <3>2, <5>1, <5>2
      <4> QED
        BY <2>1, <4>1, PageFacts
    <3> QED
      BY <3>1, <3>2
  <2>5. /\ cmds' \in Seq(DaemonCommand) /\ Len(cmds') <= CmdCap /\ lost' \in BOOLEAN
        /\ Leaving' = Leaving
    BY <2>1, <2>2, <2>3, <1>NoneSent
  <2> QED
    BY <2>2, <2>3, <2>4, <2>5, <1>PageStep

\* PickSpacesNext keeps the invariant.
<1>PickSpacesNextInv.
      Inv /\ PickSpacesNext => Inv'
  <2> SUFFICES ASSUME Inv, PickSpacesNext PROVE Inv'
    OBVIOUS
  <2>1. TypeOK /\ view \in Page
    BY DEF Inv, TypeOK
  <2>2. view.account \in Account \cup {None} /\ view.selected \in SUBSET Space
    BY <2>1, PageFacts
  <2>3. /\ UNCHANGED <<config, jobs, tasks, link, queue, wire, inbox, lagged, dropped, unanswered>>
        /\ inbox' = inbox
    BY <1>PressedStep DEF PickSpacesNext
  <2>4. raced' = raced /\ accounts' = accounts
    BY DEF PickSpacesNext
  <2>5. ASSUME NEW sent \in BOOLEAN, view' = At("AccountSettings", view.account),
               send([cmd |-> "AddFolders", account |-> view.account, spaces |-> view.selected], sent)
        PROVE  Inv'
    <3>1. PICK c : c = [cmd |-> "AddFolders", account |-> view.account, spaces |-> view.selected]
      OBVIOUS
    <3>2. c \in DaemonCommand /\ c.cmd # "RemoveAccount"
      BY <2>2, <3>1 DEF DaemonCommand
    <3>3. send(c, sent)
      BY <2>5, <3>1 DEF send
    <3>4. /\ cmds' \in Seq(DaemonCommand) /\ Len(cmds') <= CmdCap /\ lost' \in BOOLEAN
          /\ Leaving' = Leaving
      BY <2>1, <2>3, <3>2, <3>3, <1>OtherSent
    <3>5. view' \in Page
      BY <2>2, <2>5, AtPage DEF View
    <3> QED
      BY <2>3, <2>4, <3>4, <3>5, <1>PageStep
  <2>6. CASE /\ view' = [At("PickRootFolder", view.account) EXCEPT !.selected = view.selected]
             /\ UNCHANGED <<cmds, lost>>
    <3>1. At("PickRootFolder", view.account) \in Page
      BY <2>2, AtPage DEF View
    <3>2. view' \in Page
      BY <2>2, <2>6, <3>1, PageFacts
    <3>3. /\ cmds' \in Seq(DaemonCommand) /\ Len(cmds') <= CmdCap /\ lost' \in BOOLEAN
          /\ Leaving' = Leaving
      BY <2>1, <2>3, <2>6, <1>NoneSent
    <3> QED
      BY <2>3, <2>4, <3>2, <3>3, <1>PageStep
  <2> QED
    BY <2>5, <2>6 DEF PickSpacesNext

\* A request for an account's folders or spaces keeps the invariant.
<1>AsksInv.
      Inv /\ (PickRootFolderSubmit \/ AddSpaceClicked) => Inv'
  <2> SUFFICES ASSUME Inv, PickRootFolderSubmit \/ AddSpaceClicked PROVE Inv'
    OBVIOUS
  <2>1. TypeOK /\ view \in Page /\ accounts \in Seq(AccountEntry)
    BY DEF Inv, TypeOK
  <2>2. view.account \in Account \cup {None} /\ view.selected \in SUBSET Space
    BY <2>1, PageFacts
  <2>3. /\ UNCHANGED <<config, jobs, tasks, link, queue, wire, inbox, lagged, dropped, unanswered>>
        /\ inbox' = inbox
    BY <1>PressedStep DEF PickRootFolderSubmit, AddSpaceClicked
  <2>4. raced' = raced /\ accounts' = accounts /\ view' \in Page
    BY <2>1 DEF PickRootFolderSubmit, AddSpaceClicked
  <2>5. ASSUME NEW c \in DaemonCommand, c.cmd # "RemoveAccount", NEW sent \in BOOLEAN, send(c, sent)
        PROVE  Inv'
    <3>1. /\ cmds' \in Seq(DaemonCommand) /\ Len(cmds') <= CmdCap /\ lost' \in BOOLEAN
          /\ Leaving' = Leaving
      BY <2>1, <2>3, <2>5, <1>OtherSent
    <3> QED
      BY <2>3, <2>4, <3>1, <1>PageStep
  <2>6. CASE PickRootFolderSubmit
    <3>1. PICK c : c = [cmd |-> "AddFolders", account |-> view.account, spaces |-> view.selected]
      OBVIOUS
    <3>2. c \in DaemonCommand /\ c.cmd # "RemoveAccount"
      BY <2>2, <3>1 DEF DaemonCommand
    <3>3. PICK sent \in BOOLEAN : send(c, sent)
      BY <2>6, <3>1 DEF PickRootFolderSubmit, send
    <3> QED
      BY <2>5, <3>2, <3>3
  <2>7. CASE AddSpaceClicked
    <3>1. PICK p : p = <<"AddSpaceClicked", view.account>>
      OBVIOUS
    <3>2. p \in sidebar \cup content /\ p[1] = "AddSpaceClicked"
      BY <2>7, <3>1 DEF AddSpaceClicked, Pressed
    <3>3. Has(accounts, view.account)
      BY <2>1, <3>2, <1>PressFacts
    <3>4. view.account \in Account
      BY <2>1, <3>3, EntryFacts DEF Has
    <3>5. PICK c : c = Command("ListSpaces", view.account)
      OBVIOUS
    <3>6. c \in DaemonCommand /\ c.cmd # "RemoveAccount"
      BY <3>4, <3>5 DEF DaemonCommand, Command
    <3>7. PICK sent \in BOOLEAN : send(c, sent)
      BY <2>7, <3>5 DEF AddSpaceClicked, send
    <3> QED
      BY <2>5, <3>6, <3>7, SMT
  <2> QED
    BY <2>6, <2>7

\* ForceSyncFolder, PauseClicked and ResumeClicked keep the invariant: what is
\* shown at once is never "Syncing".
<1>SendAndShowInv.
      ASSUME NEW f \in Folder, ForceSyncFolder(f) \/ PauseClicked(f) \/ ResumeClicked(f)
      PROVE  Inv'
  <2> USE <1>SendAndShowInv
  <2>1. TypeOK /\ view \in Page /\ accounts \in Seq(AccountEntry)
    BY DEF Inv, TypeOK
  <2>2. PICK p \in {"ForceSyncFolder", "PauseFolder", "ResumeFolder"},
             name \in {"TriggerSync", "PauseFolder", "ResumeFolder"}, after \in {None, "Paused", "Idle"} :
          SendAndShow(p, name, f, after)
    BY ZenonT(60) DEF ForceSyncFolder, PauseClicked, ResumeClicked
  <2>3. /\ UNCHANGED <<config, jobs, tasks, link, queue, wire, inbox, lagged, dropped, unanswered>>
        /\ inbox' = inbox
    BY <2>2, <1>PressedStep DEF SendAndShow
  <2>4. raced' = raced /\ view' \in Page
    BY <2>1, <2>2 DEF SendAndShow
  <2>5. PICK c : c = FolderCommand(name, f)
    OBVIOUS
  <2>6. c \in DaemonCommand /\ c.cmd # "RemoveAccount"
    BY <2>5 DEF DaemonCommand, FolderCommand
  <2>7. PICK sent \in BOOLEAN : send(c, sent)
    BY <2>2, <2>5 DEF SendAndShow, send
  <2>8. /\ cmds' \in Seq(DaemonCommand) /\ Len(cmds') <= CmdCap /\ lost' \in BOOLEAN
        /\ Leaving' = Leaving
    BY <2>1, <2>3, <2>6, <2>7, <1>OtherSent
  <2>9. CASE after = None
    <3>1. accounts' = accounts
      BY <2>2, <2>9 DEF SendAndShow
    <3> QED
      BY <2>3, <2>4, <2>8, <3>1, <1>PageStep
  <2>10. CASE after # None
    <3>1. after \in Status /\ after # "Syncing"
      BY <2>10 DEF Status
    <3>2. PICK own \in [Folder -> Account \cup {None}] : Agreed(own)
      BY DEF Inv, Owned
    <3>3. Fits(accounts, own, used, credentials)
      BY <3>2 DEF Agreed
    <3>4. accounts' = set_folder_status(f, after)
      BY <2>2, <2>10 DEF SendAndShow
    <3>5. /\ set_folder_status(f, after) \in Seq(AccountEntry) /\ Same(accounts, set_folder_status(f, after))
          /\ Fits(set_folder_status(f, after), own, used, credentials)
          /\ \A g \in Folder : Shows(set_folder_status(f, after), g) => Shows(accounts, g) \/ (g = f /\ after = "Syncing")
      BY <2>1, <3>1, <3>3, StatusEffect, ZenonT(60)
    <3>6. /\ accounts' \in Seq(AccountEntry) /\ Same(accounts, accounts')
          /\ Fits(accounts', own, used, credentials)
          /\ \A g \in Folder : Shows(accounts', g) => Shows(accounts, g)
      BY <3>1, <3>4, <3>5
    <3> QED
      BY <2>3, <2>4, <2>8, <3>2, <3>6, <1>UserStep
  <2> QED
    BY <2>9, <2>10

\* A step that changes nothing keeps the invariant.
<1>StutterInv.
      ASSUME UNCHANGED vars
      PROVE  Inv'
  <2> USE <1>StutterInv
  <2>1. /\ UNCHANGED <<config, jobs, tasks, link, queue, wire, inbox, lagged, dropped, unanswered, raced>>
        /\ view' = view /\ cmds' = cmds /\ lost' = lost /\ inbox' = inbox /\ accounts' = accounts
    BY DEF vars, history
  <2>2. TypeOK /\ view' \in Page
    BY <2>1 DEF Inv, TypeOK
  <2>3. /\ cmds' \in Seq(DaemonCommand) /\ Len(cmds') <= CmdCap /\ lost' \in BOOLEAN
        /\ Leaving' = Leaving
    BY <2>1, <2>2, <1>NoneSent
  <2> QED
    BY <2>1, <2>2, <2>3, <1>PageStep

<1>1. ASSUME NEW p \in sidebar \cup content, p[1] = "NavigateTo", NavigateTo(p[2])
      PROVE  Inv'
  BY <1>1, <1>NavigateInv
<1>2. ASSUME NEW f \in Folder, ForceSyncFolder(f) \/ PauseClicked(f) \/ ResumeClicked(f)
      PROVE  Inv'
  BY <1>2, <1>SendAndShowInv
<1>3. CASE AddAccountSubmit \/ PickSpacesNext
  BY <1>3, <1>AddAccountSubmitInv, <1>PickSpacesNextInv
<1>4. CASE PickRootFolderPicked \/ \E s \in Space : ToggleSpaceSelection(s)
  BY <1>4, <1>PicksInv
<1>5. CASE PickRootFolderSubmit \/ AddSpaceClicked
  BY <1>5, <1>AsksInv
<1>6. CASE RemoveClicked
  BY <1>6, <1>RemoveClickedInv
<1>7. CASE User
  BY <1>1, <1>2, <1>3, <1>4, <1>5, <1>6, <1>7 DEF User
<1> QED
  BY <1>7, <1>StutterInv

(****************************************************************************)
(* The daemon.                                                              *)
(****************************************************************************)

\* The daemon's steps keep the invariant: commands, ticks, sync runs, sign-ins,
\* and the spaces and folders that come and go.
LEMMA DaemonInv ==
  ASSUME SetFacts, Inv, DaemonStep
  PROVE  Inv'
\* The main loop takes the first command; other commands' removals stay on their way.
<1>HandleFacts.
      ASSUME TypeOK, NEW name, Handles(name), NEW rest \in Seq(DaemonCommand), Len(rest) <= 1,
             Leaves(rest), \A a : ~Removes(rest, a)
      PROVE  /\ Head(Pending) \in DaemonCommand /\ Head(Pending).cmd = name
             /\ inbox' \in Seq(DaemonCommand) /\ cmds' \in Seq(DaemonCommand) /\ Len(cmds') <= CmdCap
             /\ Leaving' \subseteq Leaving
             /\ \A a \in Leaving : a \in Leaving' \/ (name = "RemoveAccount" /\ a = Head(Pending).account)
             /\ name = "RemoveAccount" /\ Head(Pending).account \in Account => Head(Pending).account \in Leaving
  <2> USE <1>HandleFacts
  \* The first command and the others.
  <2>RemovesHead.
        ASSUME NEW q \in Seq(DaemonCommand), q # <<>>, NEW a
        PROVE  /\ Head(q) \in DaemonCommand /\ Tail(q) \in Seq(DaemonCommand) /\ Len(Tail(q)) = Len(q) - 1
               /\ Removes(q, a) <=>
                    (Head(q).cmd = "RemoveAccount" /\ Head(q).account = a) \/ Removes(Tail(q), a)
    <3> USE <2>RemovesHead
    <3>1. Head(q) \in DaemonCommand /\ Tail(q) \in Seq(DaemonCommand) /\ Len(Tail(q)) = Len(q) - 1
      BY SMT
    <3>2. q = <<Head(q)>> \o Tail(q)
      BY TailFacts
    <3>3. Removes(<<Head(q)>> \o Tail(q), a) <=> Removes(<<Head(q)>>, a) \/ Removes(Tail(q), a)
      BY <3>1, RemovesConcat, RemovesOne
    <3>4. Removes(<<Head(q)>>, a) <=> Head(q).cmd = "RemoveAccount" /\ Head(q).account = a
      BY <3>1, RemovesOne
    <3>5. Removes(q, a) <=> Removes(<<Head(q)>>, a) \/ Removes(Tail(q), a)
      BY <3>2, <3>3, ZenonT(60)
    <3> QED
      BY <3>1, <3>4, <3>5, ZenonT(60)

  <2> DEFINE c == Head(Pending)
  <2>1. inbox \in Seq(DaemonCommand) /\ cmds \in Seq(DaemonCommand) /\ Len(cmds) <= CmdCap
    BY DEF TypeOK
  <2>2. c.cmd = name /\ (inbox # <<>> \/ cmds # <<>>)
    BY DEF Handles
  <2>3. Len(rest) \in Nat /\ Len(cmds) \in Nat /\ CmdCap \in Nat
    BY <2>1, GuiAssumption, SMT
  <2>4. CASE inbox # <<>>
    <3>1. c = Head(inbox)
      BY <2>1, <2>4, SMTT(30) DEF Pending
    <3>2. inbox' = rest \o Tail(inbox) /\ cmds' = cmds
      BY <2>4 DEF Leaves
    <3>3. Head(inbox) \in DaemonCommand /\ Tail(inbox) \in Seq(DaemonCommand)
      BY <2>1, <2>4, <2>RemovesHead
    <3>4. inbox' \in Seq(DaemonCommand)
      BY <3>2, <3>3, RemovesConcat
    <3>5. \A a : Removes(inbox, a) <=> (c.cmd = "RemoveAccount" /\ c.account = a) \/ Removes(Tail(inbox), a)
      BY <2>1, <2>4, <3>1, <2>RemovesHead, ZenonT(60)
    <3>6. \A a : Removes(inbox', a) <=> Removes(Tail(inbox), a)
      BY <3>2, <3>3, RemovesConcat, ZenonT(60)
    <3> HIDE DEF c
    <3>7. Leaving' = {a \in Account : Removes(Tail(inbox), a) \/ Removes(cmds, a)}
      BY <3>2, <3>6 DEF Leaving
    <3>8. Leaving = {a \in Account : (c.cmd = "RemoveAccount" /\ c.account = a)
                                     \/ Removes(Tail(inbox), a) \/ Removes(cmds, a)}
      BY <3>5 DEF Leaving
    <3> QED
      BY <2>1, <2>2, <3>1, <3>2, <3>3, <3>4, <3>7, <3>8 DEF c
  <2>5. CASE inbox = <<>>
    <3>1. cmds # <<>>
      BY <2>2, <2>5
    <3>2. c = Head(cmds)
      BY <2>1, <2>5, SMT DEF Pending
    <3>3. cmds' = rest \o Tail(cmds) /\ inbox' = inbox
      BY <2>5 DEF Leaves
    <3>4. Head(cmds) \in DaemonCommand /\ Tail(cmds) \in Seq(DaemonCommand) /\ Len(Tail(cmds)) = Len(cmds) - 1
      BY <2>1, <3>1, <2>RemovesHead
    <3>5. cmds' \in Seq(DaemonCommand) /\ Len(cmds') = Len(rest) + Len(Tail(cmds))
      BY <3>3, <3>4, RemovesConcat, SMT
    <3>6. Len(cmds') <= CmdCap
      BY <2>1, <2>3, <3>4, <3>5, SMT
    <3>7. \A a : Removes(cmds, a) <=> (c.cmd = "RemoveAccount" /\ c.account = a) \/ Removes(Tail(cmds), a)
      BY <2>1, <3>1, <3>2, <2>RemovesHead, ZenonT(60)
    <3>8. \A a : Removes(cmds', a) <=> Removes(Tail(cmds), a)
      BY <3>3, <3>4, RemovesConcat, ZenonT(60)
    <3> HIDE DEF c
    <3>9. Leaving' = {a \in Account : Removes(inbox, a) \/ Removes(Tail(cmds), a)}
      BY <3>3, <3>8 DEF Leaving
    <3>10. Leaving = {a \in Account : (c.cmd = "RemoveAccount" /\ c.account = a)
                                     \/ Removes(inbox, a) \/ Removes(Tail(cmds), a)}
      BY <3>7 DEF Leaving
    <3> QED
      BY <2>1, <2>2, <3>2, <3>3, <3>4, <3>5, <3>6, <3>9, <3>10 DEF c
  <2> QED
    BY <2>4, <2>5

\* What is broadcast comes behind what is there.
<1>MoreSaid.
      ASSUME NEW T, NEW r \in Seq(T), NEW es \in Seq(T)
      PROVE  More(r, r \o es, Range(es))
  <2> DEFINE r2 == r \o es
  <2>1. /\ Len(r) \in Nat /\ DOMAIN r = 1..Len(r) /\ Len(es) \in Nat /\ DOMAIN es = 1..Len(es)
    BY SMT
  <2>2. r2 \in Seq(T) /\ Len(r2) = Len(r) + Len(es)
    BY <2>1, SMT
  <2>3. DOMAIN r2 = 1..(Len(r) + Len(es))
    BY <2>2, SMT
  <2>4. \A i \in 1..Len(r) : r2[i] = r[i]
    BY <2>1, SMT
  <2>5. \A i \in 1..Len(es) : r2[Len(r) + i] = es[i]
    BY <2>1, SMT
  <2> HIDE DEF r2
  <2>6. ASSUME NEW j \in DOMAIN r2 \ DOMAIN r
        PROVE  j > Len(r) /\ r2[j] \in Range(es)
    <3>1. j - Len(r) \in DOMAIN es /\ j = Len(r) + (j - Len(r)) /\ j > Len(r)
      BY <2>1, <2>3, <2>6, SMT
    <3>2. r2[j] = es[j - Len(r)]
      BY <2>1, <2>5, <3>1
    <3> QED
      BY <3>1, <3>2, ZenonT(60) DEF Range
  <2>7. ASSUME NEW e \in Range(es) PROVE \E j \in DOMAIN r2 \ DOMAIN r : r2[j] = e
    <3>1. PICK i \in DOMAIN es : e = es[i]
      BY <2>7, ZenonT(60) DEF Range
    <3>2. Len(r) + i \in DOMAIN r2 \ DOMAIN r /\ r2[Len(r) + i] = e
      BY <2>1, <2>3, <2>5, <3>1, SMT
    <3> QED
      BY <3>2, ZenonT(60)
  <2>8. DOMAIN r2 \subseteq Int /\ DOMAIN r \subseteq DOMAIN r2
    BY <2>1, <2>3, SMT
  <2>9. ASSUME NEW i \in DOMAIN r PROVE r2[i] = r[i] /\ \A j \in DOMAIN r2 \ DOMAIN r : i < j
    BY <2>1, <2>3, <2>4, <2>6, <2>8, SMT
  <2> QED
    BY <2>6, <2>7, <2>8, <2>9, ZenonT(60) DEF More, r2

\* Events that are not about folders change nothing about them.
<1>TrailsSay.
      ASSUME NEW r, NEW r2, NEW E, NEW conf, NEW fold, Trails(r, conf, fold), More(r, r2, E),
             \A e \in E : e.ev \notin {"AccountFolderAdded", "SpaceRemoved"}
      PROVE  Trails(r2, conf, fold)
  <2> USE <1>TrailsSay
  <2>1. \A i \in DOMAIN r2 : i \in DOMAIN r \/ r2[i] \in E
    BY DEF More
  <2>2. \A i \in DOMAIN r : i \in DOMAIN r2 /\ r2[i] = r[i]
    BY DEF More
  <2> QED
    BY <2>1, <2>2, SMT DEF Trails, Adds, Takes

\* Neutral events behind a list change nothing of what it amounts to.
<1>MirrorSay.
      ASSUME NEW list, NEW r, NEW r2, NEW E, NEW conf, NEW fold, NEW leave,
             Mirrors(list, r, conf, fold, leave), More(r, r2, E), Neutral(E)
      PROVE  Mirrors(list, r2, conf, fold, leave)
  <2> USE <1>MirrorSay
  <2>1. \A i \in DOMAIN r2 : i \in DOMAIN r \/ r2[i] \in E
    BY DEF More
  <2>2. \A i \in DOMAIN r : i \in DOMAIN r2 /\ r2[i] = r[i]
    BY DEF More
  <2>3. Trails(r2, conf, fold)
    BY <1>TrailsSay DEF Mirrors, Neutral
  <2>4. AccountsMirror(list, r2, conf, leave)
    BY <2>1, <2>2, SMTT(30), ZenonT(30) DEF Mirrors, AccountsMirror, Joins, Neutral
  <2>5. FoldersMirror(list, r2, fold, leave)
    BY <2>2, SMTT(30), ZenonT(30) DEF Mirrors, FoldersMirror
  <2> QED
    BY <2>3, <2>4, <2>5 DEF Mirrors

\* A sequence is a suffix of itself.
<1>SuffixSelf.
      ASSUME NEW T, NEW r \in Seq(T)
      PROVE  Suffix(r, r)
  <2>1. Len(r) \in Nat
    BY SMT
  <2>2. Len(r) = Len(r) + 0 /\ \A i \in 1..Len(r) : r[i] = r[i + 0]
    BY <2>1, SMT
  <2> QED
    BY <2>2 DEF Suffix

\* A broadcast: all is queued, or what fits and the reader lags.
<1>BroadcastHears.
      ASSUME TypeOK, NEW es \in Seq(DaemonEvent), broadcast(es)
      PROVE  /\ Hears(es) /\ queue' \in Seq(DaemonEvent) /\ Len(queue') <= BroadcastCap
             /\ lagged' \in BOOLEAN
  <2> USE <1>BroadcastHears
  <2> DEFINE q == queue \o es
             cap == BroadcastCap
  <2>1. queue \in Seq(DaemonEvent) /\ Len(queue) <= cap /\ lagged \in BOOLEAN /\ cap \in Nat
    BY GuiAssumption DEF TypeOK
  <2>2. q \in Seq(DaemonEvent)
    BY <2>1, SMT
  <2>3. Len(q) \in Nat
    BY <2>2, SMT
  <2>4. CASE ~Listening
    BY <2>1, <2>4 DEF broadcast, Hears
  <2>5. CASE Listening /\ Len(q) - cap <= 0
    <3>1. queue' = q /\ lagged' = lagged
      BY <2>5 DEF broadcast
    <3>2. Len(q) <= cap
      BY <2>1, <2>3, <2>5, SMT
    <3>3. Suffix(q, q)
      BY <2>2, <1>SuffixSelf
    <3> QED
      BY <2>1, <2>2, <2>5, <3>1, <3>2, <3>3 DEF Hears, Said
  <2>6. CASE Listening /\ ~(Len(q) - cap <= 0)
    <3> DEFINE d == Len(q) - cap
               t == SubSeq(q, d + 1, Len(q))
    <3>1. queue' = t /\ lagged' = TRUE
      BY <2>6 DEF broadcast
    <3> HIDE DEF q
    <3>2. d \in Nat /\ d + 1 \in Nat /\ d + 1 <= Len(q) + 1 /\ Len(q) = cap + d
      BY <2>1, <2>3, <2>6, SMT
    <3>3. \A i \in (d + 1)..Len(q) : q[i] \in DaemonEvent
      <4>1. \A i \in 1..Len(q) : q[i] \in DaemonEvent
        BY <2>2, SMT
      <4> QED
        BY <2>3, <3>2, <4>1, SMT
    <3>4. /\ t \in Seq(DaemonEvent)
          /\ Len(t) = IF d + 1 <= Len(q) THEN Len(q) - (d + 1) + 1 ELSE 0
          /\ \A i \in 1..(Len(q) - (d + 1) + 1) : t[i] = q[d + 1 + i - 1]
      BY <2>3, <3>2, <3>3, SMT
    <3> HIDE DEF t, d
    <3>5. Len(t) = cap
      BY <2>1, <2>3, <3>2, <3>4, SMT
    <3>6. ASSUME NEW i \in 1..Len(t) PROVE t[i] = q[i + d]
      <4>1. i \in 1..(Len(q) - (d + 1) + 1) /\ d + 1 + i - 1 = i + d
        BY <2>1, <3>2, <3>5, SMT
      <4> QED
        BY <3>4, <4>1
    <3>7. Len(q) = Len(t) + d
      BY <3>2, <3>5
    <3>8. Suffix(q, t)
      BY <3>2, <3>6, <3>7 DEF Suffix
    <3> QED
      BY <2>1, <2>6, <3>1, <3>4, <3>5, <3>8, SMT DEF Hears, Said, q
  <2> QED
    BY <2>4, <2>5, <2>6

\* No broadcast.
<1>SilenceHears.
      ASSUME TypeOK, queue' = queue, lagged' = lagged
      PROVE  /\ Hears(<<>>) /\ queue' \in Seq(DaemonEvent) /\ Len(queue') <= BroadcastCap
             /\ lagged' \in BOOLEAN
  <2> USE <1>SilenceHears
  <2>1. queue \in Seq(DaemonEvent) /\ Len(queue) <= BroadcastCap /\ lagged \in BOOLEAN
    BY DEF TypeOK
  <2>2. queue \o <<>> = queue
    BY <2>1, SMT
  <2>3. Suffix(queue, queue)
    BY <2>1, <1>SuffixSelf
  <2> QED
    BY <2>1, <2>2, <2>3 DEF Hears, Said

\* A step of the daemon that says es keeps the channel and the copy in step.
<1>SaidStep.
      ASSUME TypeOK, QueueInv, CopyInv, NEW own, Agreed(own),
             NEW es \in Seq(DaemonEvent), Hears(es),
             link' = link, wire' = wire, accounts' = accounts, raced' = raced,
             \A e \in Range(es) : e.ev # "AccountSnapshot",
             KeepsTrails(Range(es), configured, folder, configured', folder', own, used, credentials),
             KeepsMirror(Range(es), configured, folder, Leaving, configured', folder', Leaving',
                         own, used, credentials),
             KeepsPace(Range(es), Reals, Reals'),
             configured \ Leaving \subseteq configured' \ Leaving',
             \A e \in Range(es) : \A a \in Account : Joins(e, a) =>
               a \in configured' \ Leaving' /\ ~Heard(a)
      PROVE  QueueInv' /\ CopyInv'
  <2> USE <1>SaidStep
  \* A broadcast is put at the end of the rest.
  <2>RestSay.
        ASSUME NEW T, NEW w \in Seq(T), NEW q \in Seq(T), NEW ts \in Seq(T), NEW k \in 0..Len(w)
        PROVE  Rest(w, q \o ts, k) = Rest(w, q, k) \o ts
    <3>1. Len(w) \in Nat /\ k \in Nat /\ <<>> \in Seq(T)
      BY SMT
    <3>2. SubSeq(w, k + 1, Len(w)) \in Seq(T)
      <4>1. \A i \in (k + 1)..Len(w) : w[i] \in T
        BY <3>1, SMT
      <4> QED
        BY <3>1, <4>1, SMT
    <3> DEFINE t == SubSeq(w, k + 1, Len(w))
    <3> HIDE DEF t
    <3>3. t \in Seq(T)
      BY <3>2 DEF t
    <3>4. (t \o q) \o ts = t \o (q \o ts)
      BY <3>3, SMTT(30)
    <3>5. Rest(w, q, k) = t \o q /\ Rest(w, q \o ts, k) = t \o (q \o ts)
      BY DEF Rest, t
    <3> QED
      BY <3>4, <3>5

  \* A broadcast continues the events behind a position.
  <2>RestMore.
        ASSUME NEW T, NEW w \in Seq(T), NEW q \in Seq(T), NEW ts \in Seq(T), NEW k \in 0..Len(w),
               NEW q2, q2 = q \o ts
        PROVE  Rest(w, q2, k) \in Seq(T) /\ More(Rest(w, q, k), Rest(w, q2, k), Range(ts))
    <3> USE <2>RestMore
    <3> DEFINE r == Rest(w, q, k)
               d == Len(w) - k
    <3>1. Len(w) \in Nat
      BY SMT
    <3>2. k \in Nat /\ d \in Nat /\ Len(w) = k + d
      BY <3>1, SMT
    <3> HIDE DEF d
    <3>3. r \in Seq(T)
      BY <3>2, RestFacts
    <3>4. Rest(w, q \o ts, k) = r \o ts
      BY <2>RestSay, SMT
    <3>5. Rest(w, q2, k) = r \o ts
      BY <3>4
    <3> HIDE DEF r
    <3>6. r \o ts \in Seq(T) /\ More(r, r \o ts, Range(ts))
      BY <3>3, <1>MoreSaid, SMT
    <3> QED
      BY <3>5, <3>6 DEF r

  \* The events behind a position are as fine as those of wire and channel.
  <2>RestFine.
        ASSUME NEW w \in Seq(DaemonEvent), NEW q \in Seq(DaemonEvent), NEW k \in 0..Len(w),
               NEW owners, NEW us, NEW cred, Fine(w, owners, us, cred), Fine(q, owners, us, cred)
        PROVE  Rest(w, q, k) \in Seq(DaemonEvent) /\ Fine(Rest(w, q, k), owners, us, cred)
    <3> USE <2>RestFine
    <3> DEFINE r == Rest(w, q, k)
               d == Len(w) - k
    <3>1. /\ Len(w) \in Nat /\ DOMAIN w = 1..Len(w) /\ Len(q) \in Nat /\ DOMAIN q = 1..Len(q)
      BY SMT
    <3>2. k \in Nat /\ d \in Nat /\ Len(w) = k + d
      BY <3>1, SMT
    <3> HIDE DEF d
    <3>3. r \in Seq(DaemonEvent) /\ IsRest(r, w, q, k, d)
      BY <3>2, RestFacts
    <3> HIDE DEF r
    <3>4. DOMAIN r = 1..(d + Len(q))
      BY <3>3, SMT DEF IsRest
    <3>5. ASSUME NEW i \in DOMAIN r PROVE EventFits(r[i], owners, us, cred)
      <4>1. CASE i <= d
        <5>1. i \in 1..d /\ k + i \in DOMAIN w
          BY <3>1, <3>2, <3>4, <4>1, SMT
        <5>2. r[i] = w[k + i]
          BY <3>3, <5>1 DEF IsRest
        <5> QED
          BY <5>1, <5>2 DEF Fine
      <4>2. CASE ~(i <= d)
        <5>1. i - d \in DOMAIN q /\ d + (i - d) = i
          BY <3>1, <3>2, <3>4, <4>2, SMT
        <5>2. r[d + (i - d)] = q[i - d]
          BY <3>1, <3>3, <5>1 DEF IsRest
        <5> QED
          BY <5>1, <5>2 DEF Fine
      <4> QED
        BY <4>1, <4>2
    <3> QED
      BY <3>3, <3>5 DEF Fine, r

  \* New events that keep pace with the runs leave every start with its end.
  <2>EndsSay.
        ASSUME NEW r, NEW r2, NEW E, NEW real, NEW real2, Ends(r, real), More(r, r2, E),
               KeepsPace(E, real, real2)
        PROVE  Ends(r2, real2)
    <3> USE <2>EndsSay
    <3>1. \A i \in DOMAIN r2 : i \in DOMAIN r \/ r2[i] \in E
      BY DEF More
    <3>2. \A i \in DOMAIN r : i \in DOMAIN r2 /\ r2[i] = r[i]
      BY DEF More
    <3>3. ASSUME NEW f \in Folder, NEW i \in DOMAIN r2, Starts(r2[i], f), f \notin real2
          PROVE  \E j \in DOMAIN r2 : j > i /\ Finishes(r2[j], f)
      <4>1. i \in DOMAIN r /\ Starts(r[i], f)
        BY <3>1, <3>2, <3>3 DEF KeepsPace
      <4>2. CASE f \in real
        <5>1. PICK e \in E : Finishes(e, f)
          BY <3>3, <4>2 DEF KeepsPace
        <5>2. PICK j \in DOMAIN r2 \ DOMAIN r : r2[j] = e
          BY DEF More
        <5>3. i < j /\ i \in Int /\ j \in Int
          BY <4>1, <5>2 DEF More
        <5> QED
          BY <5>1, <5>2, <5>3
      <4>3. CASE f \notin real
        <5>1. PICK j \in DOMAIN r : j > i /\ Finishes(r[j], f)
          BY <4>1, <4>3 DEF Ends
        <5> QED
          BY <3>2, <5>1
      <4> QED
        BY <4>2, <4>3
    <3> QED
      BY <3>3 DEF Ends

  \* They leave every start that is shown with its end, too.
  <2>ShowsSay.
        ASSUME NEW list, NEW r, NEW r2, NEW E, NEW real, NEW real2, ShowsReal(list, r, real),
               More(r, r2, E), KeepsPace(E, real, real2)
        PROVE  ShowsReal(list, r2, real2)
    <3> USE <2>ShowsSay
    <3>1. \A i \in DOMAIN r : i \in DOMAIN r2 /\ r2[i] = r[i]
      BY DEF More
    <3>2. \A e \in E : \E j \in DOMAIN r2 : r2[j] = e
      BY DEF More
    <3> QED
      BY <3>1, <3>2 DEF ShowsReal, KeepsPace

  <2> DEFINE E == Range(es)
             q == queue \o es
  <2>1. /\ queue \in Seq(DaemonEvent) /\ wire \in Seq(DaemonEvent)
        /\ accounts \in Seq(AccountEntry) /\ lagged \in BOOLEAN
    BY DEF TypeOK
  <2>2. Fine(queue, own, used, credentials) /\ Fine(wire, own, used, credentials)
    BY DEF Agreed, Fine
  <2>3. q \in Seq(DaemonEvent) /\ More(queue, q, E)
    BY <2>1, <1>MoreSaid, SMT
  <2>4. Trails(q, configured', folder') /\ Ends(q, Reals')
    <3>1. Trails(queue, configured, folder) /\ Ends(queue, Reals)
      BY DEF QueueInv
    <3>2. Trails(q, configured', folder')
      BY <2>1, <2>2, <2>3, <3>1, ZenonT(60) DEF KeepsTrails
    <3>3. Ends(q, Reals')
      BY <2>3, <3>1, <2>EndsSay
    <3> QED
      BY <3>2, <3>3
  <2>5. \A i \in DOMAIN q : q[i] \in E \/ (i \in DOMAIN queue /\ q[i] = queue[i])
    BY <2>3 DEF More
  <2> HIDE DEF q, E
  <2>6. QueueInv'
    <3>1. Listening' = Listening
      BY DEF Listening
    <3>2. CASE Listening
      <4>1. queue' \in Seq(DaemonEvent) /\ Suffix(q, queue')
        BY <3>2 DEF Hears, Said, q
      <4>2. Trails(queue', configured', folder') /\ Ends(queue', Reals')
        BY <2>3, <2>4, <4>1, SuffixTrails, SuffixEnds
      <4>3. \A i \in DOMAIN queue' : \E j \in DOMAIN q : queue'[i] = q[j]
        <5>1. PICK d \in Nat : Shifted(q, queue', d)
          BY <2>3, <4>1, SuffixAt, ZenonT(60)
        <5> QED
          BY <5>1 DEF Shifted
      <4>4. \A i \in DOMAIN queue' : queue'[i].ev # "AccountSnapshot"
        BY <2>5, <4>3 DEF QueueInv, E
      <4>5. ASSUME link = "subscribed", NEW i \in DOMAIN queue', NEW a \in Account, Joins(queue'[i], a)
            PROVE  a \in configured' \ Leaving' /\ ~Heard(a)'
        <5>1. PICK j \in DOMAIN q : queue'[i] = q[j]
          BY <4>3
        <5>2. Heard(a)' <=> Heard(a)
          BY DEF Heard
        <5>3. CASE q[j] \in E
          BY <4>5, <5>1, <5>2, <5>3 DEF E
        <5>4. CASE j \in DOMAIN queue /\ q[j] = queue[j]
          <6>1. a \in configured \ Leaving /\ ~Heard(a)
            BY <4>5, <5>1, <5>4 DEF QueueInv
          <6> QED
            BY <5>2, <6>1
        <5> QED
          BY <2>5, <5>3, <5>4
      <4> QED
        BY <3>1, <3>2, <4>2, <4>4, <4>5 DEF QueueInv
    <3>3. CASE ~Listening
      <4>1. queue' = <<>> /\ link # "subscribed"
        BY <3>3 DEF Hears, QueueInv, Listening
      <4>2. DOMAIN queue' = {}
        BY <4>1, SMT
      <4>3. Trails(queue', configured', folder') /\ Ends(queue', Reals')
        BY <4>2 DEF Trails, Ends
      <4> QED
        BY <4>1, <4>2, <4>3 DEF QueueInv
    <3> QED
      BY <3>2, <3>3
  <2>7. ASSUME link \in {"snapped", "streaming"}, ~lagged', NEW k \in 0..Len(wire), Mark(wire, k)
        PROVE  /\ Ends(Rest(wire, queue', k), Reals')
               /\ ShowsReal(Base(accounts, wire, k), Rest(wire, queue', k), Reals')
               /\ ~raced => Mirrors(Base(accounts, wire, k), Rest(wire, queue', k),
                                    configured', folder', Leaving')
    <3> DEFINE r == Rest(wire, queue, k)
               r2 == Rest(wire, queue', k)
               list == Base(accounts, wire, k)
    <3>1. queue' = q /\ ~lagged
      <4>1. Listening
        BY <2>7 DEF Listening
      <4> QED
        BY <2>7, <4>1 DEF Hears, Said, q
    <3>2. r \in Seq(DaemonEvent) /\ Fine(r, own, used, credentials)
      BY <2>1, <2>2, <2>RestFine
    <3>3. queue' = queue \o es
      BY <3>1 DEF q
    <3>4. r2 \in Seq(DaemonEvent) /\ More(r, r2, E)
      BY <2>1, <3>3, <2>RestMore DEF E
    <3>5. InStep(list, r)
      BY <2>7, <3>1 DEF CopyInv
    <3>6. list \in Seq(AccountEntry) /\ Fits(list, own, used, credentials)
      <4>1. CASE k = 0
        BY <2>1, <4>1 DEF Base, Agreed
      <4>2. CASE k # 0
        <5>1. k \in DOMAIN wire /\ wire[k].ev = "AccountSnapshot" /\ wire[k] \in DaemonEvent
          <6>1. DOMAIN wire = 1..Len(wire) /\ Len(wire) \in Nat
            BY <2>1, SMT
          <6>2. k \in 1..Len(wire)
            BY <4>2, <6>1, SMT
          <6> QED
            BY <2>1, <2>7, <4>2, <6>1, <6>2, SMTT(30), ZenonT(30) DEF Mark
        <5>2. wire[k].accounts \in Seq(AccountEntry)
          BY <5>1, EventFields
        <5>3. Fits(wire[k].accounts, own, used, credentials)
          BY <5>1 DEF Agreed, EventFits
        <5> QED
          BY <4>2, <5>2, <5>3 DEF Base
      <4> QED
        BY <4>1, <4>2
    <3> HIDE DEF r, r2, list
    <3>7. Ends(r, Reals) /\ ShowsReal(list, r, Reals)
      BY <3>5 DEF InStep
    <3>8. KeepsPace(E, Reals, Reals')
      BY DEF E
    <3>9. Ends(r2, Reals') /\ ShowsReal(list, r2, Reals')
      BY <3>4, <3>7, <3>8, <2>EndsSay, <2>ShowsSay
    <3>10. ASSUME ~raced PROVE Mirrors(list, r2, configured', folder', Leaving')
      <4>1. Mirrors(list, r, configured, folder, Leaving)
        BY <3>5, <3>10 DEF InStep
      <4> QED
        BY <3>2, <3>4, <3>6, <4>1, ZenonT(60) DEF KeepsMirror, E
    <3> QED
      BY <3>9, <3>10 DEF r2, list
  <2>8. CopyInv'
    BY <2>7 DEF CopyInv, InStep
  <2> QED
    BY <2>6, <2>8

\* Who owns what, after a step of the daemon that says es.
<1>SaidOwned.
      ASSUME TypeOK, NEW own, Agreed(own), NEW own2 \in [Folder -> Account \cup {None}],
             NEW es \in Seq(DaemonEvent), Hears(es),
             wire' = wire, accounts' = accounts,
             used \subseteq used', credentials \subseteq credentials', \A f \in used : own2[f] = own[f],
             \A f \in Folder : folder'[f] # None =>
               f \in used' /\ own2[f] = folder'[f].account /\ own2[f] \in configured',
             \A e \in Range(es) : EventFits(e, own2, used', credentials')
      PROVE  Owned'
  <2> USE <1>SaidOwned
  \* More ids given out, more accounts signed in.
  <2>FitsGrow.
        ASSUME NEW list, NEW o, NEW us, NEW cred, NEW o2, NEW us2, NEW cred2,
               Fits(list, o, us, cred), us \subseteq us2, cred \subseteq cred2,
               \A f \in us : o2[f] = o[f]
        PROVE  Fits(list, o2, us2, cred2)
    BY <2>FitsGrow, ZenonT(60) DEF Fits

  \* The same for an event.
  <2>EventFitsGrow.
        ASSUME NEW e, NEW o, NEW us, NEW cred, NEW o2, NEW us2, NEW cred2,
               EventFits(e, o, us, cred), us \subseteq us2, cred \subseteq cred2,
               \A f \in us : o2[f] = o[f]
        PROVE  EventFits(e, o2, us2, cred2)
    <3> USE <2>EventFitsGrow
    <3>1. e.ev = "AccountSnapshot" => Fits(e.accounts, o2, us2, cred2)
      BY <2>FitsGrow, SMTT(30), ZenonT(30) DEF EventFits
    <3> QED
      BY <3>1 DEF EventFits

  <2> DEFINE q == queue \o es
  <2>1. queue \in Seq(DaemonEvent)
    BY DEF TypeOK
  <2>f. /\ Fits(accounts, own, used, credentials)
        /\ \A i \in DOMAIN wire : EventFits(wire[i], own, used, credentials)
        /\ \A i \in DOMAIN queue : EventFits(queue[i], own, used, credentials)
    BY DEF Agreed
  <2>2. Fits(accounts, own2, used', credentials')
    BY <2>f, <2>FitsGrow
  <2>3. \A i \in DOMAIN wire : EventFits(wire[i], own2, used', credentials')
    <3> TAKE i \in DOMAIN wire
    <3>1. EventFits(wire[i], own, used, credentials)
      BY <2>f
    <3> QED
      BY <3>1, <2>EventFitsGrow, ZenonT(60)
  <2>4. \A i \in DOMAIN queue : EventFits(queue[i], own2, used', credentials')
    <3> TAKE i \in DOMAIN queue
    <3>1. EventFits(queue[i], own, used, credentials)
      BY <2>f
    <3> QED
      BY <3>1, <2>EventFitsGrow, ZenonT(60)
  <2>5. q \in Seq(DaemonEvent) /\ More(queue, q, Range(es))
    BY <2>1, <1>MoreSaid, SMT
  <2>6. \A i \in DOMAIN q : q[i] \in Range(es) \/ (i \in DOMAIN queue /\ q[i] = queue[i])
    BY <2>5 DEF More
  <2>7. \A i \in DOMAIN q : EventFits(q[i], own2, used', credentials')
    BY <2>4, <2>6
  <2> HIDE DEF q
  <2>8. \A i \in DOMAIN queue' : EventFits(queue'[i], own2, used', credentials')
    <3>1. CASE Listening
      <4>1. queue' \in Seq(DaemonEvent) /\ Suffix(q, queue')
        BY <3>1 DEF Hears, Said, q
      <4>2. PICK d \in Nat : Shifted(q, queue', d)
        BY <2>5, <4>1, SuffixAt, ZenonT(60)
      <4> QED
        BY <2>7, <4>2 DEF Shifted
    <3>2. CASE ~Listening
      BY <2>4, <3>2 DEF Hears
    <3> QED
      BY <3>1, <3>2
  <2>9. Agreed(own2)'
    BY <2>2, <2>3, <2>8 DEF Agreed
  <2> QED
    BY <2>9 DEF Owned

\* One event.
<1>OneSaid.
      ASSUME NEW e \in DaemonEvent
      PROVE  <<e>> \in Seq(DaemonEvent) /\ Range(<<e>>) = {e}
  <2>1. <<e>> \in Seq(DaemonEvent) /\ DOMAIN <<e>> = {1} /\ <<e>>[1] = e
    BY SMT
  <2> QED
    BY <2>1, ZenonT(60) DEF Range

\* No event.
<1>NoneSaid.
      <<>> \in Seq(DaemonEvent) /\ Range(<<>>) = {}
  <2>1. <<>> \in Seq(DaemonEvent) /\ DOMAIN <<>> = {}
    BY SMT
  <2> QED
    BY <2>1, ZenonT(60) DEF Range

\* What it takes to say one event.
<1>OneHeard.
      ASSUME TypeOK, NEW e \in DaemonEvent, broadcast(<<e>>)
      PROVE  /\ <<e>> \in Seq(DaemonEvent) /\ Range(<<e>>) = {e} /\ Hears(<<e>>)
             /\ queue' \in Seq(DaemonEvent) /\ Len(queue') <= BroadcastCap /\ lagged' \in BOOLEAN
  <2> USE <1>OneHeard
  <2>1. <<e>> \in Seq(DaemonEvent) /\ Range(<<e>>) = {e}
    BY <1>OneSaid
  <2> QED
    BY <2>1, <1>BroadcastHears

\* A folder whose space is gone keeps the invariant.
<1>SpaceGoneInv.
      ASSUME NEW f \in Folder, SpaceGone(f)
      PROVE  Inv'
  <2> USE <1>SpaceGoneInv
  \* A folder is taken out because its space is gone.
  <2>TrailsTake.
        ASSUME NEW r, NEW r2, NEW conf, NEW fold \in FolderMap,
               NEW a \in Account, NEW x \in Folder, NEW e,
               Trails(r, conf, fold), More(r, r2, {e}), Takes(e, a, x), fold[x].account = a
        PROVE  Trails(r2, conf, [fold EXCEPT ![x] = None])
    <3> USE <2>TrailsTake
    <3> DEFINE fold2 == [fold EXCEPT ![x] = None]
    <3>1. \A i \in DOMAIN r2 : i \in DOMAIN r \/ r2[i] = e
      BY DEF More
    <3>2. \A i \in DOMAIN r : i \in DOMAIN r2 /\ r2[i] = r[i]
      BY DEF More
    <3>3. fold2[x] = None /\ \A g \in Folder \ {x} : fold2[g] = fold[g]
      BY DEF FolderMap
    <3>4. PICK n \in DOMAIN r2 \ DOMAIN r : r2[n] = e /\ \A j \in DOMAIN r : n > j
      <4>1. PICK n \in DOMAIN r2 \ DOMAIN r : r2[n] = e
        BY DEF More
      <4>2. \A j \in DOMAIN r : n > j
        BY DEF More
      <4> QED
        BY <4>1, <4>2
    <3> HIDE DEF fold2
    <3>5. ASSUME NEW b \in Account, NEW g \in Folder, NEW t \in Space, NEW i \in DOMAIN r2,
                 Adds(r2[i], b, g, t)
          PROVE  \/ fold2[g] = [account |-> b, space |-> t] \/ b \notin conf
                 \/ \E j \in DOMAIN r2 : j > i /\ Takes(r2[j], b, g)
      <4>1. i \in DOMAIN r /\ Adds(r[i], b, g, t)
        BY <3>1, <3>2, <3>5 DEF Adds, Takes
      <4>2. \/ fold[g] = [account |-> b, space |-> t] \/ b \notin conf
            \/ \E j \in DOMAIN r : j > i /\ Takes(r[j], b, g)
        BY <4>1 DEF Trails
      <4>3. CASE g = x /\ fold[g] = [account |-> b, space |-> t]
        <5>1. [account |-> b, space |-> t].account = b
          OBVIOUS
        <5>2. Takes(e, b, g)
          BY <4>3, <5>1
        <5> QED
          BY <3>4, <4>1, <5>2
      <4>4. CASE ~(g = x /\ fold[g] = [account |-> b, space |-> t])
        BY <3>2, <3>3, <4>2, <4>4
      <4> QED
        BY <4>3, <4>4
    <3>6. ASSUME NEW b \in Account, NEW g \in Folder, NEW i \in DOMAIN r2, Takes(r2[i], b, g)
          PROVE  fold2[g] = None
      <4>1. CASE r2[i] = e
        BY <3>3, <3>6, <4>1 DEF Takes
      <4>2. CASE i \in DOMAIN r
        BY <3>2, <3>3, <3>6, <4>2 DEF Trails
      <4> QED
        BY <3>1, <4>1, <4>2
    <3>7. Trails(r2, conf, fold2)
      BY <3>5, <3>6 DEF Trails
    <3> QED
      BY <3>7 DEF fold2

  \* A folder that is gone and the event that tells of it.
  <2>MirrorTake.
        ASSUME NEW list, NEW r, NEW r2, NEW conf, NEW fold \in FolderMap, NEW leave,
               NEW a \in Account, NEW x \in Folder, NEW e,
               Mirrors(list, r, conf, fold, leave), More(r, r2, {e}), Takes(e, a, x), fold[x].account = a
        PROVE  Mirrors(list, r2, conf, [fold EXCEPT ![x] = None], leave)
    <3> USE <2>MirrorTake
    <3> DEFINE fold2 == [fold EXCEPT ![x] = None]
    <3>1. \A i \in DOMAIN r2 : i \in DOMAIN r \/ r2[i] = e
      BY DEF More
    <3>2. \A i \in DOMAIN r : i \in DOMAIN r2 /\ r2[i] = r[i]
      BY DEF More
    <3>3. fold2[x] = None /\ \A g \in Folder \ {x} : fold2[g] = fold[g]
      BY DEF FolderMap
    <3>4. Trails(r2, conf, fold2)
      BY <2>TrailsTake DEF Mirrors
    <3>5. \E n \in DOMAIN r2 : r2[n] = e
      BY DEF More
    <3> HIDE DEF fold2
    <3>6. AccountsMirror(list, r2, conf, leave)
      BY <3>1, <3>2, SMTT(30), ZenonT(30) DEF Mirrors, AccountsMirror, Joins, Takes
    <3>7. ASSUME NEW b \in Account, NEW g \in Folder, NEW t \in Space,
                 fold2[g] = [account |-> b, space |-> t], b \notin leave
          PROVE  \/ HasRow(list, b, g, t)
                 \/ \E i \in DOMAIN r2 :
                      /\ Adds(r2[i], b, g, t)
                      /\ Has(list, b) \/ \E j \in DOMAIN r2 : j < i /\ Joins(r2[j], b)
      <4>1. CASE g # x
        <5>1. \/ HasRow(list, b, g, t)
              \/ \E i \in DOMAIN r :
                   /\ Adds(r[i], b, g, t)
                   /\ Has(list, b) \/ \E j \in DOMAIN r : j < i /\ Joins(r[j], b)
          BY <3>3, <3>7, <4>1, ZenonT(60) DEF Mirrors, FoldersMirror
        <5> QED
          BY <3>2, <5>1
      <4>2. CASE g = x
        BY <3>3, <3>7, <4>2, SmallFacts
      <4> QED
        BY <4>1, <4>2
    <3>8. ASSUME NEW b \in Account, NEW g \in Folder, NEW t \in Space, HasRow(list, b, g, t)
          PROVE  \/ fold2[g] = [account |-> b, space |-> t]
                 \/ \E i \in DOMAIN r2 : Takes(r2[i], b, g)
      <4>1. fold[g] = [account |-> b, space |-> t] \/ \E i \in DOMAIN r : Takes(r[i], b, g)
        BY <3>8, ZenonT(60) DEF Mirrors, FoldersMirror
      <4>2. CASE g = x /\ fold[g] = [account |-> b, space |-> t]
        <5>1. [account |-> b, space |-> t].account = b
          OBVIOUS
        <5>2. Takes(e, b, g)
          BY <4>2, <5>1
        <5> QED
          BY <3>5, <5>2
      <4>3. CASE ~(g = x /\ fold[g] = [account |-> b, space |-> t])
        BY <3>2, <3>3, <4>1, <4>3
      <4> QED
        BY <4>2, <4>3
    <3>9. FoldersMirror(list, r2, fold2, leave)
      BY <3>7, <3>8 DEF FoldersMirror
    <3>10. Mirrors(list, r2, conf, fold2, leave)
      BY <3>4, <3>6, <3>9 DEF Mirrors
    <3> QED
      BY <3>10 DEF fold2

  \* Saying that a folder's space is gone goes with its removal.
  <2>TakeKeeps.
        ASSUME NEW e, NEW a \in Account, NEW x \in Folder, Takes(e, a, x),
               NEW conf, NEW fold \in FolderMap, fold[x].account = a, NEW leave,
               NEW own, NEW us, NEW cred
        PROVE  LET fold2 == [fold EXCEPT ![x] = None]
               IN /\ KeepsTrails({e}, conf, fold, conf, fold2, own, us, cred)
                  /\ KeepsMirror({e}, conf, fold, leave, conf, fold2, leave, own, us, cred)
    <3> USE <2>TakeKeeps
    <3> DEFINE fold2 == [fold EXCEPT ![x] = None]
    <3>1. ASSUME NEW r, NEW r2, Trails(r, conf, fold), More(r, r2, {e})
          PROVE  Trails(r2, conf, fold2)
      BY <3>1, <2>TrailsTake
    <3>2. ASSUME NEW list, NEW r, NEW r2, Mirrors(list, r, conf, fold, leave), More(r, r2, {e})
          PROVE  Mirrors(list, r2, conf, fold2, leave)
      BY <3>2, <2>MirrorTake
    <3> HIDE DEF fold2
    <3>3. /\ KeepsTrails({e}, conf, fold, conf, fold2, own, us, cred)
          /\ KeepsMirror({e}, conf, fold, leave, conf, fold2, leave, own, us, cred)
      BY <3>1, <3>2 DEF KeepsTrails, KeepsMirror
    <3> QED
      BY <3>3 DEF fold2

  <2>1. TypeOK /\ Roles /\ folder \in FolderMap
    BY DEF Inv, TypeOK, FolderMap
  <2>2. PICK a \in Account : a = Known0
    BY GuiAssumption
  <2> DEFINE e == [ev |-> "SpaceRemoved", account |-> a, folder |-> f]
  <2>3. /\ link' = link /\ wire' = wire /\ accounts' = accounts /\ view' = view /\ raced' = raced
        /\ inbox' = inbox /\ cmds' = cmds /\ lost' = lost /\ unanswered' = unanswered
        /\ dropped' = dropped /\ listing' = listing /\ signing' = signing
        /\ running' = running /\ sched' = sched /\ announcing' = announcing
        /\ configured' = configured /\ credentials' = credentials /\ used' = used
        /\ folder' = [folder EXCEPT ![f] = None] /\ folder[f] # None /\ folder[f].account = a
    BY <2>2 DEF SpaceGone, daemonOnly, jobs, tasks
  <2>4. broadcast(<<e>>)
    BY <2>2 DEF SpaceGone, broadcast
  <2>5. e \in DaemonEvent /\ e.ev = "SpaceRemoved" /\ e.account = a /\ e.folder = f
    BY DEF DaemonEvent
  <2> HIDE DEF e
  <2>6. /\ <<e>> \in Seq(DaemonEvent) /\ Range(<<e>>) = {e} /\ Hears(<<e>>)
        /\ queue' \in Seq(DaemonEvent) /\ Len(queue') <= BroadcastCap /\ lagged' \in BOOLEAN
    BY <2>1, <2>4, <2>5, <1>OneHeard
  <2>7. Leaving' = Leaving /\ Reals' = Reals
    BY <2>3 DEF Leaving, Reals
  <2>8. TypeOK'
    <3>1. folder' \in [Folder -> {None} \cup [account : Account, space : Space]]
      BY <2>1, <2>3 DEF FolderMap
    <3> QED
      BY <2>1, <2>3, <2>6, <3>1 DEF TypeOK
  <2>9. Roles'
    BY <2>1, <2>3, <2>7 DEF Roles
  <2>10. PICK own \in [Folder -> Account \cup {None}] : Agreed(own)
    BY DEF Inv, Owned
  <2>11. Owned'
    <3>1. \A d \in Range(<<e>>) : EventFits(d, own, used', credentials')
      <4>1. f \in used'
        BY <2>3, <2>10 DEF Agreed
      <4> QED
        BY <2>5, <2>6, <4>1 DEF EventFits
    <3>2. \A g \in Folder : folder'[g] # None =>
            g \in used' /\ own[g] = folder'[g].account /\ own[g] \in configured'
      <4>1. \A g \in Folder : folder'[g] = IF g = f THEN None ELSE folder[g]
        BY <2>1, <2>3 DEF FolderMap
      <4> QED
        BY <2>3, <2>10, <4>1 DEF Agreed
    <3>3. used \subseteq used' /\ credentials \subseteq credentials'
      BY <2>3
    <3> QED
      BY <2>1, <2>3, <2>6, <2>10, <3>1, <3>2, <3>3, <1>SaidOwned
  <2>12. /\ KeepsTrails(Range(<<e>>), configured, folder, configured', folder', own, used, credentials)
         /\ KeepsMirror(Range(<<e>>), configured, folder, Leaving, configured', folder', Leaving',
                        own, used, credentials)
    <3>1. Takes(e, a, f) /\ folder[f].account = a
      BY <2>3, <2>5 DEF Takes
    <3>2. /\ KeepsTrails({e}, configured, folder, configured, [folder EXCEPT ![f] = None],
                         own, used, credentials)
          /\ KeepsMirror({e}, configured, folder, Leaving, configured, [folder EXCEPT ![f] = None],
                         Leaving, own, used, credentials)
      BY <2>1, <3>1, <2>TakeKeeps
    <3> QED
      BY <2>3, <2>6, <2>7, <3>2
  <2>13. QueueInv' /\ CopyInv'
    <3>1. KeepsPace(Range(<<e>>), Reals, Reals') /\ \A d \in Range(<<e>>) : d.ev # "AccountSnapshot"
      BY <2>5, <2>6, <2>7 DEF KeepsPace, Starts
    <3>2. configured \ Leaving \subseteq configured' \ Leaving'
      BY <2>3, <2>7
    <3>3. \A d \in Range(<<e>>) : \A b \in Account : Joins(d, b) =>
            b \in configured' \ Leaving' /\ ~Heard(b)
      BY <2>5, <2>6 DEF Joins
    <3>4. QueueInv /\ CopyInv
      BY DEF Inv
    <3> QED
      BY <2>1, <2>3, <2>6, <2>10, <2>12, <3>1, <3>2, <3>3, <3>4, <1>SaidStep
  <2> QED
    BY <2>8, <2>9, <2>11, <2>13 DEF Inv

\* The scheduler's calls keep the flags' types.
<1>FlagTypes.
      ASSUME NEW s \in FolderScheduleState \cup {None}
      PROVE  /\ add_folder(s) \in FolderScheduleState
             /\ {request_sync(s), force_request_sync(s), start_sync(s), finish_sync(s), pause(s), resume(s)}
                  \subseteq FolderScheduleState \cup {None}
             /\ s # None => /\ s \in FolderScheduleState /\ {s.paused, s.running, s.pending} \subseteq BOOLEAN
                            /\ {request_sync(s), force_request_sync(s), start_sync(s), finish_sync(s),
                                pause(s), resume(s)} \subseteq FolderScheduleState
             /\ s = None => /\ {request_sync(s), force_request_sync(s), start_sync(s), finish_sync(s),
                                pause(s), resume(s)} = {None}
  BY DEF FolderScheduleState, Default, Known, add_folder, request_sync, force_request_sync,
         start_sync, finish_sync, pause, resume

\* What pausing, resuming and asking do to the flags.
<1>FlagsKept.
      ASSUME NEW s \in FolderScheduleState \cup {None},
             NEW t \in {pause(s), resume(s), request_sync(s)}
      PROVE  /\ t \in FolderScheduleState \cup {None} /\ (s = None => t = None)
             /\ s # None => /\ t # None /\ (s.running => t.running) /\ (s.pending => t.pending)
  <2>1. CASE s = None
    BY <2>1 DEF pause, resume, request_sync, Known
  <2>2. CASE s # None
    <3>1. s \in FolderScheduleState /\ t \in FolderScheduleState
      BY <2>2, <1>FlagTypes
    <3>2. t.running = s.running /\ (t.pending = s.pending \/ t.pending = TRUE)
      BY <2>2, <3>1 DEF pause, resume, request_sync, Known, FolderScheduleState
    <3> QED
      BY <2>2, <3>1, <3>2, NoneAssumption
  <2> QED
    BY <2>1, <2>2

\* A step of the daemon that changes no account and no folder.
<1>QuietStep.
      ASSUME NEW es \in Seq(DaemonEvent), Hears(es),
             configured' = configured, folder' = folder, used' = used, credentials' = credentials,
             link' = link, wire' = wire, accounts' = accounts, raced' = raced,
             Neutral(Range(es)), \A e \in Range(es) : e.ev # "AccountSnapshot",
             KeepsPace(Range(es), Reals, Reals'), Leaving' = Leaving
      PROVE  Owned' /\ QueueInv' /\ CopyInv'
  <2> USE <1>QuietStep
  \* Events about other things go with a state that stays.
  <2>NeutralKeeps.
        ASSUME NEW E, Neutral(E), NEW conf, NEW fold, NEW leave, NEW own, NEW us, NEW cred
        PROVE  /\ KeepsTrails(E, conf, fold, conf, fold, own, us, cred)
               /\ KeepsMirror(E, conf, fold, leave, conf, fold, leave, own, us, cred)
    <3> USE <2>NeutralKeeps
    <3>1. KeepsTrails(E, conf, fold, conf, fold, own, us, cred)
      BY <1>TrailsSay DEF KeepsTrails, Neutral
    <3>2. KeepsMirror(E, conf, fold, leave, conf, fold, leave, own, us, cred)
      BY <1>MirrorSay, ZenonT(60) DEF KeepsMirror
    <3> QED
      BY <3>1, <3>2

  <2>1. PICK own \in [Folder -> Account \cup {None}] : Agreed(own)
    BY DEF Inv, Owned
  <2>2. \A e \in Range(es) : EventFits(e, own, used, credentials)
    BY DEF Neutral, EventFits
  <2>3. Owned'
    <3>1. \A f \in Folder : folder'[f] # None =>
            f \in used' /\ own[f] = folder'[f].account /\ own[f] \in configured'
      BY <2>1 DEF Agreed
    <3>2. /\ used \subseteq used' /\ credentials \subseteq credentials'
          /\ \A e \in Range(es) : EventFits(e, own, used', credentials')
      BY <2>2
    <3> QED
      BY <2>1, <3>1, <3>2, <1>SaidOwned DEF Inv
  <2>4. \A e \in Range(es) : \A a \in Account : ~Joins(e, a)
    BY DEF Neutral, Joins
  <2>5. /\ KeepsTrails(Range(es), configured, folder, configured', folder', own, used, credentials)
        /\ KeepsMirror(Range(es), configured, folder, Leaving, configured', folder', Leaving',
                       own, used, credentials)
    <3>1. /\ KeepsTrails(Range(es), configured, folder, configured, folder, own, used, credentials)
          /\ KeepsMirror(Range(es), configured, folder, Leaving, configured, folder, Leaving,
                         own, used, credentials)
      BY <2>NeutralKeeps
    <3> QED
      BY <3>1
  <2>6. QueueInv' /\ CopyInv'
    <3>1. configured \ Leaving \subseteq configured' \ Leaving'
      OBVIOUS
    <3>2. \A e \in Range(es) : \A a \in Account : Joins(e, a) =>
            a \in configured' \ Leaving' /\ ~Heard(a)
      BY <2>4
    <3> QED
      BY <2>1, <2>5, <3>1, <3>2, <1>SaidStep DEF Inv
  <2> QED
    BY <2>3, <2>6

\* A step that changes no account and no folder keeps the invariant if it keeps the
\* types of all else.
<1>QuietInv.
      ASSUME NEW es \in Seq(DaemonEvent), Hears(es),
             queue' \in Seq(DaemonEvent), Len(queue') <= BroadcastCap, lagged' \in BOOLEAN,
             UNCHANGED <<config, link, wire, accounts, view, raced>>,
             Neutral(Range(es)), \A e \in Range(es) : e.ev # "AccountSnapshot",
             KeepsPace(Range(es), Reals, Reals'), Leaving' = Leaving,
             inbox' \in Seq(DaemonCommand), cmds' \in Seq(DaemonCommand), Len(cmds') <= CmdCap,
             sched' \in [Folder -> FolderScheduleState \cup {None}],
             \A f \in Folder : sched[f] # None => sched'[f] # None,
             running' \subseteq Folder, announcing' \in [Folder -> [BOOLEAN -> {0, 1}]],
             dropped' \subseteq Folder, signing' \subseteq Account \ credentials, listing' \subseteq Account,
             lost' \in BOOLEAN, unanswered' \in BOOLEAN
      PROVE  Inv'
  <2> USE <1>QuietInv
  <2>1. /\ configured' = configured /\ folder' = folder /\ used' = used /\ credentials' = credentials
        /\ link' = link /\ wire' = wire /\ accounts' = accounts /\ raced' = raced /\ view' = view
    BY DEF config
  <2>2. TypeOK /\ Roles
    BY DEF Inv
  <2>3. TypeOK'
    <3>1. signing' \subseteq Account
      OBVIOUS
    <3> QED
      BY <2>1, <2>2, <3>1 DEF TypeOK
  <2>4. Roles'
    <3>1. used \subseteq Folder
      BY <2>2 DEF TypeOK
    <3>2. signing' \cap credentials' = {}
      BY <2>1
    <3> QED
      BY <2>1, <2>2, <3>1, <3>2 DEF Roles
  <2>5. Owned' /\ QueueInv' /\ CopyInv'
    BY <2>1, <1>QuietStep
  <2> QED
    BY <2>3, <2>4, <2>5 DEF Inv

\* A step of a task that reports an attempt, and changes no folder.
<1>TaskStep.
      ASSUME NEW es \in Seq(DaemonEvent), Hears(es),
             queue' \in Seq(DaemonEvent), Len(queue') <= BroadcastCap, lagged' \in BOOLEAN,
             UNCHANGED <<config, jobs, dropped, link, wire, accounts, view, raced>>,
             \A e \in Range(es) : e.ev \in {"AccountAddFailed", "SpacesListed", "AccountSpaceFailed"},
             inbox' \in Seq(DaemonCommand), cmds' \in Seq(DaemonCommand), Len(cmds') <= CmdCap,
             Leaving' = Leaving, signing' \subseteq Account \ credentials, listing' \subseteq Account,
             lost' \in BOOLEAN, unanswered' \in BOOLEAN
      PROVE  Inv'
  <2> USE <1>TaskStep
  <2>1. TypeOK
    BY DEF Inv
  <2>2. /\ sched' = sched /\ running' = running /\ announcing' = announcing /\ dropped' = dropped
        /\ UNCHANGED <<config, link, wire, accounts, view, raced>>
    BY DEF jobs
  <2>3. Reals' = Reals
    BY <2>2 DEF Reals
  <2>4. /\ Neutral(Range(es)) /\ \A e \in Range(es) : e.ev # "AccountSnapshot"
        /\ KeepsPace(Range(es), Reals, Reals')
    BY <2>3 DEF Neutral, KeepsPace, Starts
  <2>5. /\ sched' \in [Folder -> FolderScheduleState \cup {None}]
        /\ \A f \in Folder : sched[f] # None => sched'[f] # None
        /\ running' \subseteq Folder /\ announcing' \in [Folder -> [BOOLEAN -> {0, 1}]]
        /\ dropped' \subseteq Folder
    BY <2>1, <2>2 DEF TypeOK
  <2> QED
    BY <2>2, <2>4, <2>5, <1>QuietInv

\* A tick keeps the invariant: the starts it announces are real.
<1>TickInv.
      ASSUME scheduler_tick
      PROVE  Inv'
  <2> USE <1>TickInv
  <2>1. TypeOK /\ signing \subseteq Account \ credentials /\ lost \in BOOLEAN /\ unanswered \in BOOLEAN
    BY InvTypes
  <2>2. /\ UNCHANGED <<config, link, wire, accounts, view, raced>>
        /\ inbox' = inbox /\ cmds' = cmds /\ lost' = lost /\ unanswered' = unanswered
        /\ dropped' = dropped /\ announcing' = announcing /\ signing' = signing /\ listing' = listing
    BY DEF scheduler_tick, daemonOnly, tasks
  <2>3. PICK ready \in SUBSET Folder : ready = {f \in Folder : ready_to_run(sched[f])}
    OBVIOUS
  <2> DEFINE ids == Ordered(ready)
             es == [i \in DOMAIN ids |-> [ev |-> "SyncStarted", folder |-> ids[i]]]
  <2>4. /\ sched' = [f \in Folder |-> IF f \in ready THEN start_sync(sched[f]) ELSE sched[f]]
        /\ running' = running \cup ready
        /\ broadcast(es)
    BY <2>3 DEF scheduler_tick, broadcast
  <2>5. IsFiniteSet(ready)
    BY GuiAssumption, FinitePart
  <2>6. ids \in Seq(ready)
    BY <2>5, OrderedFacts
  <2>7. DOMAIN ids = 1..Len(ids) /\ Len(ids) \in Nat /\ \A i \in DOMAIN ids : ids[i] \in ready
    BY <2>6, SMT
  <2> HIDE DEF ids
  <2>8. /\ es \in Seq(DaemonEvent)
        /\ \A e \in Range(es) : e.ev = "SyncStarted" /\ e.folder \in ready
    <3>1. \A f \in ready : [ev |-> "SyncStarted", folder |-> f] \in DaemonEvent
      BY DEF DaemonEvent
    <3>2. es \in [1..Len(ids) -> DaemonEvent] /\ DOMAIN es = DOMAIN ids
      BY <2>7, <3>1
    <3>3. es \in Seq(DaemonEvent)
      BY <2>7, <3>2, SMT
    <3>4. \A i \in DOMAIN es : es[i].ev = "SyncStarted" /\ es[i].folder \in ready
      BY <2>7
    <3> QED
      BY <3>3, <3>4 DEF Range
  <2> HIDE DEF es
  <2>9. /\ Hears(es) /\ queue' \in Seq(DaemonEvent) /\ Len(queue') <= BroadcastCap
        /\ lagged' \in BOOLEAN
    BY <2>1, <2>4, <2>8, <1>BroadcastHears
  <2>10. \A f \in Folder : sched[f] \in FolderScheduleState \cup {None}
    BY <2>1 DEF TypeOK
  <2>11. \A f \in ready : /\ sched[f] # None /\ sched'[f] \in FolderScheduleState
                          /\ sched'[f] # None /\ sched'[f].running
    <3>1. \A f \in ready : sched[f] # None /\ sched[f] \in FolderScheduleState
      BY <2>3, <2>10 DEF ready_to_run, Known
    <3>2. \A f \in ready : sched'[f] = [sched[f] EXCEPT !.running = TRUE, !.pending = FALSE]
      BY <2>4, <3>1 DEF start_sync, Known
    <3>3. \A s \in FolderScheduleState :
            LET t == [s EXCEPT !.running = TRUE, !.pending = FALSE]
            IN t \in FolderScheduleState /\ t.running = TRUE
      BY DEF FolderScheduleState
    <3>4. \A f \in ready : sched'[f] \in FolderScheduleState /\ sched'[f].running = TRUE
      BY <3>1, <3>2, <3>3
    <3> QED
      BY <3>1, <3>4, NoneAssumption
  <2>12. \A f \in Folder \ ready : sched'[f] = sched[f]
    BY <2>4
  <2>13. /\ sched' \in [Folder -> FolderScheduleState \cup {None}]
         /\ \A f \in Folder : sched[f] # None => sched'[f] # None
    <3>1. sched' = [f \in Folder |-> sched'[f]]
      BY <2>4
    <3> QED
      BY <2>10, <2>11, <2>12, <3>1
  <2>14. /\ Neutral(Range(es)) /\ \A e \in Range(es) : e.ev # "AccountSnapshot"
         /\ KeepsPace(Range(es), Reals, Reals')
    <3>1. ready \subseteq Reals'
      BY <2>11 DEF Reals
    <3>2. \A f \in Folder \ ready : f \in Reals => f \in Reals'
      BY <2>2, <2>12 DEF Reals
    <3>3. Reals \subseteq Folder
      BY DEF Reals
    <3> QED
      BY <2>8, <3>1, <3>2, <3>3 DEF Neutral, KeepsPace, Starts
  <2>15. /\ inbox' \in Seq(DaemonCommand) /\ cmds' \in Seq(DaemonCommand) /\ Len(cmds') <= CmdCap
         /\ Leaving' = Leaving
    BY <2>1, <2>2 DEF TypeOK, Leaving
  <2>16. /\ running' \subseteq Folder /\ announcing' \in [Folder -> [BOOLEAN -> {0, 1}]]
         /\ dropped' \subseteq Folder /\ signing' \subseteq Account \ credentials
         /\ listing' \subseteq Account /\ lost' \in BOOLEAN /\ unanswered' \in BOOLEAN
    BY <2>1, <2>2, <2>4 DEF TypeOK
  <2> QED
    BY <2>2, <2>8, <2>9, <2>13, <2>14, <2>15, <2>16, <1>QuietInv

\* The end of a run keeps the invariant: it is still to be announced.
<1>RunSyncInv.
      ASSUME NEW f \in Folder, NEW ok \in BOOLEAN, run_sync(f, ok)
      PROVE  Inv'
  <2> USE <1>RunSyncInv
  <2>1. TypeOK /\ signing \subseteq Account \ credentials /\ lost \in BOOLEAN /\ unanswered \in BOOLEAN
    BY InvTypes
  <2>2. /\ UNCHANGED <<config, link, wire, accounts, view, raced>>
        /\ inbox' = inbox /\ cmds' = cmds /\ lost' = lost /\ unanswered' = unanswered
        /\ dropped' = dropped /\ signing' = signing /\ listing' = listing
        /\ queue' = queue /\ lagged' = lagged
        /\ running' = running \ {f} /\ sched' = [sched EXCEPT ![f] = finish_sync(sched[f])]
        /\ announcing' = [announcing EXCEPT ![f][ok] = 1]
    BY DEF run_sync, daemonOnly, tasks
  <2>3. /\ Hears(<<>>) /\ queue' \in Seq(DaemonEvent) /\ Len(queue') <= BroadcastCap
        /\ lagged' \in BOOLEAN
    BY <2>1, <2>2, <1>SilenceHears
  <2>4. <<>> \in Seq(DaemonEvent) /\ Range(<<>>) = {}
    BY <1>NoneSaid
  <2>5. sched[f] \in FolderScheduleState \cup {None}
    BY <2>1 DEF TypeOK
  <2>6. /\ finish_sync(sched[f]) \in FolderScheduleState \cup {None}
        /\ sched[f] # None => finish_sync(sched[f]) # None
    BY <2>5, <1>FlagTypes, NoneAssumption
  <2>7. /\ sched' \in [Folder -> FolderScheduleState \cup {None}]
        /\ \A g \in Folder : sched[g] # None => sched'[g] # None
        /\ \A g \in Folder \ {f} : sched'[g] = sched[g]
    BY <2>1, <2>2, <2>6 DEF TypeOK
  <2>8. announcing \in [Folder -> [BOOLEAN -> {0, 1}]]
    BY <2>1 DEF TypeOK
  <2>9. /\ announcing' \in [Folder -> [BOOLEAN -> {0, 1}]] /\ announcing'[f][ok] = 1
        /\ \A g \in Folder \ {f} : announcing'[g] = announcing[g]
    BY <2>2, <2>8
  <2>10. /\ Neutral(Range(<<>>)) /\ \A e \in Range(<<>>) : e.ev # "AccountSnapshot"
         /\ KeepsPace(Range(<<>>), Reals, Reals')
    <3>1. f \in Reals'
      BY <2>9 DEF Reals
    <3>2. \A g \in Folder \ {f} : g \in Reals => g \in Reals'
      BY <2>2, <2>7, <2>9 DEF Reals
    <3>3. Reals \subseteq Folder
      BY DEF Reals
    <3> QED
      BY <2>4, <3>1, <3>2, <3>3 DEF Neutral, KeepsPace
  <2>11. /\ inbox' \in Seq(DaemonCommand) /\ cmds' \in Seq(DaemonCommand) /\ Len(cmds') <= CmdCap
         /\ Leaving' = Leaving
    BY <2>1, <2>2 DEF TypeOK, Leaving
  <2>12. /\ running' \subseteq Folder
         /\ dropped' \subseteq Folder /\ signing' \subseteq Account \ credentials
         /\ listing' \subseteq Account /\ lost' \in BOOLEAN /\ unanswered' \in BOOLEAN
    BY <2>1, <2>2 DEF TypeOK
  <2> QED
    BY <2>2, <2>3, <2>4, <2>7, <2>9, <2>10, <2>11, <2>12, <1>QuietInv

\* The announcement of an end keeps the invariant.
<1>AnnounceInv.
      ASSUME NEW f \in Folder, NEW ok \in BOOLEAN, Announce(f, ok)
      PROVE  Inv'
  <2> USE <1>AnnounceInv
  <2>1. TypeOK /\ signing \subseteq Account \ credentials /\ lost \in BOOLEAN /\ unanswered \in BOOLEAN
    BY InvTypes, SMT
  <2> DEFINE e == [ev |-> "SyncFinished", folder |-> f, ok |-> ok]
  <2>2. /\ UNCHANGED <<config, link, wire, accounts, view, raced>>
        /\ inbox' = inbox /\ cmds' = cmds /\ lost' = lost /\ unanswered' = unanswered
        /\ dropped' = dropped /\ signing' = signing /\ listing' = listing
        /\ running' = running /\ sched' = sched
        /\ announcing' = [announcing EXCEPT ![f][ok] = 0]
        /\ broadcast(<<e>>)
    BY DEF Announce, daemonOnly, tasks
  <2>3. e \in DaemonEvent /\ e.ev = "SyncFinished" /\ e.folder = f
    BY DEF DaemonEvent
  <2> HIDE DEF e
  <2>4. /\ <<e>> \in Seq(DaemonEvent) /\ Range(<<e>>) = {e} /\ Hears(<<e>>)
        /\ queue' \in Seq(DaemonEvent) /\ Len(queue') <= BroadcastCap /\ lagged' \in BOOLEAN
    BY <2>1, <2>2, <2>3, <1>OneHeard
  <2>5. announcing \in [Folder -> [BOOLEAN -> {0, 1}]]
    BY <2>1, SMT DEF TypeOK
  <2>6. /\ announcing' \in [Folder -> [BOOLEAN -> {0, 1}]]
        /\ \A g \in Folder \ {f} : announcing'[g] = announcing[g]
    BY <2>2, <2>5
  <2>7. /\ Neutral(Range(<<e>>)) /\ \A d \in Range(<<e>>) : d.ev # "AccountSnapshot"
        /\ KeepsPace(Range(<<e>>), Reals, Reals')
    <3>1. \A g \in Folder \ {f} : g \in Reals => g \in Reals'
      BY <2>2, <2>6 DEF Reals
    <3>2. Reals \subseteq Folder
      BY SMT DEF Reals
    <3> QED
      BY <2>3, <2>4, <3>1, <3>2 DEF Neutral, KeepsPace, Starts, Finishes
  <2>8. /\ inbox' \in Seq(DaemonCommand) /\ cmds' \in Seq(DaemonCommand) /\ Len(cmds') <= CmdCap
        /\ Leaving' = Leaving
    BY <2>1, <2>2 DEF TypeOK, Leaving
  <2>9. /\ running' \subseteq Folder
        /\ sched' \in [Folder -> FolderScheduleState \cup {None}]
        /\ \A g \in Folder : sched[g] # None => sched'[g] # None
        /\ dropped' \subseteq Folder /\ signing' \subseteq Account \ credentials
        /\ listing' \subseteq Account /\ lost' \in BOOLEAN /\ unanswered' \in BOOLEAN
    BY <2>1, <2>2 DEF TypeOK
  <2> QED
    BY <2>2, <2>4, <2>6, <2>7, <2>8, <2>9, <1>QuietInv

\* The end of a sign-in that fails, or of a listing, keeps the invariant.
<1>AttemptInv.
      ASSUME NEW a \in Account, SignInFails(a) \/ Listed(a)
      PROVE  Inv'
  <2> USE <1>AttemptInv
  <2>1. TypeOK /\ signing \subseteq Account \ credentials /\ lost \in BOOLEAN /\ unanswered \in BOOLEAN
    BY InvTypes
  <2>2. /\ UNCHANGED <<config, jobs, dropped, link, wire, accounts, view, raced>>
        /\ inbox' = inbox /\ cmds' = cmds /\ lost' = lost
        /\ signing' \subseteq signing /\ listing' \subseteq listing /\ unanswered' \in {unanswered, TRUE}
    BY DEF SignInFails, Listed, daemonOnly
  <2>3. /\ inbox' \in Seq(DaemonCommand) /\ cmds' \in Seq(DaemonCommand) /\ Len(cmds') <= CmdCap
        /\ Leaving' = Leaving
    BY <2>1, <2>2 DEF TypeOK, Leaving
  <2>4. /\ signing' \subseteq Account \ credentials /\ listing' \subseteq Account
        /\ lost' \in BOOLEAN /\ unanswered' \in BOOLEAN
    BY <2>1, <2>2 DEF TypeOK
  <2>5. PICK name \in {"AccountAddFailed", "SpacesListed", "AccountSpaceFailed"} :
          broadcast(<<Event(name, a)>>)
    BY DEF SignInFails, Listed
  <2> DEFINE e == Event(name, a)
  <2>6. e \in DaemonEvent /\ e.ev = name
    BY DEF Event, DaemonEvent
  <2>7. broadcast(<<e>>)
    BY <2>5
  <2> HIDE DEF e
  <2>8. /\ <<e>> \in Seq(DaemonEvent) /\ Range(<<e>>) = {e} /\ Hears(<<e>>)
        /\ queue' \in Seq(DaemonEvent) /\ Len(queue') <= BroadcastCap /\ lagged' \in BOOLEAN
    BY <2>1, <2>6, <2>7, <1>OneHeard
  <2>9. \A d \in Range(<<e>>) : d.ev \in {"AccountAddFailed", "SpacesListed", "AccountSpaceFailed"}
    BY <2>6, <2>8
  <2> QED
    BY <2>2, <2>3, <2>4, <2>8, <2>9, <1>TaskStep

\* What the kind of a command tells about its fields.
<1>CommandFields.
      ASSUME NEW c \in DaemonCommand
      PROVE  /\ c.cmd \in {"TriggerSync", "PauseFolder", "ResumeFolder"} => c.folder \in Folder
             /\ c.cmd \in {"RemoveAccount", "ListSpaces"} => c.account \in Account
             /\ c.cmd = "AddFolders" =>
                  /\ c.account \in Account \cup {None} /\ c.spaces \in SUBSET Space
                  /\ \A s : [c EXCEPT !.spaces = @ \ {s}] \in DaemonCommand
                            /\ [c EXCEPT !.spaces = @ \ {s}].cmd = "AddFolders"
  BY DEF DaemonCommand

\* A command other than a removal is done.
<1>DoneFacts.
      ASSUME TypeOK, NEW name, Handles(name), Done
      PROVE  /\ Head(Pending) \in DaemonCommand /\ Head(Pending).cmd = name
             /\ inbox' \in Seq(DaemonCommand) /\ cmds' \in Seq(DaemonCommand) /\ Len(cmds') <= CmdCap
             /\ Leaving' \subseteq Leaving
             /\ name # "RemoveAccount" => Leaving' = Leaving
             /\ name = "RemoveAccount" => /\ Head(Pending).account \in Leaving
                                          /\ Leaving \ {Head(Pending).account} \subseteq Leaving'
             /\ link' = link /\ wire' = wire /\ accounts' = accounts /\ view' = view
             /\ raced' = raced /\ lost' = lost
  <2> USE <1>DoneFacts
  <2>1. <<>> \in Seq(DaemonCommand) /\ Len(<<>>) <= 1 /\ \A a : ~Removes(<<>>, a)
    BY SMT DEF Removes
  <2>2. Leaves(<<>>)
    BY DEF Done
  <2>3. /\ Head(Pending) \in DaemonCommand /\ Head(Pending).cmd = name
        /\ inbox' \in Seq(DaemonCommand) /\ cmds' \in Seq(DaemonCommand) /\ Len(cmds') <= CmdCap
        /\ Leaving' \subseteq Leaving
        /\ \A a \in Leaving : a \in Leaving' \/ (name = "RemoveAccount" /\ a = Head(Pending).account)
        /\ name = "RemoveAccount" /\ Head(Pending).account \in Account => Head(Pending).account \in Leaving
    BY <2>1, <2>2, <1>HandleFacts
  <2>4. name = "RemoveAccount" => Head(Pending).account \in Account
    BY <2>3, <1>CommandFields
  <2> QED
    BY <2>3, <2>4 DEF Handles

\* A command that removes no account leaves the removals on their way as they are.
<1>DoneOther.
      ASSUME TypeOK, NEW name, Handles(name), Done, name # "RemoveAccount"
      PROVE  /\ Head(Pending) \in DaemonCommand /\ Head(Pending).cmd = name
             /\ inbox' \in Seq(DaemonCommand) /\ cmds' \in Seq(DaemonCommand) /\ Len(cmds') <= CmdCap
             /\ Leaving' = Leaving /\ link' = link /\ wire' = wire /\ accounts' = accounts
             /\ view' = view /\ raced' = raced /\ lost' = lost
  BY <1>DoneOther, <1>DoneFacts

\* AddFolders keeps the invariant.
<1>AddFoldersInv.
      ASSUME AddFolders
      PROVE  Inv'
  <2> USE <1>AddFoldersInv
  \* A folder with a new id is added to an account.
  <2>TrailsAdd.
        ASSUME NEW r, NEW r2, NEW conf, NEW fold \in FolderMap,
               NEW a \in Account, NEW f \in Folder, NEW s \in Space, NEW e,
               Trails(r, conf, fold), More(r, r2, {e}), Adds(e, a, f, s),
               \A i \in DOMAIN r : \A b \in Account, t \in Space : ~Adds(r[i], b, f, t) /\ ~Takes(r[i], b, f)
        PROVE  Trails(r2, conf, [fold EXCEPT ![f] = [account |-> a, space |-> s]])
    <3> USE <2>TrailsAdd
    <3> DEFINE fold2 == [fold EXCEPT ![f] = [account |-> a, space |-> s]]
    <3>1. \A i \in DOMAIN r2 : i \in DOMAIN r \/ r2[i] = e
      BY DEF More
    <3>2. \A i \in DOMAIN r : i \in DOMAIN r2 /\ r2[i] = r[i]
      BY DEF More
    <3>3. fold2[f] = [account |-> a, space |-> s] /\ \A g \in Folder \ {f} : fold2[g] = fold[g]
      BY DEF FolderMap
    <3> HIDE DEF fold2
    <3>4. ASSUME NEW b \in Account, NEW g \in Folder, NEW t \in Space, NEW i \in DOMAIN r2,
                 Adds(r2[i], b, g, t)
          PROVE  \/ fold2[g] = [account |-> b, space |-> t] \/ b \notin conf
                 \/ \E j \in DOMAIN r2 : j > i /\ Takes(r2[j], b, g)
      <4>1. CASE r2[i] = e
        <5>1. b = a /\ g = f /\ t = s
          BY <3>4, <4>1 DEF Adds
        <5> QED
          BY <3>3, <5>1
      <4>2. CASE i \in DOMAIN r
        <5>1. g # f /\ Adds(r[i], b, g, t)
          BY <3>2, <3>4, <4>2
        <5>2. \/ fold[g] = [account |-> b, space |-> t] \/ b \notin conf
              \/ \E j \in DOMAIN r : j > i /\ Takes(r[j], b, g)
          BY <4>2, <5>1 DEF Trails
        <5> QED
          BY <3>2, <3>3, <5>1, <5>2
      <4> QED
        BY <3>1, <4>1, <4>2
    <3>5. ASSUME NEW b \in Account, NEW g \in Folder, NEW i \in DOMAIN r2, Takes(r2[i], b, g)
          PROVE  fold2[g] = None
      <4>1. i \in DOMAIN r /\ Takes(r[i], b, g)
        BY <3>1, <3>2, <3>5 DEF Takes, Adds
      <4>2. g # f /\ fold[g] = None
        BY <4>1 DEF Trails
      <4> QED
        BY <3>3, <4>2
    <3>6. Trails(r2, conf, fold2)
      BY <3>4, <3>5 DEF Trails
    <3> QED
      BY <3>6 DEF fold2

  \* A new folder and the event that tells of it.
  <2>MirrorAdd.
        ASSUME NEW list, NEW r, NEW r2, NEW conf, NEW fold \in FolderMap, NEW leave,
               NEW a \in Account, NEW f \in Folder, NEW s \in Space, NEW e,
               Mirrors(list, r, conf, fold, leave), More(r, r2, {e}), Adds(e, a, f, s), a \in conf,
               \A i \in DOMAIN r : \A b \in Account, t \in Space : ~Adds(r[i], b, f, t) /\ ~Takes(r[i], b, f),
               \A b \in Account, t \in Space : ~HasRow(list, b, f, t)
        PROVE  Mirrors(list, r2, conf, [fold EXCEPT ![f] = [account |-> a, space |-> s]], leave)
    <3> USE <2>MirrorAdd
    <3> DEFINE fold2 == [fold EXCEPT ![f] = [account |-> a, space |-> s]]
    <3>1. \A i \in DOMAIN r2 : i \in DOMAIN r \/ r2[i] = e
      BY DEF More
    <3>2. \A i \in DOMAIN r : i \in DOMAIN r2 /\ r2[i] = r[i]
      BY DEF More
    <3>3. fold2[f] = [account |-> a, space |-> s] /\ \A g \in Folder \ {f} : fold2[g] = fold[g]
      BY DEF FolderMap
    <3>4. Trails(r2, conf, fold2)
      BY <2>TrailsAdd DEF Mirrors
    <3> HIDE DEF fold2
    <3>5. AccountsMirror(list, r2, conf, leave)
      BY <3>1, <3>2, SMTT(30), ZenonT(30) DEF Mirrors, AccountsMirror, Joins, Adds
    <3>6. ASSUME a \notin leave
          PROVE  \E i \in DOMAIN r2 :
                   /\ Adds(r2[i], a, f, s)
                   /\ Has(list, a) \/ \E j \in DOMAIN r2 : j < i /\ Joins(r2[j], a)
      <4>1. PICK i \in DOMAIN r2 \ DOMAIN r : r2[i] = e
        BY DEF More
      <4>2. \A j \in DOMAIN r : j < i
        BY DEF More
      <4>3. Has(list, a) \/ \E j \in DOMAIN r : Joins(r[j], a)
        BY <3>6 DEF Mirrors, AccountsMirror
      <4> QED
        BY <3>2, <4>1, <4>2, <4>3
    <3>7. ASSUME NEW b \in Account, NEW g \in Folder, NEW t \in Space,
                 fold2[g] = [account |-> b, space |-> t], b \notin leave
          PROVE  \/ HasRow(list, b, g, t)
                 \/ \E i \in DOMAIN r2 :
                      /\ Adds(r2[i], b, g, t)
                      /\ Has(list, b) \/ \E j \in DOMAIN r2 : j < i /\ Joins(r2[j], b)
      <4>1. CASE g = f
        BY <3>3, <3>6, <3>7, <4>1, SMTT(30), ZenonT(30)
      <4>2. CASE g # f
        <5>1. fold[g] = [account |-> b, space |-> t]
          BY <3>3, <3>7, <4>2
        <5>2. \/ HasRow(list, b, g, t)
              \/ \E i \in DOMAIN r :
                   /\ Adds(r[i], b, g, t)
                   /\ Has(list, b) \/ \E j \in DOMAIN r : j < i /\ Joins(r[j], b)
          BY <3>7, <5>1 DEF Mirrors, FoldersMirror
        <5> QED
          BY <3>2, <5>2
      <4> QED
        BY <4>1, <4>2
    <3>8. ASSUME NEW b \in Account, NEW g \in Folder, NEW t \in Space, HasRow(list, b, g, t)
          PROVE  \/ fold2[g] = [account |-> b, space |-> t]
                 \/ \E i \in DOMAIN r2 : Takes(r2[i], b, g)
      <4>1. g # f
        BY <3>8
      <4>2. fold[g] = [account |-> b, space |-> t] \/ \E i \in DOMAIN r : Takes(r[i], b, g)
        BY <3>8, ZenonT(60) DEF Mirrors, FoldersMirror
      <4> QED
        BY <3>2, <3>3, <4>1, <4>2
    <3>9. FoldersMirror(list, r2, fold2, leave)
      BY <3>7, <3>8 DEF FoldersMirror
    <3>10. Mirrors(list, r2, conf, fold2, leave)
      BY <3>4, <3>5, <3>9 DEF Mirrors
    <3> QED
      BY <3>10 DEF fold2

  \* Saying that a folder with a new id is added goes with its addition.
  <2>AddKeeps.
        ASSUME NEW e, NEW a \in Account, NEW f \in Folder, NEW s \in Space, Adds(e, a, f, s),
               NEW conf, a \in conf, NEW fold \in FolderMap, NEW leave,
               NEW own, NEW us, f \notin us, NEW cred
        PROVE  LET fold2 == [fold EXCEPT ![f] = [account |-> a, space |-> s]]
               IN /\ KeepsTrails({e}, conf, fold, conf, fold2, own, us, cred)
                  /\ KeepsMirror({e}, conf, fold, leave, conf, fold2, leave, own, us, cred)
    <3> USE <2>AddKeeps
    <3> DEFINE fold2 == [fold EXCEPT ![f] = [account |-> a, space |-> s]]
    <3>1. ASSUME NEW r, Fine(r, own, us, cred)
          PROVE  \A i \in DOMAIN r : \A b \in Account, t \in Space : ~Adds(r[i], b, f, t) /\ ~Takes(r[i], b, f)
      BY <3>1 DEF Fine, EventFits, Adds, Takes
    <3>2. ASSUME NEW list, Fits(list, own, us, cred)
          PROVE  \A b \in Account, t \in Space : ~HasRow(list, b, f, t)
      BY <3>2 DEF Fits, HasRow
    <3>3. ASSUME NEW r, NEW r2, Trails(r, conf, fold), Fine(r, own, us, cred), More(r, r2, {e})
          PROVE  Trails(r2, conf, fold2)
      BY <3>1, <3>3, <2>TrailsAdd
    <3>4. ASSUME NEW list, NEW r, NEW r2, Mirrors(list, r, conf, fold, leave),
                 Fits(list, own, us, cred), Fine(r, own, us, cred), More(r, r2, {e})
          PROVE  Mirrors(list, r2, conf, fold2, leave)
      BY <3>1, <3>2, <3>4, <2>MirrorAdd
    <3> HIDE DEF fold2
    <3>5. /\ KeepsTrails({e}, conf, fold, conf, fold2, own, us, cred)
          /\ KeepsMirror({e}, conf, fold, leave, conf, fold2, leave, own, us, cred)
      BY <3>3, <3>4 DEF KeepsTrails, KeepsMirror
    <3> QED
      BY <3>5 DEF fold2

  \* A folder that is added: its id is new, and it is asked to run.
  <2>FolderAdded.
        ASSUME NEW a \in Account, a \in configured, NEW s \in Space, NEW f \in Folder \ used,
               used' = used \cup {f},
               folder' = [folder EXCEPT ![f] = [account |-> a, space |-> s]],
               sched' = [sched EXCEPT ![f] = request_sync(add_folder(sched[f]))],
               broadcast(<<[ev |-> "AccountFolderAdded", account |-> a, folder |-> f, space |-> s]>>),
               UNCHANGED <<configured, credentials, running, announcing, tasks, unanswered, dropped,
                           link, wire, accounts, view, raced, lost>>,
               inbox' \in Seq(DaemonCommand), cmds' \in Seq(DaemonCommand), Len(cmds') <= CmdCap,
               Leaving' = Leaving
        PROVE  Inv'
    <3> USE <2>FolderAdded
    <3>1. TypeOK /\ Roles /\ folder \in FolderMap
      BY DEF Inv, TypeOK, FolderMap
    <3> DEFINE e == [ev |-> "AccountFolderAdded", account |-> a, folder |-> f, space |-> s]
    <3>2. broadcast(<<e>>)
      OBVIOUS
    <3>3. /\ link' = link /\ wire' = wire /\ accounts' = accounts /\ view' = view /\ raced' = raced
          /\ lost' = lost /\ unanswered' = unanswered /\ dropped' = dropped
          /\ listing' = listing /\ signing' = signing
          /\ running' = running /\ announcing' = announcing
          /\ configured' = configured /\ credentials' = credentials
      BY DEF tasks
    <3>4. e \in DaemonEvent /\ e.ev = "AccountFolderAdded" /\ e.account = a /\ e.folder = f /\ e.space = s
      BY DEF DaemonEvent
    <3> HIDE DEF e
    <3>5. /\ <<e>> \in Seq(DaemonEvent) /\ Range(<<e>>) = {e} /\ Hears(<<e>>)
          /\ queue' \in Seq(DaemonEvent) /\ Len(queue') <= BroadcastCap /\ lagged' \in BOOLEAN
      BY <3>1, <3>2, <3>4, <1>OneHeard
    <3>6. PICK s1 \in FolderScheduleState : s1 = add_folder(sched[f])
      <4>1. sched[f] \in FolderScheduleState \cup {None}
        BY <3>1 DEF TypeOK
      <4> QED
        BY <4>1, <1>FlagTypes
    <3>7. PICK s2 \in FolderScheduleState : s2 = request_sync(s1)
      <4>1. s1 # None
        BY NoneAssumption
      <4> QED
        BY <4>1, <1>FlagTypes
    <3>8. /\ sched' \in [Folder -> FolderScheduleState \cup {None}]
          /\ sched'[f] = s2 /\ s2 # None /\ \A g \in Folder \ {f} : sched'[g] = sched[g]
      BY <3>1, <3>6, <3>7, NoneAssumption DEF TypeOK
    <3>9. \A g \in Folder : g \in Reals => g \in Reals'
      <4>1. CASE sched[f] = None
        <5>1. s1 = Default
          BY <3>6, <4>1 DEF add_folder, Known
        <5>2. s2.pending = TRUE
          BY <3>7, <5>1, NoneAssumption DEF Default, request_sync, Known, FolderScheduleState
        <5> QED
          BY <3>3, <3>8, <5>2 DEF Reals
      <4>2. CASE sched[f] # None
        <5>1. s1 = sched[f] /\ s1 # None
          BY <3>6, <4>2, NoneAssumption DEF add_folder, Known
        <5>2. s2 \in {pause(s1), resume(s1), request_sync(s1)}
          BY <3>7
        <5>3. (s1.running => s2.running) /\ (s1.pending => s2.pending)
          BY <5>1, <5>2, <1>FlagsKept, SMT
        <5> QED
          BY <3>3, <3>8, <4>2, <5>1, <5>3 DEF Reals
      <4> QED
        BY <4>1, <4>2
    <3>10. TypeOK'
      <4>1. folder' \in [Folder -> {None} \cup [account : Account, space : Space]]
        BY <3>1 DEF FolderMap
      <4>2. used' \subseteq Folder
        BY <3>1 DEF TypeOK
      <4> QED
        BY <3>1, <3>3, <3>5, <3>8, <4>1, <4>2 DEF TypeOK
    <3>11. Roles'
      <4>1. \A g \in used' : sched'[g] # None
        BY <3>1, <3>8 DEF Roles, TypeOK
      <4> QED
        BY <3>1, <3>3, <4>1 DEF Roles
    <3>12. PICK own \in [Folder -> Account \cup {None}] : Agreed(own)
      BY DEF Inv, Owned
    <3>13. Owned'
      <4> DEFINE own2 == [own EXCEPT ![f] = a]
      <4>1. /\ own2 \in [Folder -> Account \cup {None}] /\ own2[f] = a
            /\ \A g \in Folder \ {f} : own2[g] = own[g]
        BY <3>12
      <4> HIDE DEF own2
      <4>2. a \in credentials'
        BY <3>1, <3>3 DEF Roles
      <4>3. \A d \in Range(<<e>>) : EventFits(d, own2, used', credentials')
        BY <3>4, <3>5, <4>1, <4>2, ZenonT(60) DEF EventFits
      <4>4. \A g \in Folder : folder'[g] # None =>
              g \in used' /\ own2[g] = folder'[g].account /\ own2[g] \in configured'
        <5>1. \A g \in Folder : folder'[g] = IF g = f THEN [account |-> a, space |-> s] ELSE folder[g]
          BY <3>1 DEF FolderMap
        <5> QED
          BY <3>3, <3>12, <4>1, <5>1, SMTT(30), ZenonT(30) DEF Agreed
      <4>5. used \subseteq used' /\ credentials \subseteq credentials' /\ \A g \in used : own2[g] = own[g]
        BY <3>1, <3>3, <4>1 DEF TypeOK
      <4> QED
        BY <3>1, <3>3, <3>5, <3>12, <4>1, <4>3, <4>4, <4>5, <1>SaidOwned
    <3>14. /\ KeepsTrails(Range(<<e>>), configured, folder, configured', folder', own, used, credentials)
           /\ KeepsMirror(Range(<<e>>), configured, folder, Leaving, configured', folder', Leaving',
                          own, used, credentials)
      <4>1. Adds(e, a, f, s) /\ f \notin used
        BY <3>4 DEF Adds
      <4>2. PICK fold2 : fold2 = [folder EXCEPT ![f] = [account |-> a, space |-> s]]
        OBVIOUS
      <4>3. /\ KeepsTrails({e}, configured, folder, configured, fold2, own, used, credentials)
            /\ KeepsMirror({e}, configured, folder, Leaving, configured, fold2,
                           Leaving, own, used, credentials)
        BY <3>1, <4>1, <4>2, <2>AddKeeps
      <4>4. folder' = fold2
        BY <4>2
      <4> QED
        BY <3>3, <3>5, <4>3, <4>4
    <3>15. QueueInv' /\ CopyInv'
      <4>1. KeepsPace(Range(<<e>>), Reals, Reals') /\ \A d \in Range(<<e>>) : d.ev # "AccountSnapshot"
        <5>1. Reals \subseteq Folder
          BY DEF Reals
        <5> QED
          BY <3>4, <3>5, <3>9, <5>1 DEF KeepsPace, Starts
      <4>2. configured \ Leaving \subseteq configured' \ Leaving'
        BY <3>3
      <4>3. \A d \in Range(<<e>>) : \A b \in Account : Joins(d, b) =>
              b \in configured' \ Leaving' /\ ~Heard(b)
        BY <3>4, <3>5 DEF Joins
      <4>4. QueueInv /\ CopyInv
        BY DEF Inv
      <4> QED
        BY <3>1, <3>3, <3>5, <3>12, <3>14, <4>1, <4>2, <4>3, <4>4, <1>SaidStep
    <3> QED
      BY <3>10, <3>11, <3>13, <3>15 DEF Inv

  <2>1. /\ TypeOK /\ configured \subseteq credentials /\ configured \subseteq Account
        /\ signing \subseteq Account \ credentials /\ lost \in BOOLEAN /\ unanswered \in BOOLEAN
    BY InvTypes DEF TypeOK
  <2>2. Handles("AddFolders")
    BY DEF AddFolders
  <2>3. /\ UNCHANGED <<configured, credentials, running, announcing, tasks, unanswered, dropped,
                       link, wire, accounts, view, raced, lost>>
        /\ signing' = signing /\ listing' = listing /\ lost' = lost /\ unanswered' = unanswered
    BY DEF AddFolders, Handles, tasks
  <2>4. PICK c : c = Head(Pending)
    OBVIOUS
  <2>5. c.cmd = "AddFolders"
    BY <2>4 DEF AddFolders, Handles
  <2>6. c \in DaemonCommand
    <3>1. PICK q \in Seq(DaemonCommand) : q = Pending /\ q # <<>>
      <4>1. inbox \in Seq(DaemonCommand) /\ cmds \in Seq(DaemonCommand)
        BY <2>1 DEF TypeOK
      <4>2. inbox # <<>> \/ cmds # <<>>
        BY <2>2 DEF Handles
      <4>3. inbox \o cmds \in Seq(DaemonCommand) /\ Len(inbox \o cmds) = Len(inbox) + Len(cmds)
        BY <4>1, SMT
      <4>4. Len(inbox) \in Nat /\ Len(cmds) \in Nat /\ (Len(inbox) > 0 \/ Len(cmds) > 0)
        BY <4>1, <4>2, SMT
      <4>5. inbox \o cmds # <<>>
        BY <4>3, <4>4, SMT
      <4> QED
        BY <4>3, <4>5 DEF Pending
    <3> QED
      BY <2>4, <3>1, SMT
  <2>7. /\ c.account \in Account \cup {None} /\ c.spaces \in SUBSET Space
        /\ \A s : [c EXCEPT !.spaces = @ \ {s}] \in DaemonCommand
                  /\ [c EXCEPT !.spaces = @ \ {s}].cmd = "AddFolders"
    BY <2>5, <2>6, <1>CommandFields
  <2>8. ASSUME NEW rest \in Seq(DaemonCommand), Len(rest) <= 1, Leaves(rest), \A a : ~Removes(rest, a)
        PROVE  /\ inbox' \in Seq(DaemonCommand) /\ cmds' \in Seq(DaemonCommand) /\ Len(cmds') <= CmdCap
               /\ Leaving' = Leaving
    <3>1. /\ inbox' \in Seq(DaemonCommand) /\ cmds' \in Seq(DaemonCommand) /\ Len(cmds') <= CmdCap
          /\ Leaving' \subseteq Leaving /\ \A a \in Leaving : a \in Leaving'
      BY <2>1, <2>2, <2>8, <1>HandleFacts
    <3> QED
      BY <3>1
  <2>9. ASSUME NEW s \in c.spaces,
               Leaves(IF c.spaces = {s} THEN <<>> ELSE <<[c EXCEPT !.spaces = @ \ {s}]>>)
        PROVE  /\ inbox' \in Seq(DaemonCommand) /\ cmds' \in Seq(DaemonCommand) /\ Len(cmds') <= CmdCap
               /\ Leaving' = Leaving
    <3>1. CASE c.spaces = {s}
      <4>1. <<>> \in Seq(DaemonCommand) /\ Len(<<>>) <= 1 /\ \A a : ~Removes(<<>>, a)
        BY SMT DEF Removes
      <4>2. Leaves(<<>>)
        BY <2>9, <3>1 DEF Leaves
      <4> QED
        BY <2>8, <4>1, <4>2
    <3>2. CASE c.spaces # {s}
      <4>1. PICK d \in DaemonCommand : d = [c EXCEPT !.spaces = @ \ {s}] /\ d.cmd = "AddFolders"
        BY <2>7
      <4>2. Leaves(<<d>>)
        BY <2>9, <3>2, <4>1 DEF Leaves
      <4>3. <<d>> \in Seq(DaemonCommand) /\ Len(<<d>>) <= 1 /\ \A a : ~Removes(<<d>>, a)
        <5>1. <<d>> \in Seq(DaemonCommand) /\ Len(<<d>>) = 1
          BY RemovesOne
        <5>2. ASSUME NEW a PROVE ~Removes(<<d>>, a)
          BY <4>1, RemovesOne
        <5> QED
          BY <5>1, <5>2, SMT
      <4> QED
        BY <2>8, <4>2, <4>3
    <3> QED
      BY <3>1, <3>2
  <2>10. ASSUME NEW a \in Account \cup {None}, broadcast(<<Event("AccountSpaceFailed", a)>>),
                UNCHANGED <<used, folder, sched>>,
                inbox' \in Seq(DaemonCommand), cmds' \in Seq(DaemonCommand), Len(cmds') <= CmdCap,
                Leaving' = Leaving
         PROVE  Inv'
    <3> DEFINE e == Event("AccountSpaceFailed", a)
    <3>1. e \in DaemonEvent /\ e.ev = "AccountSpaceFailed"
      BY DEF Event, DaemonEvent
    <3>2. broadcast(<<e>>)
      BY <2>10
    <3> HIDE DEF e
    <3>3. /\ <<e>> \in Seq(DaemonEvent) /\ Range(<<e>>) = {e} /\ Hears(<<e>>)
          /\ queue' \in Seq(DaemonEvent) /\ Len(queue') <= BroadcastCap /\ lagged' \in BOOLEAN
      BY <2>1, <3>1, <3>2, <1>OneHeard
    <3>4. \A d \in Range(<<e>>) : d.ev \in {"AccountAddFailed", "SpacesListed", "AccountSpaceFailed"}
      BY <3>1, <3>3
    <3>5. UNCHANGED <<config, jobs, dropped, link, wire, accounts, view, raced>>
      BY <2>3, <2>10 DEF config, jobs
    <3>6. /\ signing' \subseteq Account \ credentials /\ listing' \subseteq Account
          /\ lost' \in BOOLEAN /\ unanswered' \in BOOLEAN
      BY <2>1, <2>3 DEF TypeOK
    <3> QED
      BY <2>10, <3>3, <3>4, <3>5, <3>6, <1>TaskStep
  <2>11. CASE c.account \in configured
    <3>1. PICK a \in Account : a = c.account
      BY <2>1, <2>11
    <3>2. Servable(Head(Pending).account)
      BY <2>1, <2>4, <2>11, ZenonT(60) DEF Servable
    <3>3. PICK s \in c.spaces :
            /\ AddFolder(c.account, s)
            /\ Leaves(IF c.spaces = {s} THEN <<>> ELSE <<[c EXCEPT !.spaces = @ \ {s}]>>)
      BY <2>4, <3>2, ZenonT(60) DEF AddFolders, AddFolder, Leaves, broadcast
    <3>4. /\ inbox' \in Seq(DaemonCommand) /\ cmds' \in Seq(DaemonCommand) /\ Len(cmds') <= CmdCap
          /\ Leaving' = Leaving
      BY <2>9, <3>3
    <3>5. CASE Upset /\ broadcast(<<Event("AccountSpaceFailed", c.account)>>)
               /\ UNCHANGED <<used, folder, sched>>
      <4>1. broadcast(<<Event("AccountSpaceFailed", a)>>)
        BY <3>1, <3>5 DEF broadcast
      <4> QED
        BY <2>10, <3>4, <3>5, <4>1
    <3>6. ASSUME NEW f \in Folder \ used,
                 used' = used \cup {f},
                 folder' = [folder EXCEPT ![f] = [account |-> c.account, space |-> s]],
                 sched' = [sched EXCEPT ![f] = request_sync(add_folder(@))],
                 broadcast(<<[ev |-> "AccountFolderAdded", account |-> c.account, folder |-> f,
                              space |-> s]>>)
          PROVE  Inv'
      <4>1. /\ folder' = [folder EXCEPT ![f] = [account |-> a, space |-> s]]
            /\ sched' = [sched EXCEPT ![f] = request_sync(add_folder(sched[f]))]
            /\ broadcast(<<[ev |-> "AccountFolderAdded", account |-> a, folder |-> f, space |-> s]>>)
        BY <3>1, <3>6 DEF broadcast
      <4>2. s \in Space /\ a \in configured
        BY <2>7, <2>11, <3>1
      <4> QED
        BY <2>3, <3>4, <3>6, <4>1, <4>2, <2>FolderAdded
    <3> QED
      BY <3>3, <3>5, <3>6 DEF AddFolder
  <2>12. CASE c.account \notin configured
    <3>1. ~Servable(Head(Pending).account)
      BY <2>4, <2>12 DEF Servable
    <3>2. PICK a \in Account \cup {None} : a = c.account
      BY <2>7
    <3>3. /\ broadcast(<<Event("AccountSpaceFailed", a)>>) /\ Done
          /\ UNCHANGED <<used, folder, sched>>
      BY <2>4, <3>1, <3>2 DEF AddFolders, broadcast
    <3>4. /\ inbox' \in Seq(DaemonCommand) /\ cmds' \in Seq(DaemonCommand) /\ Len(cmds') <= CmdCap
          /\ Leaving' = Leaving
      BY <2>1, <2>2, <3>3, <1>DoneOther
    <3> QED
      BY <2>10, <3>3, <3>4
  <2> QED
    BY <2>11, <2>12

\* AddAccount keeps the invariant.
<1>AddAccountInv.
      ASSUME AddAccount
      PROVE  Inv'
  <2> USE <1>AddAccountInv
  <2>1. TypeOK /\ signing \subseteq Account \ credentials /\ lost \in BOOLEAN /\ unanswered \in BOOLEAN
    BY InvTypes
  <2>2. Handles("AddAccount") /\ Done
    BY DEF AddAccount
  <2>3. /\ inbox' \in Seq(DaemonCommand) /\ cmds' \in Seq(DaemonCommand) /\ Len(cmds') <= CmdCap
        /\ Leaving' = Leaving /\ lost' = lost
        /\ UNCHANGED <<link, wire, accounts, view, raced>>
    BY <2>1, <2>2, <1>DoneOther
  <2>4. UNCHANGED <<config, jobs, dropped, link, wire, accounts, view, raced>>
        /\ listing' = listing /\ unanswered' \in {unanswered, TRUE}
    BY <2>3 DEF AddAccount
  <2>5. /\ listing' \subseteq Account /\ lost' \in BOOLEAN /\ unanswered' \in BOOLEAN
    BY <2>1, <2>3, <2>4 DEF TypeOK
  <2>6. PICK a \in Account \ (configured \cup signing \cup credentials) :
          \/ signing' = signing \cup {a} /\ UNCHANGED <<queue, lagged>>
          \/ Upset /\ broadcast(<<Event("AccountAddFailed", a)>>) /\ UNCHANGED signing
          \/ UNCHANGED <<signing, queue, lagged>>
    BY DEF AddAccount
  <2>7. signing' \subseteq Account \ credentials
    BY <2>1, <2>6
  <2>8. CASE UNCHANGED <<queue, lagged>>
    <3>1. /\ Hears(<<>>) /\ queue' \in Seq(DaemonEvent) /\ Len(queue') <= BroadcastCap
          /\ lagged' \in BOOLEAN
      BY <2>1, <2>8, <1>SilenceHears
    <3>2. <<>> \in Seq(DaemonEvent) /\ Range(<<>>) = {}
      BY <1>NoneSaid
    <3>3. \A e \in Range(<<>>) : e.ev \in {"AccountAddFailed", "SpacesListed", "AccountSpaceFailed"}
      BY <3>2
    <3> QED
      BY <2>3, <2>4, <2>5, <2>7, <3>1, <3>2, <3>3, <1>TaskStep
  <2>9. CASE Upset /\ broadcast(<<Event("AccountAddFailed", a)>>) /\ UNCHANGED signing
    <3> DEFINE e == Event("AccountAddFailed", a)
    <3>1. e \in DaemonEvent /\ e.ev = "AccountAddFailed"
      BY DEF Event, DaemonEvent
    <3>2. broadcast(<<e>>)
      BY <2>9
    <3> HIDE DEF e
    <3>3. /\ <<e>> \in Seq(DaemonEvent) /\ Range(<<e>>) = {e} /\ Hears(<<e>>)
          /\ queue' \in Seq(DaemonEvent) /\ Len(queue') <= BroadcastCap /\ lagged' \in BOOLEAN
      BY <2>1, <3>1, <3>2, <1>OneHeard
    <3>4. \A d \in Range(<<e>>) : d.ev \in {"AccountAddFailed", "SpacesListed", "AccountSpaceFailed"}
      BY <3>1, <3>3
    <3> QED
      BY <2>3, <2>4, <2>5, <2>7, <3>3, <3>4, <1>TaskStep
  <2> QED
    BY <2>6, <2>8, <2>9

\* ListSpaces keeps the invariant.
<1>ListSpacesInv.
      ASSUME ListSpaces
      PROVE  Inv'
  <2> USE <1>ListSpacesInv
  <2>1. TypeOK /\ signing \subseteq Account \ credentials /\ lost \in BOOLEAN /\ unanswered \in BOOLEAN
    BY InvTypes, SMT
  <2>2. Handles("ListSpaces") /\ Done
    BY DEF ListSpaces
  <2>3. /\ Head(Pending) \in DaemonCommand /\ Head(Pending).cmd = "ListSpaces"
        /\ inbox' \in Seq(DaemonCommand) /\ cmds' \in Seq(DaemonCommand) /\ Len(cmds') <= CmdCap
        /\ Leaving' = Leaving /\ lost' = lost
        /\ UNCHANGED <<link, wire, accounts, view, raced>>
    BY <2>1, <2>2, <1>DoneOther
  <2>4. UNCHANGED <<config, jobs, dropped, link, wire, accounts, view, raced>> /\ signing' = signing
    BY <2>3 DEF ListSpaces
  <2>5. PICK a \in Account : a = Head(Pending).account
    BY <2>3, <1>CommandFields
  <2>6. \/ listing' = listing \cup {a} /\ UNCHANGED <<queue, lagged, unanswered>>
        \/ broadcast(<<Event("AccountSpaceFailed", a)>>) /\ unanswered' = TRUE /\ UNCHANGED listing
    BY <2>5 DEF ListSpaces, broadcast
  <2>7. /\ listing' \subseteq Account /\ lost' \in BOOLEAN /\ unanswered' \in BOOLEAN
        /\ signing' \subseteq Account \ credentials
    BY <2>1, <2>3, <2>4, <2>6 DEF TypeOK
  <2>8. CASE UNCHANGED <<queue, lagged, unanswered>>
    <3>1. /\ Hears(<<>>) /\ queue' \in Seq(DaemonEvent) /\ Len(queue') <= BroadcastCap
          /\ lagged' \in BOOLEAN
      BY <2>1, <2>8, <1>SilenceHears
    <3>2. <<>> \in Seq(DaemonEvent) /\ Range(<<>>) = {}
      BY <1>NoneSaid
    <3>3. \A e \in Range(<<>>) : e.ev \in {"AccountAddFailed", "SpacesListed", "AccountSpaceFailed"}
      BY <3>2
    <3> QED
      BY <2>3, <2>4, <2>7, <3>1, <3>2, <3>3, <1>TaskStep
  <2>9. CASE broadcast(<<Event("AccountSpaceFailed", a)>>)
    <3> DEFINE e == Event("AccountSpaceFailed", a)
    <3>1. e \in DaemonEvent /\ e.ev = "AccountSpaceFailed"
      BY DEF Event, DaemonEvent
    <3>2. broadcast(<<e>>)
      BY <2>9
    <3> HIDE DEF e
    <3>3. /\ <<e>> \in Seq(DaemonEvent) /\ Range(<<e>>) = {e} /\ Hears(<<e>>)
          /\ queue' \in Seq(DaemonEvent) /\ Len(queue') <= BroadcastCap /\ lagged' \in BOOLEAN
      BY <2>1, <3>1, <3>2, <1>OneHeard
    <3>4. \A d \in Range(<<e>>) : d.ev \in {"AccountAddFailed", "SpacesListed", "AccountSpaceFailed"}
      BY <3>1, <3>3
    <3> QED
      BY <2>3, <2>4, <2>7, <3>3, <3>4, <1>TaskStep
  <2> QED
    BY <2>6, <2>8, <2>9

\* TriggerSync keeps the invariant: the start it announces is requested or turned down.
<1>TriggerSyncInv.
      ASSUME TriggerSync
      PROVE  Inv'
  <2> USE <1>TriggerSyncInv
  <2> DEFINE ev(f) == [ev |-> "SyncStarted", folder |-> f]
  <2>1. TypeOK /\ Handles("TriggerSync") /\ Done
    BY DEF Inv, TriggerSync
  <2>2. /\ Head(Pending) \in DaemonCommand /\ Head(Pending).cmd = "TriggerSync"
        /\ inbox' \in Seq(DaemonCommand) /\ cmds' \in Seq(DaemonCommand) /\ Len(cmds') <= CmdCap
        /\ Leaving' = Leaving
        /\ link' = link /\ wire' = wire /\ accounts' = accounts /\ view' = view
        /\ raced' = raced /\ lost' = lost
    BY <2>1, <1>DoneOther
  <2>3. PICK f \in Folder : f = Head(Pending).folder
    BY <2>2, <1>CommandFields
  <2>4. /\ sched' = [sched EXCEPT ![f] = force_request_sync(sched[f])]
        /\ dropped' = IF sched'[f].pending THEN dropped \ {f} ELSE dropped \cup {f}
        /\ broadcast(<<ev(f)>>)
        /\ UNCHANGED <<config, running, announcing, tasks, unanswered, counts>>
    BY <2>3 DEF TriggerSync, broadcast
  <2>5. /\ configured' = configured /\ folder' = folder /\ used' = used /\ credentials' = credentials
        /\ running' = running /\ announcing' = announcing /\ signing' = signing /\ listing' = listing
        /\ unanswered' = unanswered
    BY <2>4 DEF config, tasks
  <2>6. ev(f) \in DaemonEvent
    BY DEF DaemonEvent
  <2>7. <<ev(f)>> \in Seq(DaemonEvent) /\ Range(<<ev(f)>>) = {ev(f)}
    BY <2>6, <1>OneSaid
  <2>8. /\ Hears(<<ev(f)>>) /\ queue' \in Seq(DaemonEvent) /\ Len(queue') <= BroadcastCap
        /\ lagged' \in BOOLEAN
    BY <2>1, <2>4, <2>7, <1>BroadcastHears
  <2>9. sched[f] \in FolderScheduleState \cup {None}
    BY <2>1 DEF TypeOK
  <2>10. /\ sched' \in [Folder -> FolderScheduleState \cup {None}]
         /\ sched'[f] = force_request_sync(sched[f])
         /\ \A g \in Folder \ {f} : sched'[g] = sched[g]
         /\ \A g \in Folder : sched[g] # None => sched'[g] # None
    <3>1. force_request_sync(sched[f]) \in FolderScheduleState \cup {None}
          /\ (sched[f] # None => force_request_sync(sched[f]) # None)
      BY <2>9, <1>FlagTypes, NoneAssumption, SMT
    <3> QED
      BY <2>1, <2>4, <3>1 DEF TypeOK
  <2>11. TypeOK'
    <3>1. dropped' \subseteq Folder
      BY <2>1, <2>4 DEF TypeOK
    <3> QED
      BY <2>1, <2>2, <2>5, <2>8, <2>10, <3>1 DEF TypeOK
  <2>12. Roles'
    <3>1. used \subseteq Folder
      BY <2>1 DEF TypeOK
    <3> QED
      BY <2>2, <2>5, <2>10, <3>1 DEF Inv, Roles
  <2>13. KeepsPace({ev(f)}, Reals, Reals')
    <3>1. f \in Reals'
      BY <2>4 DEF Reals
    <3>2. \A g \in Folder \ {f} : g \in Reals => g \in Reals'
      BY <2>4, <2>5, <2>10 DEF Reals
    <3>3. Reals \subseteq Folder
      BY DEF Reals
    <3> QED
      BY <3>1, <3>2, <3>3, SMT DEF KeepsPace, Starts
  <2>14. Owned' /\ QueueInv' /\ CopyInv'
    <3>1. Neutral(Range(<<ev(f)>>)) /\ \A e \in Range(<<ev(f)>>) : e.ev # "AccountSnapshot"
      BY <2>7, SMT DEF Neutral
    <3>2. KeepsPace(Range(<<ev(f)>>), Reals, Reals')
      BY <2>7, <2>13
    <3> QED
      BY <2>2, <2>5, <2>7, <2>8, <3>1, <3>2, <1>QuietStep
  <2> QED
    BY <2>11, <2>12, <2>14 DEF Inv

\* A step that only changes the flags of a folder, and takes no run and no request away.
<1>FlagStep.
      ASSUME NEW f \in Folder, NEW s2 \in FolderScheduleState \cup {None},
             sched' = [sched EXCEPT ![f] = s2],
             sched[f] = None => s2 = None,
             sched[f] # None => /\ s2 # None /\ (sched[f].running => s2.running)
                                /\ (sched[f].pending => s2.pending),
             UNCHANGED <<config, running, announcing, tasks, queue, lagged, unanswered, dropped,
                         link, wire, accounts, view, raced, lost>>,
             inbox' \in Seq(DaemonCommand), cmds' \in Seq(DaemonCommand), Len(cmds') <= CmdCap,
             Leaving' = Leaving
      PROVE  Inv'
  <2> USE <1>FlagStep
  <2>1. TypeOK /\ signing \subseteq Account \ credentials /\ lost \in BOOLEAN /\ unanswered \in BOOLEAN
    BY InvTypes
  <2>2. /\ Hears(<<>>) /\ queue' \in Seq(DaemonEvent) /\ Len(queue') <= BroadcastCap
        /\ lagged' \in BOOLEAN
    BY <2>1, <1>SilenceHears
  <2>3. <<>> \in Seq(DaemonEvent) /\ Range(<<>>) = {}
    BY <1>NoneSaid
  <2>4. /\ sched' \in [Folder -> FolderScheduleState \cup {None}]
        /\ sched'[f] = s2 /\ \A g \in Folder \ {f} : sched'[g] = sched[g]
    BY <2>1 DEF TypeOK
  <2>5. /\ running' = running /\ announcing' = announcing /\ signing' = signing /\ listing' = listing
        /\ dropped' = dropped /\ lost' = lost /\ unanswered' = unanswered
    BY DEF tasks
  <2>6. \A g \in Folder : g \in Reals => g \in Reals'
    BY <2>4, <2>5 DEF Reals
  <2>7. /\ Neutral(Range(<<>>)) /\ \A e \in Range(<<>>) : e.ev # "AccountSnapshot"
        /\ KeepsPace(Range(<<>>), Reals, Reals')
    <3>1. Reals \subseteq Folder
      BY DEF Reals
    <3> QED
      BY <2>3, <2>6, <3>1 DEF Neutral, KeepsPace
  <2>8. \A g \in Folder : sched[g] # None => sched'[g] # None
    BY <2>4
  <2>9. /\ running' \subseteq Folder /\ announcing' \in [Folder -> [BOOLEAN -> {0, 1}]]
        /\ dropped' \subseteq Folder /\ signing' \subseteq Account \ credentials
        /\ listing' \subseteq Account /\ lost' \in BOOLEAN /\ unanswered' \in BOOLEAN
    BY <2>1, <2>5 DEF TypeOK
  <2>10. UNCHANGED <<config, link, wire, accounts, view, raced>>
    OBVIOUS
  <2> QED
    BY <2>2, <2>3, <2>4, <2>7, <2>8, <2>9, <2>10, <1>QuietInv

\* A poll that asks for a run keeps the invariant.
<1>PollInv.
      ASSUME NEW f \in Folder, poll(f)
      PROVE  Inv'
  <2> USE <1>PollInv
  <2>1. TypeOK
    BY DEF Inv
  <2>2. /\ UNCHANGED <<link, wire, accounts, view, raced, lost>>
        /\ inbox' = inbox /\ cmds' = cmds
    BY DEF poll, daemonOnly
  <2>3. PICK t \in {pause(sched[f]), resume(sched[f]), request_sync(sched[f])} : t = request_sync(sched[f])
    OBVIOUS
  <2>4. sched' = [sched EXCEPT ![f] = t]
    BY <2>3 DEF poll
  <2>5. sched[f] \in FolderScheduleState \cup {None}
    BY <2>1 DEF TypeOK
  <2>6. /\ t \in FolderScheduleState \cup {None} /\ (sched[f] = None => t = None)
        /\ sched[f] # None => /\ t # None /\ (sched[f].running => t.running)
                              /\ (sched[f].pending => t.pending)
    BY <2>5, <1>FlagsKept
  <2>7. /\ inbox' \in Seq(DaemonCommand) /\ cmds' \in Seq(DaemonCommand) /\ Len(cmds') <= CmdCap
        /\ Leaving' = Leaving
    BY <2>1, <2>2 DEF TypeOK, Leaving
  <2>8. UNCHANGED <<config, running, announcing, tasks, queue, lagged, unanswered, dropped,
                    link, wire, accounts, view, raced, lost>>
    BY <2>2 DEF poll, daemonOnly
  <2> QED
    BY <2>4, <2>6, <2>7, <2>8, <1>FlagStep

\* PauseFolder keeps the invariant.
<1>PauseFolderInv.
      ASSUME PauseFolder
      PROVE  Inv'
  <2> USE <1>PauseFolderInv
  <2>1. TypeOK /\ Handles("PauseFolder") /\ Done
    BY DEF Inv, PauseFolder
  <2>2. /\ Head(Pending) \in DaemonCommand /\ Head(Pending).cmd = "PauseFolder"
        /\ inbox' \in Seq(DaemonCommand) /\ cmds' \in Seq(DaemonCommand) /\ Len(cmds') <= CmdCap
        /\ Leaving' = Leaving
        /\ UNCHANGED <<link, wire, accounts, view, raced, lost>>
    BY <2>1, <1>DoneOther
  <2>3. PICK f \in Folder : f = Head(Pending).folder
    BY <2>2, <1>CommandFields
  <2>4. PICK t \in {pause(sched[f]), resume(sched[f]), request_sync(sched[f])} : t = pause(sched[f])
    OBVIOUS
  <2>5. sched' = [sched EXCEPT ![f] = t]
    BY <2>3, <2>4 DEF PauseFolder
  <2>6. sched[f] \in FolderScheduleState \cup {None}
    BY <2>1 DEF TypeOK
  <2>7. /\ t \in FolderScheduleState \cup {None} /\ (sched[f] = None => t = None)
        /\ sched[f] # None => /\ t # None /\ (sched[f].running => t.running)
                              /\ (sched[f].pending => t.pending)
    BY <2>6, <1>FlagsKept
  <2>8. UNCHANGED <<config, running, announcing, tasks, queue, lagged, unanswered, dropped,
                    link, wire, accounts, view, raced, lost>>
    BY <2>2 DEF PauseFolder
  <2> QED
    BY <2>2, <2>5, <2>7, <2>8, <1>FlagStep

\* ResumeFolder keeps the invariant.
<1>ResumeFolderInv.
      ASSUME ResumeFolder
      PROVE  Inv'
  <2> USE <1>ResumeFolderInv
  <2>1. TypeOK /\ Handles("ResumeFolder") /\ Done
    BY DEF Inv, ResumeFolder
  <2>2. /\ Head(Pending) \in DaemonCommand /\ Head(Pending).cmd = "ResumeFolder"
        /\ inbox' \in Seq(DaemonCommand) /\ cmds' \in Seq(DaemonCommand) /\ Len(cmds') <= CmdCap
        /\ Leaving' = Leaving
        /\ UNCHANGED <<link, wire, accounts, view, raced, lost>>
    BY <2>1, <1>DoneOther
  <2>3. PICK f \in Folder : f = Head(Pending).folder
    BY <2>2, <1>CommandFields
  <2>4. PICK t \in {pause(sched[f]), resume(sched[f]), request_sync(sched[f])} : t = resume(sched[f])
    OBVIOUS
  <2>5. sched' = [sched EXCEPT ![f] = t]
    BY <2>3, <2>4 DEF ResumeFolder
  <2>6. sched[f] \in FolderScheduleState \cup {None}
    BY <2>1 DEF TypeOK
  <2>7. /\ t \in FolderScheduleState \cup {None} /\ (sched[f] = None => t = None)
        /\ sched[f] # None => /\ t # None /\ (sched[f].running => t.running)
                              /\ (sched[f].pending => t.pending)
    BY <2>6, <1>FlagsKept, SMT
  <2>8. UNCHANGED <<config, running, announcing, tasks, queue, lagged, unanswered, dropped,
                    link, wire, accounts, view, raced, lost>>
    BY <2>2 DEF ResumeFolder
  <2> QED
    BY <2>2, <2>5, <2>7, <2>8, <1>FlagStep

\* RemoveAccount keeps the invariant: its account was leaving.
<1>RemoveAccountInv.
      ASSUME RemoveAccount
      PROVE  Inv'
  <2> USE <1>RemoveAccountInv
  \* The removal of an account takes its folders out of the configuration.
  <2>TrailsRemove.
        ASSUME NEW r, NEW conf, NEW fold, NEW fold2, NEW a \in Account,
               Trails(r, conf, fold), Without(fold, fold2, a)
        PROVE  Trails(r, conf \ {a}, fold2)
    <3> USE <2>TrailsRemove
    <3>1. ASSUME NEW b \in Account, NEW g \in Folder, NEW t \in Space, NEW i \in DOMAIN r,
                 Adds(r[i], b, g, t)
          PROVE  \/ fold2[g] = [account |-> b, space |-> t] \/ b \notin conf \ {a}
                 \/ \E j \in DOMAIN r : j > i /\ Takes(r[j], b, g)
      <4>1. \/ fold[g] = [account |-> b, space |-> t] \/ b \notin conf
            \/ \E j \in DOMAIN r : j > i /\ Takes(r[j], b, g)
        BY <3>1 DEF Trails
      <4> QED
        BY <4>1, SMT DEF Without
    <3>2. ASSUME NEW b \in Account, NEW g \in Folder, NEW i \in DOMAIN r, Takes(r[i], b, g)
          PROVE  fold2[g] = None
      <4>1. fold[g] = None
        BY <3>2 DEF Trails
      <4> QED
        BY <4>1 DEF Without
    <3> QED
      BY <3>1, <3>2 DEF Trails

  \* The daemon removes an account that the GUI has removed before.
  <2>MirrorRemove.
        ASSUME NEW list, NEW r, NEW conf, NEW fold, NEW fold2, NEW leave, NEW leave2, NEW a \in Account,
               Mirrors(list, r, conf, fold, leave), Without(fold, fold2, a),
               a \in leave, leave \ {a} \subseteq leave2, leave2 \subseteq leave
        PROVE  Mirrors(list, r, conf \ {a}, fold2, leave2)
    <3> USE <2>MirrorRemove
    <3>1. Trails(r, conf \ {a}, fold2)
      BY <2>TrailsRemove DEF Mirrors
    <3>2. AccountsMirror(list, r, conf \ {a}, leave2)
      BY DEF Mirrors, AccountsMirror
    <3>3. ~Has(list, a)
      BY DEF Mirrors, AccountsMirror
    <3>4. ASSUME NEW b \in Account, NEW g \in Folder, NEW t \in Space,
                 fold2[g] = [account |-> b, space |-> t], b \notin leave2
          PROVE  \/ HasRow(list, b, g, t)
                 \/ \E i \in DOMAIN r :
                      /\ Adds(r[i], b, g, t)
                      /\ Has(list, b) \/ \E j \in DOMAIN r : j < i /\ Joins(r[j], b)
      <4>1. fold2[g] # None
        BY <3>4, GuiAssumption, SMT
      <4>2. fold[g] = [account |-> b, space |-> t] /\ b # a
        BY <3>4, <4>1, SMT DEF Without
      <4>3. b \notin leave
        BY <3>4, <4>2
      <4> QED
        BY <4>2, <4>3 DEF Mirrors, FoldersMirror
    <3>5. ASSUME NEW b \in Account, NEW g \in Folder, NEW t \in Space, HasRow(list, b, g, t)
          PROVE  fold2[g] = [account |-> b, space |-> t] \/ \E i \in DOMAIN r : Takes(r[i], b, g)
      <4>1. b # a
        BY <3>3, <3>5 DEF Has, HasRow
      <4>2. fold[g] = [account |-> b, space |-> t] \/ \E i \in DOMAIN r : Takes(r[i], b, g)
        BY <3>5 DEF Mirrors, FoldersMirror
      <4> QED
        BY <4>1, <4>2, SMT DEF Without
    <3>6. FoldersMirror(list, r, fold2, leave2)
      BY <3>4, <3>5 DEF FoldersMirror
    <3> QED
      BY <3>1, <3>2, <3>6 DEF Mirrors

  \* Nothing needs to be said of an account that is removed.
  <2>RemoveKeeps.
        ASSUME NEW a \in Account, NEW conf, NEW fold, NEW fold2, Without(fold, fold2, a),
               NEW leave, NEW leave2, a \in leave, leave \ {a} \subseteq leave2, leave2 \subseteq leave,
               NEW own, NEW us, NEW cred
        PROVE  /\ KeepsTrails({}, conf, fold, conf \ {a}, fold2, own, us, cred)
               /\ KeepsMirror({}, conf, fold, leave, conf \ {a}, fold2, leave2, own, us, cred)
    <3> USE <2>RemoveKeeps
    <3>1. ASSUME NEW r, NEW r2, Trails(r, conf, fold), More(r, r2, {})
          PROVE  Trails(r2, conf \ {a}, fold2)
      <4>1. Trails(r2, conf, fold)
        BY <3>1, <1>TrailsSay, SMT
      <4> QED
        BY <4>1, <2>TrailsRemove
    <3>2. ASSUME NEW list, NEW r, NEW r2, Mirrors(list, r, conf, fold, leave), More(r, r2, {})
          PROVE  Mirrors(list, r2, conf \ {a}, fold2, leave2)
      <4>1. Neutral({})
        BY DEF Neutral
      <4>2. Mirrors(list, r2, conf, fold, leave)
        BY <3>2, <4>1, <1>MirrorSay
      <4> QED
        BY <4>2, <2>MirrorRemove
    <3> QED
      BY <3>1, <3>2 DEF KeepsTrails, KeepsMirror

  <2>1. TypeOK /\ Leaving \subseteq credentials /\ Roles
    BY InvTypes DEF Inv
  <2>2. Handles("RemoveAccount") /\ Done
    BY DEF RemoveAccount
  <2>3. /\ Head(Pending) \in DaemonCommand /\ Head(Pending).cmd = "RemoveAccount"
        /\ inbox' \in Seq(DaemonCommand) /\ cmds' \in Seq(DaemonCommand) /\ Len(cmds') <= CmdCap
        /\ Leaving' \subseteq Leaving /\ Head(Pending).account \in Leaving
        /\ Leaving \ {Head(Pending).account} \subseteq Leaving'
        /\ link' = link /\ wire' = wire /\ accounts' = accounts /\ view' = view
        /\ raced' = raced /\ lost' = lost
    BY <2>1, <2>2, <1>DoneFacts
  <2>4. PICK a \in Account : a = Head(Pending).account
    BY <2>3, <1>CommandFields
  <2>5. /\ dropped' = dropped /\ listing' = listing /\ used' = used /\ credentials' = credentials
        /\ running' = running /\ sched' = sched /\ announcing' = announcing /\ signing' = signing
        /\ unanswered' = unanswered /\ queue' = queue /\ lagged' = lagged
        /\ configured' = configured \ {a}
        /\ folder' = [f \in Folder |->
                        IF folder[f] # None /\ folder[f].account = a THEN None ELSE folder[f]]
    BY <2>4 DEF RemoveAccount, jobs, tasks, FoldersOf
  <2>6. Without(folder, folder', a)
    BY <2>5 DEF Without
  <2>7. folder' \in [Folder -> {None} \cup [account : Account, space : Space]]
    <3>1. folder \in [Folder -> {None} \cup [account : Account, space : Space]]
      BY <2>1 DEF TypeOK
    <3> QED
      BY <2>5, <3>1
  <2>8. /\ Hears(<<>>) /\ queue' \in Seq(DaemonEvent) /\ Len(queue') <= BroadcastCap
        /\ lagged' \in BOOLEAN
    BY <2>1, <2>5, <1>SilenceHears
  <2>9. <<>> \in Seq(DaemonEvent) /\ Range(<<>>) = {}
    BY <1>NoneSaid
  <2>10. TypeOK'
    <3>1. configured' \subseteq Account
      BY <2>1, <2>5 DEF TypeOK
    <3> QED
      BY <2>1, <2>3, <2>5, <2>7, <2>8, <3>1 DEF TypeOK
  <2>11. Roles'
    BY <2>1, <2>3, <2>5 DEF Roles
  <2>12. PICK own \in [Folder -> Account \cup {None}] : Agreed(own)
    BY DEF Inv, Owned
  <2>13. Owned'
    <3>1. \A d \in Range(<<>>) : EventFits(d, own, used', credentials')
      BY <2>9
    <3>2. \A f \in Folder : folder'[f] # None =>
            f \in used' /\ own[f] = folder'[f].account /\ own[f] \in configured'
      BY <2>5, <2>12 DEF Agreed
    <3>3. used \subseteq used' /\ credentials \subseteq credentials'
      BY <2>5
    <3> QED
      BY <2>1, <2>3, <2>8, <2>9, <2>12, <3>1, <3>2, <3>3, <1>SaidOwned
  <2>14. /\ KeepsTrails(Range(<<>>), configured, folder, configured', folder', own, used, credentials)
         /\ KeepsMirror(Range(<<>>), configured, folder, Leaving, configured', folder', Leaving',
                        own, used, credentials)
    <3>1. PICK fold2 : fold2 = folder'
      OBVIOUS
    <3>2. PICK leave2 : leave2 = Leaving'
      OBVIOUS
    <3>3. Without(folder, fold2, a) /\ a \in Leaving /\ Leaving \ {a} \subseteq leave2
          /\ leave2 \subseteq Leaving
      BY <2>3, <2>4, <2>6, <3>1, <3>2
    <3>4. /\ KeepsTrails({}, configured, folder, configured \ {a}, fold2, own, used, credentials)
          /\ KeepsMirror({}, configured, folder, Leaving, configured \ {a}, fold2, leave2,
                         own, used, credentials)
      BY <3>3, <2>RemoveKeeps
    <3> QED
      BY <2>5, <2>9, <3>1, <3>2, <3>4
  <2>15. QueueInv' /\ CopyInv'
    <3>1. Reals' = Reals
      BY <2>5 DEF Reals
    <3>2. KeepsPace(Range(<<>>), Reals, Reals') /\ \A d \in Range(<<>>) : d.ev # "AccountSnapshot"
      BY <2>9, <3>1 DEF KeepsPace
    <3>3. configured \ Leaving \subseteq configured' \ Leaving'
      BY <2>3, <2>4, <2>5
    <3>4. \A d \in Range(<<>>) : \A b \in Account : Joins(d, b) =>
            b \in configured' \ Leaving' /\ ~Heard(b)
      BY <2>9
    <3>5. QueueInv /\ CopyInv
      BY DEF Inv
    <3> QED
      BY <2>1, <2>3, <2>8, <2>9, <2>12, <2>14, <3>2, <3>3, <3>4, <3>5, <1>SaidStep
  <2> QED
    BY <2>10, <2>11, <2>13, <2>15 DEF Inv

\* A sign-in that succeeds keeps the invariant: nobody has heard of the account yet.
<1>SignedInInv.
      ASSUME NEW a \in Account, SignedIn(a)
      PROVE  Inv'
  <2> USE <1>SignedInInv
  \* An account signs in that nothing was said of.
  <2>MirrorJoin.
        ASSUME NEW list, NEW r, NEW r2, NEW conf, NEW fold, NEW leave, NEW x \in Account, NEW e,
               Mirrors(list, r, conf, fold, leave), More(r, r2, {e}), Joins(e, x), x \notin leave,
               \A i \in DOMAIN r : \A f \in Folder, s \in Space : ~Adds(r[i], x, f, s)
        PROVE  Mirrors(list, r2, conf \cup {x}, fold, leave)
    <3> USE <2>MirrorJoin
    <3>1. \A i \in DOMAIN r2 : i \in DOMAIN r \/ r2[i] = e
      BY DEF More
    <3>2. \A i \in DOMAIN r : i \in DOMAIN r2 /\ r2[i] = r[i]
      BY DEF More
    <3>3. \E i \in DOMAIN r2 : r2[i] = e
      BY DEF More
    <3>4. Trails(r2, conf \cup {x}, fold)
      <4>1. Trails(r, conf, fold)
        BY DEF Mirrors
      <4>2. \A b, f : ~Takes(e, b, f) /\ \A s : ~Adds(e, b, f, s)
        BY DEF Joins, Takes, Adds
      <4>3. ASSUME NEW b \in Account, NEW f \in Folder, NEW s \in Space,
                   NEW i \in DOMAIN r2, Adds(r2[i], b, f, s)
            PROVE  \/ fold[f] = [account |-> b, space |-> s] \/ b \notin conf \cup {x}
                   \/ \E j \in DOMAIN r2 : j > i /\ Takes(r2[j], b, f)
        <5>1. i \in DOMAIN r /\ Adds(r[i], b, f, s)
          BY <3>1, <3>2, <4>2, <4>3
        <5>2. b # x
          BY <5>1
        <5> QED
          BY <3>2, <4>1, <5>1, <5>2 DEF Trails
      <4>4. ASSUME NEW b \in Account, NEW f \in Folder, NEW i \in DOMAIN r2, Takes(r2[i], b, f)
            PROVE  fold[f] = None
        <5>1. i \in DOMAIN r /\ Takes(r[i], b, f)
          BY <3>1, <3>2, <4>2, <4>4
        <5> QED
          BY <4>1, <5>1 DEF Trails
      <4> QED
        BY <4>3, <4>4 DEF Trails
    <3>5. AccountsMirror(list, r2, conf \cup {x}, leave)
      <4>1. ASSUME NEW b \in Account
            PROVE  (\E i \in DOMAIN r2 : Joins(r2[i], b)) <=> (b = x \/ \E i \in DOMAIN r : Joins(r[i], b))
        BY <3>1, <3>2, <3>3 DEF Joins
      <4> QED
        BY <4>1 DEF Mirrors, AccountsMirror
    <3>6. FoldersMirror(list, r2, fold, leave)
      BY <3>2, ZenonT(60) DEF Mirrors, FoldersMirror
    <3> QED
      BY <3>4, <3>5, <3>6 DEF Mirrors

  \* Saying that an account joins goes with its first sign-in.
  <2>JoinKeeps.
        ASSUME NEW e, NEW x \in Account, Joins(e, x), NEW conf, NEW fold, NEW leave, x \notin leave,
               NEW own, NEW us, NEW cred, x \notin cred
        PROVE  /\ KeepsTrails({e}, conf, fold, conf \cup {x}, fold, own, us, cred)
               /\ KeepsMirror({e}, conf, fold, leave, conf \cup {x}, fold, leave, own, us, cred)
    <3> USE <2>JoinKeeps
    <3>1. ASSUME NEW r, Fine(r, own, us, cred)
          PROVE  \A i \in DOMAIN r : \A f \in Folder, s \in Space : ~Adds(r[i], x, f, s)
      BY <3>1 DEF Fine, EventFits, Adds
    <3>2. ASSUME NEW r \in Seq(DaemonEvent), NEW r2 \in Seq(DaemonEvent),
                 Trails(r, conf, fold), Fine(r, own, us, cred), More(r, r2, {e})
          PROVE  Trails(r2, conf \cup {x}, fold)
      <4>1. Trails(r2, conf, fold)
        BY <3>2, <1>TrailsSay, ZenonT(60) DEF Joins
      <4>2. \A i \in DOMAIN r2 : \A f \in Folder, s \in Space : ~Adds(r2[i], x, f, s)
        <5>1. \A i \in DOMAIN r2 : (i \in DOMAIN r /\ r2[i] = r[i]) \/ r2[i] = e
          BY <3>2 DEF More
        <5> QED
          BY <3>1, <3>2, <5>1, SMTT(30), ZenonT(30) DEF Adds, Joins
      <4> QED
        BY <4>1, <4>2, SMTT(30), ZenonT(30) DEF Trails
    <3>3. ASSUME NEW list, NEW r, NEW r2, Mirrors(list, r, conf, fold, leave),
                 Fine(r, own, us, cred), More(r, r2, {e})
          PROVE  Mirrors(list, r2, conf \cup {x}, fold, leave)
      BY <3>1, <3>3, <2>MirrorJoin
    <3> QED
      BY <3>2, <3>3 DEF KeepsTrails, KeepsMirror

  <2>1. TypeOK /\ signing \subseteq Account \ credentials /\ Leaving \subseteq credentials /\ Roles
    BY InvTypes DEF Inv
  <2> DEFINE e == Event("AccountAddCompleted", a)
  <2>2. /\ link' = link /\ wire' = wire /\ accounts' = accounts /\ view' = view /\ raced' = raced
        /\ inbox' = inbox /\ cmds' = cmds /\ lost' = lost /\ unanswered' = unanswered
        /\ dropped' = dropped /\ listing' = listing /\ folder' = folder /\ used' = used
        /\ running' = running /\ sched' = sched /\ announcing' = announcing
        /\ a \in signing /\ signing' = signing \ {a}
        /\ configured' = configured \cup {a} /\ credentials' = credentials \cup {a}
        /\ broadcast(<<e>>)
    BY DEF SignedIn, daemonOnly, jobs
  <2>3. e \in DaemonEvent /\ e.ev = "AccountAddCompleted" /\ e.account = a
    BY DEF Event, DaemonEvent
  <2> HIDE DEF e
  <2>4. /\ <<e>> \in Seq(DaemonEvent) /\ Range(<<e>>) = {e} /\ Hears(<<e>>)
        /\ queue' \in Seq(DaemonEvent) /\ Len(queue') <= BroadcastCap /\ lagged' \in BOOLEAN
    BY <2>1, <2>2, <2>3, <1>OneHeard
  <2>5. Leaving' = Leaving /\ Reals' = Reals
    BY <2>2 DEF Leaving, Reals
  <2>6. a \notin credentials /\ a \notin Leaving
    BY <2>1, <2>2
  <2>7. TypeOK'
    <3>1. configured' \subseteq Account /\ credentials' \subseteq Account /\ signing' \subseteq Account
      BY <2>1, <2>2 DEF TypeOK
    <3> QED
      BY <2>1, <2>2, <2>4, <3>1 DEF TypeOK
  <2>8. Roles'
    BY <2>1, <2>2, <2>5 DEF Roles
  <2>9. PICK own \in [Folder -> Account \cup {None}] : Agreed(own)
    BY DEF Inv, Owned
  <2>10. Owned'
    <3>1. \A d \in Range(<<e>>) : EventFits(d, own, used', credentials')
      BY <2>2, <2>3, <2>4 DEF EventFits
    <3>2. \A f \in Folder : folder'[f] # None =>
            f \in used' /\ own[f] = folder'[f].account /\ own[f] \in configured'
      BY <2>2, <2>9 DEF Agreed
    <3>3. used \subseteq used' /\ credentials \subseteq credentials'
      BY <2>2
    <3> QED
      BY <2>1, <2>2, <2>4, <2>9, <3>1, <3>2, <3>3, <1>SaidOwned
  <2>11. /\ KeepsTrails(Range(<<e>>), configured, folder, configured', folder', own, used, credentials)
         /\ KeepsMirror(Range(<<e>>), configured, folder, Leaving, configured', folder', Leaving',
                        own, used, credentials)
    <3>1. Joins(e, a)
      BY <2>3 DEF Joins
    <3>2. /\ KeepsTrails({e}, configured, folder, configured \cup {a}, folder, own, used, credentials)
          /\ KeepsMirror({e}, configured, folder, Leaving, configured \cup {a}, folder, Leaving,
                         own, used, credentials)
      BY <2>6, <3>1, <2>JoinKeeps
    <3> QED
      BY <2>2, <2>4, <2>5, <3>2
  <2>12. QueueInv' /\ CopyInv'
    <3>1. KeepsPace(Range(<<e>>), Reals, Reals') /\ \A d \in Range(<<e>>) : d.ev # "AccountSnapshot"
      BY <2>3, <2>4, <2>5 DEF KeepsPace, Starts
    <3>2. configured \ Leaving \subseteq configured' \ Leaving'
      BY <2>2, <2>5
    <3>3. \A d \in Range(<<e>>) : \A b \in Account : Joins(d, b) =>
            b \in configured' \ Leaving' /\ ~Heard(b)
      <4>1. ~Heard(a)
        BY <2>6, <2>9, HeardSigned
      <4>2. \A b \in Account : Joins(e, b) => b = a
        BY <2>3 DEF Joins
      <4>3. a \in configured' \ Leaving'
        BY <2>2, <2>5, <2>6
      <4> QED
        BY <2>4, <4>1, <4>2, <4>3
    <3>4. QueueInv /\ CopyInv
      BY DEF Inv
    <3> QED
      BY <2>1, <2>2, <2>4, <2>9, <2>11, <3>1, <3>2, <3>3, <3>4, <1>SaidStep
  <2> QED
    BY <2>7, <2>8, <2>10, <2>12 DEF Inv

<1>1. CASE handle_command \/ scheduler_tick
  BY <1>1, <1>TriggerSyncInv, <1>PauseFolderInv, <1>ResumeFolderInv, <1>AddAccountInv, <1>RemoveAccountInv,
     <1>ListSpacesInv, <1>AddFoldersInv, <1>TickInv DEF handle_command
<1>2. CASE SyncTask
  BY <1>2, <1>RunSyncInv, <1>AnnounceInv DEF SyncTask
<1>3. CASE AccountTask
  BY <1>3, <1>SignedInInv, <1>AttemptInv DEF AccountTask
<1>4. ASSUME NEW f \in Folder, poll(f) \/ SpaceGone(f) PROVE Inv'
  BY <1>4, <1>PollInv, <1>SpaceGoneInv
<1> QED
  BY <1>1, <1>2, <1>3, <1>4 DEF DaemonStep

(****************************************************************************)
(* The start, and the end: once everything is handled.                      *)
(****************************************************************************)

\* Nothing is heard and nothing is asked at the start.
LEMMA InitInv == Init => Inv
<1> SUFFICES ASSUME Init PROVE Inv
  OBVIOUS
<1>1. PICK f \in Folder, s \in Space :
        /\ folder = [g \in Folder |-> IF g = f THEN [account |-> Known0, space |-> s] ELSE None]
        /\ used = {f}
        /\ sched = [g \in Folder |-> IF g = f THEN Default ELSE None]
  BY DEF Init
<1>2. /\ configured = {Known0} /\ credentials = {Known0} /\ running = {}
      /\ announcing = [g \in Folder |-> [ok \in BOOLEAN |-> 0]]
      /\ signing = {} /\ listing = {} /\ link = "down"
      /\ queue = <<>> /\ wire = <<>> /\ cmds = <<>> /\ inbox = <<>> /\ accounts = <<>>
      /\ view = SyncStatus /\ lagged = FALSE /\ raced = FALSE /\ dropped = {}
      /\ lost = FALSE /\ unanswered = FALSE
  BY DEF Init
<1>3. Known0 \in Account /\ {BroadcastCap, WireCap, CmdCap} \subseteq Nat \ {0}
  BY GuiAssumption
<1>4. Default \in FolderScheduleState /\ Default # None
  <2>1. Default \in FolderScheduleState
    BY DEF Default, FolderScheduleState
  <2> QED
    BY <2>1, NoneAssumption
<1>5. DOMAIN <<>> = {} /\ Len(<<>>) = 0 /\ \A S : <<>> \in Seq(S)
  BY SMT
<1>6. TypeOK
  <2>1. folder \in [Folder -> {None} \cup [account : Account, space : Space]]
    BY <1>1, <1>3
  <2>2. sched \in [Folder -> FolderScheduleState \cup {None}]
    BY <1>1, <1>4
  <2>3. announcing \in [Folder -> [BOOLEAN -> {0, 1}]]
    BY <1>2
  <2>4. view \in Page
    BY <1>2, AtPage DEF SyncStatus, View
  <2>5. used \subseteq Folder
    BY <1>1
  <2>6. configured \subseteq Account /\ credentials \subseteq Account
    BY <1>2, <1>3
  <2>7. /\ running \subseteq Folder /\ dropped \subseteq Folder /\ signing \subseteq Account
        /\ listing \subseteq Account /\ {lagged, raced, lost, unanswered} \subseteq BOOLEAN
    BY <1>2
  <2>8. /\ queue \in Seq(DaemonEvent) /\ wire \in Seq(DaemonEvent)
        /\ cmds \in Seq(DaemonCommand) /\ inbox \in Seq(DaemonCommand)
        /\ Len(queue) <= BroadcastCap /\ Len(wire) <= WireCap /\ Len(cmds) <= CmdCap
        /\ accounts \in Seq(AccountEntry)
    BY <1>2, <1>3, <1>5, SMT
  <2> QED
    BY <1>2, <2>1, <2>2, <2>3, <2>4, <2>5, <2>6, <2>7, <2>8 DEF TypeOK
<1>7. Leaving = {}
  BY <1>2, <1>5 DEF Leaving, Removes
<1>8. Roles
  BY <1>1, <1>2, <1>4, <1>7 DEF Roles
<1>9. Owned
  <2> DEFINE own == [g \in Folder |-> IF g = f THEN Known0 ELSE None]
  <2>1. own \in [Folder -> Account \cup {None}]
    BY <1>3
  <2>2. \A g \in Folder : folder[g] # None =>
          g \in used /\ own[g] = folder[g].account /\ own[g] \in configured
    BY <1>1, <1>2
  <2>3. Fits(accounts, own, used, credentials)
    BY <1>2, <1>5 DEF Fits, FirstHasRows, FirstSyncs
  <2> HIDE DEF own
  <2>4. Agreed(own)
    BY <1>2, <1>5, <2>2, <2>3 DEF Agreed
  <2> QED
    BY <2>1, <2>4 DEF Owned
<1>10. QueueInv
  <2>1. Trails(queue, configured, folder) /\ Ends(queue, Reals)
    BY <1>2, <1>5 DEF Trails, Ends
  <2> QED
    BY <1>2, <1>5, <2>1 DEF QueueInv
<1>11. CopyInv
  BY <1>2 DEF CopyInv
<1> QED
  BY <1>6, <1>8, <1>9, <1>10, <1>11 DEF Inv

\* Once everything is handled, what the GUI shows is what it starts from, with
\* nothing behind it and no removal on its way.
LEMMA NothingBehind ==
  ASSUME Inv, Settled, ~lagged
  PROVE  /\ ShowsReal(accounts, <<>>, Reals) /\ Leaving = {}
         /\ ~raced => Mirrors(accounts, <<>>, configured, folder, {})
<1>1. CopyInv
  BY DEF Inv
<1>2. /\ link = "streaming" /\ queue = <<>> /\ wire = <<>> /\ cmds = <<>> /\ inbox = <<>>
  BY DEF Settled
<1>3. DOMAIN <<>> = {} /\ Len(<<>>) = 0 /\ <<>> \in Seq(DaemonEvent)
  BY SMT
<1>4. 0 \in 0..Len(wire) /\ Mark(wire, 0)
  BY <1>2, <1>3, SMT DEF Mark
<1>5. InStep(Base(accounts, wire, 0), Rest(wire, queue, 0))
  BY <1>1, <1>2, <1>4 DEF CopyInv
<1>6. PICK r : r = Rest(wire, queue, 0)
  OBVIOUS
<1>7. r = <<>>
  <2>1. PICK w \in Seq(DaemonEvent) : w = <<>>
    BY <1>3
  <2>2. 0 \in Nat /\ Len(w) = 0 + 0
    BY <1>3, <2>1, SMT
  <2>3. Rest(w, w, 0) \in Seq(DaemonEvent) /\ IsRest(Rest(w, w, 0), w, w, 0, 0)
    BY <2>2, RestFacts, ZenonT(60)
  <2>4. r = Rest(w, w, 0)
    BY <1>2, <1>6, <2>1
  <2>5. r \in Seq(DaemonEvent) /\ Len(r) = 0
    BY <2>2, <2>3, <2>4, SMT DEF IsRest
  <2> QED
    BY <2>5, SMT
<1>8. Leaving = {}
  BY <1>2, <1>3 DEF Leaving, Removes
<1>9. Base(accounts, wire, 0) = accounts
  BY DEF Base
<1>10. InStep(accounts, <<>>)
  BY <1>5, <1>6, <1>7, <1>9 DEF InStep
<1> QED
  BY <1>8, <1>10 DEF InStep

\* The list then is the daemon's.
LEMMA InvComplete == Inv => MirrorComplete
<1> SUFFICES ASSUME Inv, Settled, ~lagged, ~raced
             PROVE  /\ ShownAccounts = configured
                    /\ ShownFolders = {<<folder[f].account, f, folder[f].space>> :
                                         f \in {g \in Folder : folder[g] # None}}
  BY DEF MirrorComplete
<1>1. Mirrors(accounts, <<>>, configured, folder, {})
  BY NothingBehind
<1>2. /\ accounts \in Seq(AccountEntry) /\ configured \subseteq Account
      /\ folder \in [Folder -> {None} \cup [account : Account, space : Space]]
  BY DEF Inv, TypeOK
<1>3. DOMAIN <<>> = {}
  BY SMT
<1>4. \A a \in Account : a \in configured <=> Has(accounts, a)
  BY <1>1, <1>3 DEF Mirrors, AccountsMirror
<1>5. \A a \in Account, f \in Folder, s \in Space :
        folder[f] = [account |-> a, space |-> s] <=> HasRow(accounts, a, f, s)
  BY <1>1, <1>3 DEF Mirrors, FoldersMirror
<1>6. ShownAccounts = configured
  BY <1>2, <1>4, EntryFacts DEF ShownAccounts, Has
<1>7. ASSUME NEW x \in ShownFolders
      PROVE  \E f \in Folder : folder[f] # None /\ x = <<folder[f].account, f, folder[f].space>>
  <2>1. PICK i \in DOMAIN accounts : \E row \in Rows(i) : x = <<accounts[i].id, row.id, row.space>>
    BY <1>7 DEF ShownFolders
  <2>2. PICK j \in DOMAIN accounts[i].folders :
          x = <<accounts[i].id, accounts[i].folders[j].id, accounts[i].folders[j].space>>
    BY <2>1 DEF Rows
  <2>3. PICK a \in Account, f \in Folder, s \in Space :
          a = accounts[i].id /\ f = accounts[i].folders[j].id /\ s = accounts[i].folders[j].space
    BY <1>2, EntryFacts
  <2>4. HasRow(accounts, a, f, s)
    BY <2>3 DEF HasRow
  <2>5. folder[f] = [account |-> a, space |-> s]
    BY <1>5, <2>4
  <2>6. folder[f] \in [account : Account, space : Space]
    BY <2>5, SMT
  <2>7. folder[f] # None
    BY <2>6, GuiAssumption
  <2> QED
    BY <2>2, <2>3, <2>5, <2>7, SMT
<1>8. ASSUME NEW f \in Folder, folder[f] # None
      PROVE  <<folder[f].account, f, folder[f].space>> \in ShownFolders
  <2>1. folder[f] \in [account : Account, space : Space]
    BY <1>2, <1>8
  <2>2. PICK a \in Account, s \in Space : folder[f] = [account |-> a, space |-> s]
    BY <2>1
  <2>3. HasRow(accounts, a, f, s)
    BY <1>5, <2>2
  <2>4. PICK i \in DOMAIN accounts :
          /\ accounts[i].id = a
          /\ \E j \in DOMAIN accounts[i].folders :
               accounts[i].folders[j].id = f /\ accounts[i].folders[j].space = s
    BY <2>3 DEF HasRow
  <2>5. PICK row \in Rows(i) : row.id = f /\ row.space = s
    BY <2>4 DEF Rows
  <2>6. <<accounts[i].id, row.id, row.space>> \in ShownFolders
    <3>1. PICK x : x = <<accounts[i].id, row.id, row.space>>
      OBVIOUS
    <3>2. x \in {<<accounts[i].id, r.id, r.space>> : r \in Rows(i)}
      BY <2>5, <3>1
    <3>3. x \in ShownFolders
      BY <2>4, <3>2 DEF ShownFolders
    <3> QED
      BY <3>1, <3>3
  <2> QED
    BY <2>2, <2>4, <2>5, <2>6, SMT
<1>9. ShownFolders = {<<folder[f].account, f, folder[f].space>> :
                        f \in {g \in Folder : folder[g] # None}}
  BY <1>7, <1>8
<1> QED
  BY <1>6, <1>9

\* What it shows as syncing then is.
LEMMA InvReal == Inv => SyncingIsReal
<1> SUFFICES ASSUME Inv, Settled, ~lagged,
                    NEW i \in DOMAIN accounts, NEW row \in Rows(i), row.status = "Syncing"
             PROVE  sched[row.id].running \/ sched[row.id].pending \/ row.id \in dropped
  BY DEF SyncingIsReal
<1>1. ShowsReal(accounts, <<>>, Reals)
  BY NothingBehind
<1>2. accounts \in Seq(AccountEntry)
  BY DEF Inv, TypeOK
<1>3. PICK j \in DOMAIN accounts[i].folders : row = accounts[i].folders[j]
  BY DEF Rows
<1>4. PICK f \in Folder : f = row.id
  BY <1>2, <1>3, EntryFacts
<1>5. Shows(accounts, f)
  BY <1>3, <1>4 DEF Shows
<1>6. f \in Reals
  BY <1>1, <1>5, SMT DEF ShowsReal
<1>7. f \in used
  <2>1. PICK own \in [Folder -> Account \cup {None}] : Agreed(own)
    BY DEF Inv, Owned
  <2>2. Fits(accounts, own, used, credentials)
    BY <2>1 DEF Agreed
  <2> QED
    BY <1>3, <1>4, <2>2 DEF Fits
<1>8. sched[f] # None
  BY <1>7, InvTypes
<1>9. \A ok \in BOOLEAN : announcing[f][ok] = 0
  BY DEF Settled
<1> QED
  BY <1>4, <1>6, <1>8, <1>9, SMT DEF Reals

\* Every step of the system keeps the invariant.
LEMMA NextInv ==
  ASSUME SetFacts, Inv, Next \/ UNCHANGED vars
  PROVE  Inv'
<1>1. CASE Transport \/ Drop
  BY <1>1, ConnectionInv
<1>2. CASE handle_daemon_event
  BY <1>2, EventsInv
<1>3. CASE User \/ UNCHANGED vars
  BY <1>3, UserInv
<1>4. CASE DaemonStep
  BY <1>4, DaemonInv
<1> QED
  BY <1>1, <1>2, <1>3, <1>4 DEF Next, DaemonStep

(****************************************************************************)
(* The facts on finite sets, and the theorems.                              *)
(****************************************************************************)
INSTANCE FiniteSetTheorems

\* A set of natural numbers that is not empty has a least member.
LEMMA LeastOfSet ==
  ASSUME NEW S \in SUBSET Nat, S # {}
  PROVE  First(S) \in S /\ \A j \in S : First(S) <= j
<1> DEFINE T == {0..i : i \in S}
           R == StrictSubsetOrdering(Nat)
<1>1. T \subseteq FiniteSubsetsOf(Nat) /\ T # {}
  <2>1. \A i \in Nat : 0..i \subseteq Nat /\ IsFiniteSet(0..i)
    BY FS_Interval, SMT
  <2> QED
    BY <2>1, ZenonT(60) DEF FiniteSubsetsOf
<1>2. PICK x \in T : \A y \in T : ~(<<y, x>> \in R)
  BY <1>1, FS_StrictSubsetOrderingWellFounded, WFMin, ZenonT(60)
<1>3. PICK i \in S : x = 0..i
  BY ZenonT(60)
<1>4. ASSUME NEW j \in S, j < i PROVE FALSE
  <2>1. 0..j \subseteq 0..i /\ 0..j # 0..i
    BY <1>4, SMT
  <2>2. <<0..j, x>> \in R
    BY <1>3, <2>1, SMT DEF StrictSubsetOrdering
  <2> QED
    BY <1>2, <2>2, ZenonT(60)
<1>5. \A j \in S : i <= j
  BY <1>4, SMT
<1> QED
  BY <1>5, ZenonT(60) DEF First

\* A finite set's order lists each member once.
LEMMA OrderOfSet ==
  ASSUME NEW S, IsFiniteSet(S)
  PROVE  /\ Ordered(S) \in Seq(S)
         /\ Ordered(S) \in [DOMAIN Ordered(S) -> S]
         /\ \A x \in S : \E i \in DOMAIN Ordered(S) : Ordered(S)[i] = x
         /\ \A i, j \in DOMAIN Ordered(S) : Ordered(S)[i] = Ordered(S)[j] => i = j
<1> DEFINE n == Cardinality(S)
           s == Ordered(S)
<1>1. n \in Nat /\ Bijection(1..n, S) # {}
  BY FS_CardinalityType DEF ExistsBijection
<1>2. s \in Bijection(1..n, S)
  BY <1>1, ZenonT(60) DEF Ordered
<1>3. /\ s \in [1..n -> S] /\ IsInjective(s)
      /\ \A t \in S : \E i \in 1..n : s[i] = t
  BY <1>2, ZenonT(60) DEF Bijection, Injection, Surjection
<1>4. DOMAIN s = 1..n
  BY <1>3
<1> HIDE DEF s, n
<1>5. s \in Seq(S)
  BY <1>1, <1>3, SMT
<1> QED
  BY <1>3, <1>4, <1>5, ZenonT(60) DEF IsInjective, s

\* What is retained of a sequence keeps its order.
LEMMA RetainedOfSeq ==
  ASSUME NEW T, NEW s \in Seq(T), NEW keep \in SUBSET DOMAIN s, NEW t \in Retained(s, keep)
  PROVE  t \in Seq(T) /\ \E g \in [DOMAIN t -> keep] : Keeps(s, t, keep, g)
<1> DEFINE n == Cardinality(keep)
<1>1. DOMAIN s = 1..Len(s) /\ Len(s) \in Nat
  BY SMT
<1>2. IsFiniteSet(keep) /\ n \in Nat
  <2>1. IsFiniteSet(1..Len(s))
    BY <1>1, FS_Interval, SMT
  <2>2. IsFiniteSet(keep)
    BY <1>1, <2>1, FS_Subset
  <2> QED
    BY <2>2, FS_CardinalityType
<1>3. PICK g \in [1..n -> keep] :
        /\ \A i, j \in DOMAIN g : i < j => g[i] < g[j]
        /\ t = [i \in DOMAIN g |-> s[g[i]]]
  BY ZenonT(60) DEF Retained
<1>4. DOMAIN g = 1..n /\ DOMAIN t = 1..n
  BY <1>3
<1>5. t \in Seq(T)
  <2>1. \A k \in keep : s[k] \in T
    BY <1>1, SMT
  <2>2. t \in [1..n -> T]
    BY <1>3, <1>4, <2>1
  <2> QED
    BY <1>2, <2>2, SMT
<1>6. \A k \in keep : \E i \in 1..n : g[i] = k
  <2>1. g \in Injection(1..n, keep)
    <3>1. \A i, j \in 1..n : g[i] = g[j] => i = j
      BY <1>1, <1>3, <1>4, SMT
    <3> QED
      BY <1>3, <1>4, <3>1, ZenonT(60) DEF Injection, IsInjective
  <2>2. IsFiniteSet(1..n) /\ Cardinality(1..n) = n
    BY <1>2, FS_Interval, SMT
  <2>3. g \in Surjection(1..n, keep)
    BY <1>2, <2>1, <2>2, FS_Injection
  <2> QED
    BY <2>3 DEF Surjection
<1>7. Keeps(s, t, keep, g)
  BY <1>3, <1>4, <1>6 DEF Keeps
<1> QED
  BY <1>4, <1>5, <1>7

\* What First, Ordered and Retained return.
LEMMA SetFactsHold == SetFacts
<1>1. FirstIsLeast
  BY LeastOfSet, ZenonT(60) DEF FirstIsLeast
<1>2. RetainedKeeps
  BY RetainedOfSeq, ZenonT(60) DEF RetainedKeeps
<1>3. \A S : IsFiniteSet(S) => OrderLists(S, Ordered(S))
  BY OrderOfSet, ZenonT(60) DEF OrderLists
<1>4. \A S : IsFiniteSet(S) => \A T \in SUBSET S : IsFiniteSet(T)
  BY FS_Subset
<1>5. ASSUME NEW S, NEW W, IsFiniteSet(S) PROVE IsFiniteSet({W[x] : x \in S})
  <2> DEFINE R == {W[x] : x \in S}
             h == [x \in S |-> W[x]]
  <2>1. h \in Surjection(S, R)
    BY ZenonT(60) DEF Surjection
  <2> QED
    BY <1>5, <2>1, FS_Surjection
<1> QED
  BY <1>1, <1>2, <1>3, <1>4, <1>5, ZenonT(60) DEF SetFacts

\* The invariant: types, signed-in accounts and settled owners; the events of the
\* channel are in an order that makes sense of them; and the last snapshot on its
\* way, or else what the GUI shows, together with the events behind it amounts to
\* the daemon's accounts, folders and runs.
THEOREM GuiInvariant == Spec => []Inv
<1>1. Inv /\ [Next]_vars => Inv'
  BY SetFactsHold, NextInv
<1> QED
  BY InitInv, <1>1, PTL DEF Spec

\* Once all messages are handled, the GUI lists the accounts and folders that the
\* daemon has configured, unless the channel overflowed or a removal crossed
\* something that lists the account.
THEOREM CopyIsComplete == Spec => []MirrorComplete
BY GuiInvariant, InvComplete, PTL

\* Once all messages are handled, a folder shown as syncing has a run or a request
\* for one, or its forced sync was turned down: a start that is announced is
\* followed by its end.
THEOREM SyncingIsTrue == Spec => []SyncingIsReal
BY GuiInvariant, InvReal, PTL

=============================================================================
