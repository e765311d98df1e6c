------------------------------ MODULE GuiProofs ------------------------------
(****************************************************************************)
(* What Gui promises about the GUI's copy of the daemon's state, for any    *)
(* accounts, folders, spaces, queue lengths and numbers of upsets: the      *)
(* inductive invariant, and that the events the GUI handles and the         *)
(* connection keep it. The other steps and the theorems are in module       *)
(* GuiCopyProofs.                                                           *)
(*                                                                          *)
(* The invariant says what the copy will be: the list the GUI starts from   *)
(* (the last snapshot on its way, or what it shows) together with the       *)
(* events behind it amounts to the daemon's state.                          *)
(****************************************************************************)
EXTENDS Gui, TLAPS

\* What an event says.
Joins(e, a) == e.ev = "AccountAddCompleted" /\ e.account = a
Adds(e, a, f, s) ==
  e.ev = "AccountFolderAdded" /\ e.account = a /\ e.folder = f /\ e.space = s
Takes(e, a, f) == e.ev = "SpaceRemoved" /\ e.account = a /\ e.folder = f
Starts(e, f) == e.ev = "SyncStarted" /\ e.folder = f
Finishes(e, f) == e.ev = "SyncFinished" /\ e.folder = f

\* What a list of accounts says.
Has(list, a) == \E i \in DOMAIN list : list[i].id = a
HasRow(list, a, f, s) ==
  \E i \in DOMAIN list :
    /\ list[i].id = a
    /\ \E j \in DOMAIN list[i].folders :
         list[i].folders[j].id = f /\ list[i].folders[j].space = s
Shows(list, f) ==
  \E i \in DOMAIN list : \E j \in DOMAIN list[i].folders :
    list[i].folders[j].id = f /\ list[i].folders[j].status = "Syncing"

(****************************************************************************)
(* A list and the events behind it, against the daemon's state: accounts    *)
(* conf without those the user has just removed, and folders fold.          *)
(****************************************************************************)

\* Whose folder an event adds is there when it comes, and what it adds is there or
\* taken again; what it takes is gone for good.
Trails(r, conf, fold) ==
  \A a \in Account, f \in Folder :
    /\ \A s \in Space : \A i \in DOMAIN r :
         Adds(r[i], a, f, s) =>
           \/ fold[f] = [account |-> a, space |-> s] \/ a \notin conf
           \/ \E j \in DOMAIN r : j > i /\ Takes(r[j], a, f)
    /\ \A i \in DOMAIN r : Takes(r[i], a, f) => fold[f] = None

AccountsMirror(list, r, conf, leave) ==
  \A a \in Account :
    a \in conf \ leave <=> Has(list, a) \/ \E i \in DOMAIN r : Joins(r[i], a)

FoldersMirror(list, r, fold, leave) ==
  \A a \in Account, f \in Folder, s \in Space :
    /\ fold[f] = [account |-> a, space |-> s] /\ a \notin leave =>
         \/ HasRow(list, a, f, s)
         \/ \E i \in DOMAIN r :
              /\ Adds(r[i], a, f, s)
              /\ Has(list, a) \/ \E j \in DOMAIN r : j < i /\ Joins(r[j], a)
    /\ HasRow(list, a, f, s) =>
         \/ fold[f] = [account |-> a, space |-> s]
         \/ \E i \in DOMAIN r : Takes(r[i], a, f)

Mirrors(list, r, conf, fold, leave) ==
  /\ AccountsMirror(list, r, conf, leave)
  /\ FoldersMirror(list, r, fold, leave)
  /\ Trails(r, conf, fold)

\* A start that is announced is real, or its end is announced behind it.
Ends(r, real) ==
  \A f \in Folder : \A i \in DOMAIN r :
    Starts(r[i], f) => f \in real \/ \E j \in DOMAIN r : j > i /\ Finishes(r[j], f)

\* So is one that is shown.
ShowsReal(list, r, real) ==
  \A f \in Folder : Shows(list, f) => f \in real \/ \E i \in DOMAIN r : Finishes(r[i], f)

(****************************************************************************)
(* The shape of a list: of several entries of one account the first has the *)
(* rows, and of several rows of one folder only the first changes.          *)
(****************************************************************************)
FirstHasRows(list) ==
  \A i, j \in DOMAIN list : j < i /\ list[j].id = list[i].id => list[i].folders = <<>>

FirstSyncs(list) ==
  \A i, m \in DOMAIN list : \A j \in DOMAIN list[i].folders, n \in DOMAIN list[m].folders :
    /\ list[i].folders[j].status = "Syncing"
    /\ list[i].folders[j].id = list[m].folders[n].id
    => i < m \/ (i = m /\ j <= n)

\* The accounts in a list have signed in, and its folders are theirs.
Fits(list, own, us, cred) ==
  /\ \A i \in DOMAIN list :
       /\ list[i].id \in cred
       /\ \A j \in DOMAIN list[i].folders :
            list[i].folders[j].id \in us /\ own[list[i].folders[j].id] = list[i].id
  /\ FirstHasRows(list) /\ FirstSyncs(list)

EventFits(e, own, us, cred) ==
  /\ e.ev = "AccountSnapshot" => Fits(e.accounts, own, us, cred)
  /\ e.ev = "AccountAddCompleted" => e.account \in cred
  /\ e.ev = "AccountFolderAdded" =>
       e.account \in cred /\ e.folder \in us /\ own[e.folder] = e.account
  /\ e.ev = "SpaceRemoved" => e.folder \in us

(****************************************************************************)
(* The invariant.                                                           *)
(****************************************************************************)

\* Folders with a run, a request for one, or an end still to be announced.
Reals ==
  {f \in Folder : \/ sched[f] = None \/ sched[f].running \/ sched[f].pending \/ f \in dropped
                  \/ \E ok \in BOOLEAN : announcing[f][ok] = 1}

\* Accounts whose removal is on its way to the daemon.
Removes(q, a) == \E i \in DOMAIN q : q[i].cmd = "RemoveAccount" /\ q[i].account = a
Leaving == {a \in Account : Removes(inbox, a) \/ Removes(cmds, a)}

\* Who has signed in, and who owns a folder, is settled once for all.
Roles ==
  /\ configured \subseteq credentials /\ signing \cap credentials = {}
  /\ Leaving \subseteq credentials
  /\ \A f \in used : sched[f] # None

Agreed(own) ==
  /\ \A f \in Folder : folder[f] # None =>
       f \in used /\ own[f] = folder[f].account /\ own[f] \in configured
  /\ Fits(accounts, own, used, credentials)
  /\ \A i \in DOMAIN wire : EventFits(wire[i], own, used, credentials)
  /\ \A i \in DOMAIN queue : EventFits(queue[i], own, used, credentials)

Owned == \E own \in [Folder -> Account \cup {None}] : Agreed(own)

\* An account the GUI shows or is about to.
Heard(a) ==
  \/ Has(accounts, a)
  \/ \E i \in DOMAIN wire :
       Joins(wire[i], a) \/ (wire[i].ev = "AccountSnapshot" /\ Has(wire[i].accounts, a))

\* The events of the channel, whether or not older ones were dropped. Before the
\* snapshot they are about accounts the GUI has not heard of.
QueueInv ==
  /\ ~Listening => queue = <<>>
  /\ \A i \in DOMAIN queue : queue[i].ev # "AccountSnapshot"
  /\ Trails(queue, configured, folder) /\ Ends(queue, Reals)
  /\ link = "subscribed" =>
       \A i \in DOMAIN queue : \A a \in Account : Joins(queue[i], a) =>
         a \in configured \ Leaving /\ ~Heard(a)

\* Position k of the wire has the last snapshot; 0 if there is none.
Mark(w, k) ==
  /\ k # 0 => w[k].ev = "AccountSnapshot"
  /\ \A i \in DOMAIN w : i > k => w[i].ev # "AccountSnapshot"

\* The list the GUI starts from, and what comes behind it.
Base(list, w, k) == IF k = 0 THEN list ELSE w[k].accounts
Rest(w, q, k) == SubSeq(w, k + 1, Len(w)) \o q

InStep(list, r) ==
  /\ Ends(r, Reals) /\ ShowsReal(list, r, Reals)
  /\ ~raced => Mirrors(list, r, configured, folder, Leaving)

CopyInv ==
  link \in {"snapped", "streaming"} /\ ~lagged =>
    \A k \in 0..Len(wire) :
      Mark(wire, k) => InStep(Base(accounts, wire, k), Rest(wire, queue, k))

Inv == TypeOK /\ Roles /\ Owned /\ QueueInv /\ CopyInv

(****************************************************************************)
(* Sequences, orders and least positions.                                   *)
(****************************************************************************)

\* t has the members of s at the positions in keep; g says where they were.
Keeps(s, t, keep, g) ==
  /\ \A i \in DOMAIN t : t[i] = s[g[i]]
  /\ \A i, j \in DOMAIN t : i < j => g[i] < g[j]
  /\ \A k \in keep : \E i \in DOMAIN t : g[i] = k

(****************************************************************************)
(* What First, Ordered and Retained return follows from the library's       *)
(* theorems on finite sets. They are brought in at the end of module        *)
(* GuiCopyProofs, where SetFacts is proved; what rests on it says so.       *)
(****************************************************************************)
FirstIsLeast == \A S \in SUBSET Nat : S # {} => First(S) \in S /\ \A j \in S : First(S) <= j

OrderLists(S, o) ==
  /\ o \in Seq(S) /\ o \in [DOMAIN o -> S]
  /\ \A x \in S : \E i \in DOMAIN o : o[i] = x
  /\ \A i, j \in DOMAIN o : o[i] = o[j] => i = j

RetainedKeeps ==
  \A T : \A s \in Seq(T) : \A keep \in SUBSET DOMAIN s : \A t \in Retained(s, keep) :
    t \in Seq(T) /\ \E g \in [DOMAIN t -> keep] : Keeps(s, t, keep, g)

SetFacts ==
  /\ FirstIsLeast /\ RetainedKeeps
  /\ \A S : IsFiniteSet(S) => OrderLists(S, Ordered(S))
  /\ \A S : IsFiniteSet(S) => \A T \in SUBSET S : IsFiniteSet(T)
  /\ \A S, W : IsFiniteSet(S) => IsFiniteSet({W[x] : x \in S})

(****************************************************************************)
(* The terms of the lemmas: what one list, queue or set of folders has to   *)
(* do with the next.                                                        *)
(****************************************************************************)

\* r has d events of the wire w behind position k, then those of the channel q.
IsRest(r, w, q, k, d) ==
  /\ Len(r) = d + Len(q)
  /\ \A i \in 1..d : r[i] = w[k + i]
  /\ \A i \in 1..Len(q) : r[d + i] = q[i]

\* r2 continues r with the events E.
More(r, r2, E) ==
  LET new == DOMAIN r2 \ DOMAIN r IN
  /\ DOMAIN r2 \subseteq Int /\ DOMAIN r \subseteq DOMAIN r2
  /\ \A i \in DOMAIN r : r2[i] = r[i] /\ \A j \in new : i < j
  /\ \A j \in new : r2[j] \in E
  /\ \A e \in E : \E j \in new : r2[j] = e

\* r2 is r without some of its first events.
Suffix(r, r2) ==
  \E d \in Nat : Len(r) = Len(r2) + d /\ \A i \in 1..Len(r2) : r2[i] = r[i + d]

\* Where an event of a suffix was.
Shifted(r, r2, d) ==
  /\ DOMAIN r \subseteq Nat /\ DOMAIN r2 \subseteq Nat
  /\ \A i \in DOMAIN r2 : i + d \in DOMAIN r /\ r2[i] = r[i + d]
  /\ \A j \in DOMAIN r : j > d => j - d \in DOMAIN r2 /\ r2[j - d] = r[j]

FolderMap == [Folder -> {None} \cup [account : Account, space : Space]]

\* Events that say nothing about accounts and folders.
Neutral(E) ==
  \A e \in E : e.ev \notin {"AccountAddCompleted", "AccountFolderAdded", "SpaceRemoved"}

\* The daemon removes an account.
Without(fold, fold2, a) ==
  \A f \in Folder : fold2[f] = IF fold[f] # None /\ fold[f].account = a THEN None ELSE fold[f]

\* list2 has the accounts and folders of list, without account a.
Loses(list, list2, a) ==
  /\ \A b \in Account : Has(list2, b) <=> Has(list, b) /\ b # a
  /\ \A b \in Account, g \in Folder, t \in Space :
       HasRow(list2, b, g, t) <=> HasRow(list, b, g, t) /\ b # a

\* list2 has the same accounts and folders.
Same(list, list2) ==
  /\ \A b \in Account : Has(list2, b) <=> Has(list, b)
  /\ \A b \in Account, g \in Folder, t \in Space :
       HasRow(list2, b, g, t) <=> HasRow(list, b, g, t)

\* list2 is list after event e.
After(list, list2, e) ==
  /\ \A b \in Account : Has(list2, b) <=> Has(list, b) \/ Joins(e, b)
  /\ \A b \in Account, g \in Folder, t \in Space :
       HasRow(list2, b, g, t) <=>
         \/ HasRow(list, b, g, t) /\ ~Takes(e, b, g)
         \/ Adds(e, b, g, t) /\ Has(list, b)

\* What is said keeps pace with what is real: who starts is, who is no more ends.
KeepsPace(E, real, real2) ==
  /\ \A f \in Folder : \A e \in E : Starts(e, f) => f \in real2
  /\ \A f \in real : f \in real2 \/ \E e \in E : Finishes(e, f)

\* list2 shows folders as syncing that list does, but for what event e says.
Turns(list, list2, e) ==
  \A f \in Folder : Shows(list2, f) => (Shows(list, f) /\ ~Finishes(e, f)) \/ Starts(e, f)

\* One entry gets other rows.
Refilled(list, list2, i, fs) ==
  /\ DOMAIN list2 = DOMAIN list
  /\ \A m \in DOMAIN list : list2[m].id = list[m].id
  /\ list2[i].folders = fs
  /\ \A m \in DOMAIN list \ {i} : list2[m].folders = list[m].folders

\* One row gets another status.
Restated(list, list2, i, j, st) ==
  /\ DOMAIN list2 = DOMAIN list
  /\ \A m \in DOMAIN list :
       /\ list2[m].id = list[m].id /\ DOMAIN list2[m].folders = DOMAIN list[m].folders
       /\ \A n \in DOMAIN list[m].folders :
            /\ list2[m].folders[n].id = list[m].folders[n].id
            /\ list2[m].folders[n].space = list[m].folders[n].space
            /\ m # i \/ n # j => list2[m].folders[n].status = list[m].folders[n].status
  /\ list2[i].folders[j].status = st

\* list2 has folder f of account a and space s in addition.
Grown(list, list2, a, f, s) ==
  /\ \A b : Has(list2, b) <=> Has(list, b)
  /\ \A b, g, t : HasRow(list2, b, g, t) <=> HasRow(list, b, g, t) \/ (b = a /\ g = f /\ t = s)
  /\ \A g : Shows(list2, g) => Shows(list, g)

\* list2 lacks folder f of account a.
Shrunk(list, list2, a, f) ==
  /\ \A b : Has(list2, b) <=> Has(list, b)
  /\ \A b, g, t : HasRow(list2, b, g, t) <=> HasRow(list, b, g, t) /\ ~(b = a /\ g = f)
  /\ \A g : Shows(list2, g) => Shows(list, g)

\* The first entry of an account, and its rows replaced.
Spot(list, a) == First({i \in DOMAIN list : list[i].id = a})
Filled(list, p, fs) == [list EXCEPT ![p].folders = fs]

\* A row is put at the end of them, or those of a folder are cut.
RowPut(list, list2, a, f, s) ==
  LET p == Spot(list, a)
  IN list2 = Filled(list, p, Append(list[p].folders, FolderView(f, s, "Idle")))
RowCut(list, list2, a, f) ==
  LET p == Spot(list, a)
      old == list[p].folders
  IN \E fs \in Retained(old, {j \in DOMAIN old : old[j].id # f}) : list2 = Filled(list, p, fs)

\* o lists the rows W of the folders F, each once.
Lists(o, F, W) ==
  /\ o \in Seq(FolderRow)
  /\ \A j \in DOMAIN o : \E f \in F : o[j] = W[f]
  /\ \A f \in F : \E j \in DOMAIN o : o[j] = W[f]
  /\ \A i, j \in DOMAIN o : o[i].id = o[j].id => i = j

\* A list with an entry for each of the accounts ids, and the rows O of their folders F.
Owns(F, W, own, us) ==
  \A a \in Account : \A f \in F[a] : f \in Folder /\ W[f].id = f /\ f \in us /\ own[f] = a
Distinct(ids) == \A i, j \in DOMAIN ids : ids[i] = ids[j] => i = j
Listing(ids, O) == [i \in DOMAIN ids |-> [id |-> ids[i], folders |-> O[ids[i]]]]

\* What such a list says, of the accounts in A.
Tells(list, A, F, W) ==
  /\ \A b \in Account : Has(list, b) <=> b \in A
  /\ \A b \in Account, g \in Folder, t \in Space :
       HasRow(list, b, g, t) <=> b \in A /\ g \in F[b] /\ W[g].space = t
  /\ \A g \in Folder : Shows(list, g) =>
       \E b \in Account : g \in F[b] /\ W[g].status = "Syncing"

Said(q, q2, lag, lag2, es) ==
  /\ q2 \in Seq(DaemonEvent) /\ Suffix(q \o es, q2)
  /\ lag2 = TRUE \/ (q2 = q \o es /\ lag2 = lag)

Hears(es) ==
  IF Listening THEN Said(queue, queue', lagged, lagged', es) ELSE queue' = queue /\ lagged' = lagged

Fine(r, own, us, cred) == \A i \in DOMAIN r : EventFits(r[i], own, us, cred)

\* Saying E goes with the step from conf and fold to conf2 and fold2.
KeepsTrails(E, conf, fold, conf2, fold2, own, us, cred) ==
  \A r, r2 \in Seq(DaemonEvent) :
    Trails(r, conf, fold) /\ Fine(r, own, us, cred) /\ More(r, r2, E) => Trails(r2, conf2, fold2)

\* The same for a list.
KeepsMirror(E, conf, fold, leave, conf2, fold2, leave2, own, us, cred) ==
  \A list \in Seq(AccountEntry) : \A r, r2 \in Seq(DaemonEvent) :
    /\ Mirrors(list, r, conf, fold, leave) /\ Fits(list, own, us, cred)
    /\ Fine(r, own, us, cred) /\ More(r, r2, E)
    => Mirrors(list, r2, conf2, fold2, leave2)

\* Every step of the daemon.
DaemonStep ==
  \/ handle_command \/ scheduler_tick \/ SyncTask \/ AccountTask
  \/ \E f \in Folder : poll(f) \/ SpaceGone(f)

\* Leaves that name no prover are Zenon's.
USE Zenon

(****************************************************************************)
(* The rows of a list, before and after a change.                           *)
(****************************************************************************)

\* The first of some positions is the least.
LEMMA LeastIndex ==
  ASSUME SetFacts, NEW S \in SUBSET Nat, S # {}
  PROVE  First(S) \in S /\ \A j \in S : First(S) <= j
BY ZenonT(60) DEF SetFacts, FirstIsLeast

\* What is retained of a sequence keeps its order.
LEMMA RetainedFacts ==
  ASSUME SetFacts, NEW T, NEW s \in Seq(T), NEW keep \in SUBSET DOMAIN s, NEW t \in Retained(s, keep)
  PROVE  t \in Seq(T) /\ \E g \in [DOMAIN t -> keep] : Keeps(s, t, keep, g)
BY ZenonT(60) DEF SetFacts, RetainedKeeps

\* The positions of a sequence and what is there.
LEMMA SeqFacts ==
  ASSUME NEW S, NEW s \in Seq(S)
  PROVE  /\ DOMAIN s = 1..Len(s) /\ Len(s) \in Nat /\ DOMAIN s \subseteq Nat
         /\ \A i \in DOMAIN s : s[i] \in S /\ (i = 1 \/ i > 1)
BY SMT

\* A function on the first numbers is a sequence.
LEMMA SeqOfFunction ==
  ASSUME NEW S, NEW n \in Nat, NEW s \in [1..n -> S]
  PROVE  s \in Seq(S) /\ Len(s) = n
BY SMTT(30)

\* The first of a sequence and the others.
LEMMA TailFacts ==
  ASSUME NEW S, NEW s \in Seq(S), s # <<>>
  PROVE  /\ Len(s) \in Nat \ {0} /\ Head(s) \in S /\ Head(s) = s[1]
         /\ Tail(s) \in Seq(S) /\ Len(Tail(s)) = Len(s) - 1
         /\ \A i \in 1..Len(Tail(s)) : Tail(s)[i] = s[i + 1]
         /\ s = <<Head(s)>> \o Tail(s)
<1>1. s = <<Head(s)>> \o Tail(s)
  BY SMTT(30)
<1> QED
  BY <1>1, SMTT(30)

\* The empty sequence, numbers, and what a folder in the config is.
LEMMA SmallFacts ==
  /\ DOMAIN <<>> = {} /\ \A n \in Nat : ~(n < n)
  /\ \A a \in Account, s \in Space : [account |-> a, space |-> s] # None
<1>1. \A a \in Account, s \in Space : [account |-> a, space |-> s] # None
  BY GuiAssumption, SMT
<1> QED
  BY <1>1, SMT

\* Entries, their rows and their positions.
LEMMA EntryFacts ==
  ASSUME NEW list \in Seq(AccountEntry)
  PROVE  /\ DOMAIN list \subseteq Nat
         /\ \A i \in DOMAIN list :
              /\ list[i] \in AccountEntry
              /\ list[i].id \in Account /\ list[i].folders \in Seq(FolderRow)
              /\ DOMAIN list[i].folders \subseteq Nat
              /\ \A j \in DOMAIN list[i].folders :
                   /\ list[i].folders[j] \in FolderRow
                   /\ list[i].folders[j].id \in Folder /\ list[i].folders[j].space \in Space
                   /\ list[i].folders[j].status \in Status
<1>1. DOMAIN list \subseteq Nat
  BY SeqFacts
<1>2. ASSUME NEW i \in DOMAIN list
      PROVE  /\ list[i] \in AccountEntry
             /\ list[i].id \in Account /\ list[i].folders \in Seq(FolderRow)
  <2>1. list[i] \in AccountEntry
    BY SeqFacts
  <2> QED
    BY <2>1 DEF AccountEntry
<1>3. ASSUME NEW i \in DOMAIN list
      PROVE  /\ DOMAIN list[i].folders \subseteq Nat
             /\ \A j \in DOMAIN list[i].folders :
                   /\ list[i].folders[j] \in FolderRow
                   /\ list[i].folders[j].id \in Folder /\ list[i].folders[j].space \in Space
                   /\ list[i].folders[j].status \in Status
  <2> DEFINE s == list[i].folders
  <2>1. s \in Seq(FolderRow)
    BY <1>2
  <2>2. DOMAIN s \subseteq Nat /\ \A j \in DOMAIN s : s[j] \in FolderRow
    BY <2>1, SeqFacts
  <2>3. \A x \in FolderRow : x.id \in Folder /\ x.space \in Space /\ x.status \in Status
    BY DEF FolderRow
  <2> QED
    BY <2>2, <2>3
<1> QED
  BY <1>1, <1>2, <1>3

\* The change of one entry keeps the others.
LEMMA Refill ==
  ASSUME NEW list \in Seq(AccountEntry), NEW i \in DOMAIN list, NEW fs \in Seq(FolderRow)
  PROVE  LET list2 == [list EXCEPT ![i].folders = fs]
         IN list2 \in Seq(AccountEntry) /\ Refilled(list, list2, i, fs)
<1> DEFINE list2 == [list EXCEPT ![i].folders = fs]
<1>1. DOMAIN list = 1..Len(list) /\ Len(list) \in Nat
  BY SeqFacts
<1>2. \A m \in DOMAIN list : list[m] \in AccountEntry
  BY EntryFacts
<1>3. DOMAIN list2 = DOMAIN list
  OBVIOUS
<1>4. list2[i] = [list[i] EXCEPT !.folders = fs] /\ \A m \in DOMAIN list \ {i} : list2[m] = list[m]
  OBVIOUS
<1>5. list2[i] \in AccountEntry /\ list2[i].id = list[i].id /\ list2[i].folders = fs
  BY <1>2, <1>4 DEF AccountEntry
<1>6. list2 = [m \in 1..Len(list) |-> list2[m]]
  BY <1>1
<1> HIDE DEF list2
<1>7. \A m \in 1..Len(list) : list2[m] \in AccountEntry
  BY <1>1, <1>2, <1>4, <1>5
<1>8. list2 \in [1..Len(list) -> AccountEntry]
  BY <1>6, <1>7
<1>9. list2 \in Seq(AccountEntry)
  BY <1>1, <1>8, SeqOfFunction
<1>10. Refilled(list, list2, i, fs)
  BY <1>3, <1>4, <1>5 DEF Refilled
<1> QED
  BY <1>9, <1>10 DEF list2

\* The first entry of an account; the rows of the account are there.
LEMMA FirstEntry ==
  ASSUME SetFacts, accounts \in Seq(AccountEntry), NEW a, find_account(a) # {}, FirstHasRows(accounts)
  PROVE  LET p == First(find_account(a))
         IN /\ p \in DOMAIN accounts /\ accounts[p].id = a
            /\ \A i \in DOMAIN accounts : accounts[i].id = a =>
                 p <= i /\ (i = p \/ accounts[i].folders = <<>>)
<1> DEFINE p == First(find_account(a))
<1>1. DOMAIN accounts \subseteq Nat
  BY EntryFacts
<1>2. find_account(a) \subseteq Nat
  BY <1>1 DEF find_account
<1>3. p \in find_account(a) /\ \A j \in find_account(a) : p <= j
  BY <1>2, LeastIndex
<1> HIDE DEF p
<1>4. p \in DOMAIN accounts /\ accounts[p].id = a
  BY <1>3 DEF find_account
<1>5. ASSUME NEW i \in DOMAIN accounts, accounts[i].id = a
      PROVE  p <= i /\ (i = p \/ accounts[i].folders = <<>>)
  <2>1. p <= i
    BY <1>3, <1>5 DEF find_account
  <2>2. i = p \/ p < i
    BY <1>1, <1>4, <2>1, SMT
  <2> QED
    BY <1>4, <1>5, <2>1, <2>2 DEF FirstHasRows
<1> QED
  BY <1>4, <1>5 DEF p

\* set_folder_status keeps accounts, folders and the shape of the list. Only f may
\* come to be shown as syncing, and is not any more after another status.
LEMMA StatusEffect ==
  ASSUME SetFacts, accounts \in Seq(AccountEntry), NEW f \in Folder, NEW st \in Status,
         NEW own, NEW us, NEW cred, Fits(accounts, own, us, cred)
  PROVE  LET list2 == set_folder_status(f, st)
         IN /\ list2 \in Seq(AccountEntry) /\ Same(accounts, list2)
            /\ Fits(list2, own, us, cred)
            /\ \A g \in Folder : Shows(list2, g) => Shows(accounts, g) \/ (g = f /\ st = "Syncing")
            /\ st # "Syncing" => ~Shows(list2, f)
\* The change of one status keeps all else.
<1>StatusRefill.
      ASSUME NEW list \in Seq(AccountEntry), NEW i \in DOMAIN list,
             NEW j \in DOMAIN list[i].folders, NEW status \in Status
      PROVE  /\ [list EXCEPT ![i].folders[j].status = status] \in Seq(AccountEntry)
             /\ Restated(list, [list EXCEPT ![i].folders[j].status = status], i, j, status)
  <2> DEFINE s == list[i].folders
             fs == [s EXCEPT ![j].status = status]
  <2>1. s \in Seq(FolderRow) /\ \A n \in DOMAIN s : s[n] \in FolderRow
    BY EntryFacts
  <2>2. DOMAIN s = 1..Len(s) /\ Len(s) \in Nat
    BY <2>1, SeqFacts
  <2>3. DOMAIN fs = DOMAIN s /\ fs[j] = [s[j] EXCEPT !.status = status]
        /\ \A n \in DOMAIN s \ {j} : fs[n] = s[n]
    OBVIOUS
  <2>4. fs[j] \in FolderRow /\ fs[j].id = s[j].id /\ fs[j].space = s[j].space /\ fs[j].status = status
    BY <2>1, <2>3 DEF FolderRow
  <2>5. fs = [n \in 1..Len(s) |-> fs[n]]
    BY <2>2
  <2>6. [list EXCEPT ![i].folders[j].status = status] = [list EXCEPT ![i].folders = fs]
    OBVIOUS
  <2> HIDE DEF fs
  <2>7. \A n \in 1..Len(s) : fs[n] \in FolderRow
    BY <2>1, <2>2, <2>3, <2>4
  <2>8. fs \in [1..Len(s) -> FolderRow]
    BY <2>5, <2>7
  <2>9. fs \in Seq(FolderRow)
    BY <2>2, <2>8, SeqOfFunction
  <2>10. LET list2 == [list EXCEPT ![i].folders = fs]
         IN list2 \in Seq(AccountEntry) /\ Refilled(list, list2, i, fs)
    BY <2>9, Refill, ZenonT(60)
  <2>11. /\ DOMAIN fs = DOMAIN s
         /\ \A n \in DOMAIN fs :
              /\ fs[n].id = s[n].id /\ fs[n].space = s[n].space
              /\ n # j => fs[n].status = s[n].status
         /\ fs[j].status = status
    BY <2>3, <2>4
  <2> DEFINE list2 == [list EXCEPT ![i].folders = fs]
  <2> HIDE DEF list2
  <2>12. list2 \in Seq(AccountEntry) /\ Refilled(list, list2, i, fs)
    BY <2>10 DEF list2
  <2>13. Restated(list, list2, i, j, status)
    <3>1. DOMAIN list2 = DOMAIN list /\ list2[i].folders = fs
      BY <2>12 DEF Refilled
    <3>2. ASSUME NEW m \in DOMAIN list
          PROVE  /\ list2[m].id = list[m].id /\ DOMAIN list2[m].folders = DOMAIN list[m].folders
                 /\ \A n \in DOMAIN list[m].folders :
                      /\ list2[m].folders[n].id = list[m].folders[n].id
                      /\ list2[m].folders[n].space = list[m].folders[n].space
                      /\ m # i \/ n # j => list2[m].folders[n].status = list[m].folders[n].status
      <4>1. CASE m = i
        BY <2>11, <2>12, <4>1 DEF Refilled
      <4>2. CASE m # i
        BY <2>12, <4>2 DEF Refilled
      <4> QED
        BY <4>1, <4>2
    <3> QED
      BY <2>11, <3>1, <3>2 DEF Restated
  <2> QED
    BY <2>6, <2>12, <2>13 DEF list2

<1> DEFINE list2 == set_folder_status(f, st)
           R(i) == accounts[i].folders
           S(i) == list2[i].folders
<1>1. DOMAIN accounts \subseteq Nat /\ \A i \in DOMAIN accounts : DOMAIN R(i) \subseteq Nat
  BY EntryFacts
<1>2. CASE find_folder(f) = {}
  <2>1. list2 = accounts
    BY <1>2 DEF set_folder_status
  <2>2. ~Shows(accounts, f)
    BY <1>2 DEF find_folder, HoldsFolder, Shows
  <2> QED
    BY <2>1, <2>2 DEF Same
<1>3. CASE find_folder(f) # {}
  <2> DEFINE p == First(find_folder(f))
             n == First(HoldsFolder(f, p))
  <2>1. p \in find_folder(f) /\ \A i \in find_folder(f) : p <= i
    <3>1. find_folder(f) \subseteq Nat
      BY <1>1 DEF find_folder
    <3> QED
      BY <1>3, <3>1, LeastIndex
  <2>2. p \in DOMAIN accounts /\ HoldsFolder(f, p) # {}
    BY <2>1 DEF find_folder
  <2>3. n \in HoldsFolder(f, p) /\ \A j \in HoldsFolder(f, p) : n <= j
    <3>1. HoldsFolder(f, p) \subseteq Nat
      BY <1>1, <2>2 DEF HoldsFolder
    <3> QED
      BY <2>2, <3>1, LeastIndex
  <2>4. list2 = [accounts EXCEPT ![p].folders[n].status = st]
    BY <1>3 DEF set_folder_status
  <2>5. n \in DOMAIN R(p) /\ R(p)[n].id = f
    BY <2>3 DEF HoldsFolder
  <2> HIDE DEF p, n
  <2>6. /\ [accounts EXCEPT ![p].folders[n].status = st] \in Seq(AccountEntry)
        /\ Restated(accounts, [accounts EXCEPT ![p].folders[n].status = st], p, n, st)
    BY <2>2, <2>5, <1>StatusRefill, ZenonT(60)
  <2>7. list2 \in Seq(AccountEntry) /\ Restated(accounts, list2, p, n, st)
    BY <2>4, <2>6
  <2> HIDE DEF list2
  <2>8. DOMAIN list2 = DOMAIN accounts
    BY <2>7 DEF Restated
  <2>9. ASSUME NEW i \in DOMAIN accounts
        PROVE  /\ list2[i].id = accounts[i].id /\ DOMAIN S(i) = DOMAIN R(i)
               /\ \A j \in DOMAIN R(i) :
                    /\ S(i)[j].id = R(i)[j].id /\ S(i)[j].space = R(i)[j].space
                    /\ i # p \/ j # n => S(i)[j].status = R(i)[j].status
    BY <2>7 DEF Restated
  <2>10. S(p)[n].status = st
    BY <2>7 DEF Restated
  <2> HIDE DEF S
  <2>11. Same(accounts, list2)
    <3>1. \A b : Has(list2, b) <=> Has(accounts, b)
      BY <2>8, <2>9 DEF Has
    <3>2. ASSUME NEW b \in Account, NEW g \in Folder, NEW t \in Space
          PROVE  HasRow(list2, b, g, t) <=> HasRow(accounts, b, g, t)
      BY <2>8, <2>9, SMT DEF HasRow, S
    <3> QED
      BY <3>1, <3>2 DEF Same
  <2>12. ASSUME NEW i \in DOMAIN accounts, NEW j \in DOMAIN R(i), R(i)[j].id = f
         PROVE  /\ p <= i /\ (i = p => n <= j)
                /\ R(i)[j].status = "Syncing" => i = p /\ j = n
    <3>1. i \in find_folder(f) /\ j \in HoldsFolder(f, i)
      BY <2>12 DEF find_folder, HoldsFolder
    <3>2. p <= i /\ (i = p => n <= j)
      BY <2>1, <2>3, <3>1 DEF p, n
    <3>3. ASSUME R(i)[j].status = "Syncing" PROVE i < p \/ (i = p /\ j <= n)
      BY <2>2, <2>5, <2>12, <3>3 DEF Fits, FirstSyncs
    <3> QED
      BY <1>1, <2>2, <2>5, <3>2, <3>3, SMT
  <2>13. ASSUME NEW g \in Folder, Shows(list2, g)
         PROVE  Shows(accounts, g) \/ (g = f /\ st = "Syncing")
    <3>1. PICK i \in DOMAIN accounts : \E j \in DOMAIN R(i) :
            S(i)[j].id = g /\ S(i)[j].status = "Syncing"
      BY <2>8, <2>9, <2>13 DEF Shows, S
    <3>2. PICK j \in DOMAIN R(i) : S(i)[j].id = g /\ S(i)[j].status = "Syncing"
      BY <3>1
    <3>3. CASE i = p /\ j = n
      BY <2>5, <2>9, <2>10, <3>2, <3>3
    <3>4. CASE i # p \/ j # n
      BY <2>9, <3>2, <3>4, SMT DEF Shows
    <3> QED
      BY <3>3, <3>4
  <2>14. ASSUME st # "Syncing", Shows(list2, f) PROVE FALSE
    <3>1. PICK i \in DOMAIN accounts : \E j \in DOMAIN R(i) :
            S(i)[j].id = f /\ S(i)[j].status = "Syncing"
      BY <2>8, <2>9, <2>14 DEF Shows, S
    <3>2. PICK j \in DOMAIN R(i) : S(i)[j].id = f /\ S(i)[j].status = "Syncing"
      BY <3>1
    <3>3. CASE i = p /\ j = n
      BY <2>10, <2>14, <3>2, <3>3
    <3>4. CASE i # p \/ j # n
      BY <2>9, <2>12, <3>2, <3>4, SMT
    <3> QED
      BY <3>3, <3>4
  <2>15. FirstHasRows(list2)
    <3>1. ASSUME NEW i \in DOMAIN accounts, R(i) = <<>> PROVE S(i) = <<>>
      <4>1. DOMAIN R(i) = {}
        BY <3>1, SMT
      <4>2. S(i) \in Seq(FolderRow) /\ DOMAIN S(i) = {}
        BY <2>7, <2>8, <2>9, <4>1, EntryFacts DEF S
      <4>3. Len(S(i)) \in Nat /\ DOMAIN S(i) = 1..Len(S(i))
        BY <4>2, SMT
      <4>4. Len(S(i)) = 0
        BY <4>2, <4>3, SMT
      <4> QED
        BY <4>2, <4>4, SMT
    <3> QED
      BY <2>8, <2>9, <3>1 DEF Fits, FirstHasRows, S
  <2>16. ASSUME NEW i \in DOMAIN accounts, NEW m \in DOMAIN accounts,
                NEW j \in DOMAIN R(i), NEW k \in DOMAIN R(m),
                S(i)[j].status = "Syncing", S(i)[j].id = S(m)[k].id
         PROVE  i < m \/ (i = m /\ j <= k)
    <3>1. R(i)[j].id = R(m)[k].id
      BY <2>9, <2>16
    <3>2. CASE i = p /\ j = n
      BY <1>1, <2>5, <2>12, <3>1, <3>2, SMT
    <3>3. CASE i # p \/ j # n
      <4>1. R(i)[j].status = "Syncing"
        BY <2>9, <2>16, <3>3
      <4> QED
        BY <3>1, <4>1 DEF Fits, FirstSyncs
    <3> QED
      BY <3>2, <3>3
  <2>17. FirstSyncs(list2)
    BY <2>8, <2>9, <2>16 DEF FirstSyncs, S
  <2>18. Fits(list2, own, us, cred)
    BY <2>8, <2>9, <2>15, <2>17, SMT DEF Fits, S
  <2> QED
    BY <2>7, <2>11, <2>13, <2>14, <2>18 DEF list2
<1> QED
  BY <1>2, <1>3

(****************************************************************************)
(* Finite sets, and the events behind a position.                           *)
(****************************************************************************)

\* A finite set's order lists each member once.
LEMMA OrderedFacts ==
  ASSUME SetFacts, NEW S, IsFiniteSet(S)
  PROVE  /\ Ordered(S) \in Seq(S)
         /\ Ordered(S) \in [DOMAIN Ordered(S) -> S]
         /\ \A x \in S : \E i \in DOMAIN Ordered(S) : Ordered(S)[i] = x
         /\ \A i, j \in DOMAIN Ordered(S) : Ordered(S)[i] = Ordered(S)[j] => i = j
BY ZenonT(60) DEF SetFacts, OrderLists

\* A part of a finite set is finite.
LEMMA FinitePart ==
  ASSUME SetFacts, NEW S, IsFiniteSet(S), NEW T \in SUBSET S
  PROVE  IsFiniteSet(T)
BY ZenonT(60) DEF SetFacts

\* The rest is a list of events: the tail of the wire, then the channel.
LEMMA RestFacts ==
  ASSUME NEW T, NEW w \in Seq(T), NEW q \in Seq(T),
         NEW k \in Nat, NEW d \in Nat, Len(w) = k + d
  PROVE  Rest(w, q, k) \in Seq(T) /\ IsRest(Rest(w, q, k), w, q, k, d)
\* The concatenation of two sequences.
<1>ConcatFacts.
      ASSUME NEW E, NEW s \in Seq(E), NEW t \in Seq(E)
      PROVE  /\ s \o t \in Seq(E) /\ Len(s \o t) = Len(s) + Len(t)
             /\ \A i \in 1..(Len(s) + Len(t)) :
                  (s \o t)[i] = IF i <= Len(s) THEN s[i] ELSE t[i - Len(s)]
  BY SMT

<1> DEFINE t == SubSeq(w, k + 1, Len(w))
<1>1. Len(w) \in Nat /\ Len(q) \in Nat
  BY SMT
<1>2. t \in Seq(T) /\ Len(t) = d /\ \A i \in 1..d : t[i] = w[k + i]
  <2>1. \A i \in (k + 1)..Len(w) : w[i] \in T
    BY <1>1, SMT
  <2>2. /\ t \in Seq(T)
        /\ Len(t) = IF k + 1 <= Len(w) THEN Len(w) - (k + 1) + 1 ELSE 0
        /\ \A i \in 1..(Len(w) - (k + 1) + 1) : t[i] = w[k + 1 + i - 1]
    BY <1>1, <2>1, SMT
  <2> HIDE DEF t
  <2>3. Len(t) = d
    BY <1>1, <2>2, SMT
  <2>4. ASSUME NEW i \in 1..d PROVE t[i] = w[k + i]
    <3>1. i \in 1..(Len(w) - (k + 1) + 1) /\ k + 1 + i - 1 = k + i
      BY <1>1, SMT
    <3> QED
      BY <2>2, <3>1
  <2> QED
    BY <2>2, <2>3, <2>4
<1> HIDE DEF t
<1>3. /\ t \o q \in Seq(T) /\ Len(t \o q) = d + Len(q)
      /\ \A i \in 1..(d + Len(q)) : (t \o q)[i] = IF i <= d THEN t[i] ELSE q[i - d]
  <2>1. /\ t \o q \in Seq(T) /\ Len(t \o q) = Len(t) + Len(q)
        /\ \A i \in 1..(Len(t) + Len(q)) :
             (t \o q)[i] = IF i <= Len(t) THEN t[i] ELSE q[i - Len(t)]
    BY <1>2, <1>ConcatFacts, ZenonT(60)
  <2> QED
    BY <1>2, <2>1
<1>4. ASSUME NEW i \in 1..d PROVE (t \o q)[i] = w[k + i]
  BY <1>1, <1>2, <1>3, SMT
<1>5. ASSUME NEW i \in 1..Len(q) PROVE (t \o q)[d + i] = q[i]
  <2>1. d + i \in 1..(d + Len(q)) /\ ~(d + i <= d) /\ d + i - d = i
    BY <1>1, SMT
  <2>2. (t \o q)[d + i] = IF d + i <= d THEN t[d + i] ELSE q[d + i - d]
    BY <1>3, <2>1, SMT
  <2> QED
    BY <2>1, <2>2
<1>6. Rest(w, q, k) = t \o q
  BY DEF Rest, t
<1> QED
  BY <1>3, <1>4, <1>5, <1>6 DEF IsRest

\* This determines the rest.
LEMMA RestUnique ==
  ASSUME NEW T, NEW r \in Seq(T), NEW s \in Seq(T), NEW w, NEW q \in Seq(T),
         NEW k \in Nat, NEW d \in Nat, IsRest(r, w, q, k, d), IsRest(s, w, q, k, d)
  PROVE  r = s
<1>1. Len(q) \in Nat /\ Len(r) = d + Len(q) /\ Len(s) = d + Len(q)
  BY SMT DEF IsRest
<1>2. ASSUME NEW i \in 1..Len(r) PROVE r[i] = s[i]
  <2>1. CASE i <= d
    BY <1>1, <2>1, SMT DEF IsRest
  <2>2. CASE i > d
    <3>1. i - d \in 1..Len(q) /\ i = d + (i - d)
      BY <1>1, <2>2, SMTT(30), ZenonT(30)
    <3>2. r[d + (i - d)] = q[i - d] /\ s[d + (i - d)] = q[i - d]
      BY <3>1 DEF IsRest
    <3> QED
      BY <3>1, <3>2
  <2> QED
    BY <1>1, <2>1, <2>2, SMT
<1> QED
  BY <1>1, <1>2, SMT

\* A suffix is the list, shifted.
LEMMA SuffixAt ==
  ASSUME NEW T, NEW r \in Seq(T), NEW r2 \in Seq(T), Suffix(r, r2)
  PROVE  \E d \in Nat : Shifted(r, r2, d)
<1>1. PICK d \in Nat : Len(r) = Len(r2) + d /\ \A i \in 1..Len(r2) : r2[i] = r[i + d]
  BY DEF Suffix
<1>2. /\ Len(r) \in Nat /\ DOMAIN r = 1..Len(r) /\ Len(r2) \in Nat /\ DOMAIN r2 = 1..Len(r2)
  BY SMT
<1>3. \A i \in DOMAIN r2 : i + d \in DOMAIN r /\ r2[i] = r[i + d]
  BY <1>1, <1>2, SMT
<1>4. ASSUME NEW j \in DOMAIN r, j > d PROVE j - d \in DOMAIN r2 /\ r2[j - d] = r[j]
  <2>1. j - d \in DOMAIN r2 /\ (j - d) + d = j
    BY <1>1, <1>2, <1>4, SMT
  <2> QED
    BY <1>3, <2>1
<1>5. DOMAIN r \subseteq Nat /\ DOMAIN r2 \subseteq Nat
  BY <1>2, SMT
<1> QED
  BY <1>3, <1>4, <1>5 DEF Shifted

\* What a list tells of the folders, its suffixes tell too.
LEMMA SuffixTrails ==
  ASSUME NEW T, NEW r \in Seq(T), NEW r2 \in Seq(T), Suffix(r, r2),
         NEW conf, NEW fold, Trails(r, conf, fold)
  PROVE  Trails(r2, conf, fold)
<1>1. PICK d \in Nat : Shifted(r, r2, d)
  BY SuffixAt, ZenonT(60)
<1>2. /\ DOMAIN r \subseteq Nat /\ DOMAIN r2 \subseteq Nat
      /\ \A i \in DOMAIN r2 : i + d \in DOMAIN r /\ r2[i] = r[i + d]
      /\ \A j \in DOMAIN r : j > d => j - d \in DOMAIN r2 /\ r2[j - d] = r[j]
  BY <1>1 DEF Shifted
<1>3. ASSUME NEW a \in Account, NEW f \in Folder, NEW s \in Space, NEW i \in DOMAIN r2,
             Adds(r2[i], a, f, s), fold[f] # [account |-> a, space |-> s], a \in conf
      PROVE  \E j \in DOMAIN r2 : j > i /\ Takes(r2[j], a, f)
  <2>1. i + d \in DOMAIN r /\ Adds(r[i + d], a, f, s)
    BY <1>2, <1>3
  <2>2. PICK j \in DOMAIN r : j > i + d /\ Takes(r[j], a, f)
    BY <1>3, <2>1 DEF Trails
  <2>3. j - d \in DOMAIN r2 /\ r2[j - d] = r[j] /\ j - d > i
    BY <1>2, <2>2, SMT
  <2> QED
    BY <2>2, <2>3, ZenonT(60)
<1>4. ASSUME NEW a \in Account, NEW f \in Folder, NEW i \in DOMAIN r2, Takes(r2[i], a, f)
      PROVE  fold[f] = None
  BY <1>2, <1>4 DEF Trails
<1> QED
  BY <1>3, <1>4 DEF Trails

\* A start in a suffix has its end in the suffix.
LEMMA SuffixEnds ==
  ASSUME NEW T, NEW r \in Seq(T), NEW r2 \in Seq(T), Suffix(r, r2), NEW real, Ends(r, real)
  PROVE  Ends(r2, real)
<1>1. PICK d \in Nat : Shifted(r, r2, d)
  BY SuffixAt, ZenonT(60)
<1>2. /\ DOMAIN r \subseteq Nat /\ DOMAIN r2 \subseteq Nat
      /\ \A i \in DOMAIN r2 : i + d \in DOMAIN r /\ r2[i] = r[i + d]
      /\ \A j \in DOMAIN r : j > d => j - d \in DOMAIN r2 /\ r2[j - d] = r[j]
  BY <1>1 DEF Shifted
<1>3. ASSUME NEW f \in Folder, NEW i \in DOMAIN r2, Starts(r2[i], f), f \notin real
      PROVE  \E j \in DOMAIN r2 : j > i /\ Finishes(r2[j], f)
  <2>1. i + d \in DOMAIN r /\ Starts(r[i + d], f)
    BY <1>2, <1>3
  <2>2. PICK j \in DOMAIN r : j > i + d /\ Finishes(r[j], f)
    BY <1>3, <2>1 DEF Ends
  <2>3. j - d \in DOMAIN r2 /\ r2[j - d] = r[j] /\ j - d > i
    BY <1>2, <2>2, SMT
  <2> QED
    BY <2>2, <2>3, ZenonT(60)
<1> QED
  BY <1>3 DEF Ends

\* The first event and the others.
LEMMA TailShifts ==
  ASSUME NEW T, NEW r \in Seq(T), r # <<>>
  PROVE  /\ Tail(r) \in Seq(T) /\ Suffix(r, Tail(r)) /\ Shifted(r, Tail(r), 1)
         /\ 1 \in DOMAIN r /\ Head(r) = r[1]
<1>1. /\ Tail(r) \in Seq(T) /\ Len(Tail(r)) = Len(r) - 1
      /\ \A i \in 1..Len(Tail(r)) : Tail(r)[i] = r[i + 1]
  BY SMT
<1>2. /\ Len(r) \in Nat \ {0} /\ DOMAIN r = 1..Len(r) /\ Len(Tail(r)) \in Nat
      /\ DOMAIN Tail(r) = 1..Len(Tail(r))
  BY <1>1, SMT
<1> DEFINE t == Tail(r)
<1> HIDE DEF t
<1>3. \A i \in DOMAIN t : i + 1 \in DOMAIN r /\ t[i] = r[i + 1]
  BY <1>1, <1>2, SMT DEF t
<1>4. ASSUME NEW j \in DOMAIN r, j > 1 PROVE j - 1 \in DOMAIN t /\ t[j - 1] = r[j]
  <2>1. j - 1 \in DOMAIN t /\ (j - 1) + 1 = j
    BY <1>1, <1>2, <1>4, SMT DEF t
  <2> QED
    BY <1>3, <2>1
<1>5. DOMAIN r \subseteq Nat /\ DOMAIN t \subseteq Nat
  BY <1>2, SMT DEF t
<1>6. Shifted(r, t, 1)
  BY <1>3, <1>4, <1>5 DEF Shifted
<1>7. Suffix(r, t)
  <2>1. Len(r) = Len(t) + 1 /\ \A i \in 1..Len(t) : t[i] = r[i + 1]
    BY <1>1, <1>2, SMT DEF t
  <2> QED
    BY <2>1 DEF Suffix
<1> QED
  BY <1>1, <1>2, <1>6, <1>7, SMT DEF t

(****************************************************************************)
(* Commands, pages and events.                                              *)
(****************************************************************************)

\* A removal that waits behind another command, or is sent.
LEMMA RemovesConcat ==
  ASSUME NEW p \in Seq(DaemonCommand), NEW q \in Seq(DaemonCommand), NEW a
  PROVE  p \o q \in Seq(DaemonCommand) /\ (Removes(p \o q, a) <=> Removes(p, a) \/ Removes(q, a))
<1>1. /\ Len(p) \in Nat /\ DOMAIN p = 1..Len(p) /\ Len(q) \in Nat /\ DOMAIN q = 1..Len(q)
  BY SMT
<1>2. /\ p \o q \in Seq(DaemonCommand) /\ Len(p \o q) = Len(p) + Len(q)
      /\ \A i \in 1..(Len(p) + Len(q)) :
           (p \o q)[i] = IF i <= Len(p) THEN p[i] ELSE q[i - Len(p)]
  BY SMT
<1> DEFINE r == p \o q
<1> HIDE DEF r
<1>3. r \in Seq(DaemonCommand) /\ DOMAIN r = 1..(Len(p) + Len(q))
  BY <1>2, SMT DEF r
<1>4. \A i \in DOMAIN p : i \in DOMAIN r /\ r[i] = p[i]
  BY <1>1, <1>2, <1>3, SMT DEF r
<1>5. ASSUME NEW i \in DOMAIN q PROVE Len(p) + i \in DOMAIN r /\ r[Len(p) + i] = q[i]
  <2>1. Len(p) + i \in 1..(Len(p) + Len(q)) /\ ~(Len(p) + i <= Len(p)) /\ (Len(p) + i) - Len(p) = i
    BY <1>1, SMT
  <2> QED
    BY <1>2, <1>3, <2>1 DEF r
<1>6. ASSUME NEW i \in DOMAIN r
      PROVE  (\E j \in DOMAIN p : r[i] = p[j]) \/ (\E j \in DOMAIN q : r[i] = q[j])
  <2>1. CASE i <= Len(p)
    <3>1. i \in DOMAIN p
      BY <1>1, <1>3, <2>1, SMT
    <3> QED
      BY <1>4, <3>1
  <2>2. CASE ~(i <= Len(p))
    <3>1. i - Len(p) \in DOMAIN q /\ Len(p) + (i - Len(p)) = i
      BY <1>1, <1>3, <2>2, SMT
    <3> QED
      BY <1>5, <3>1
  <2> QED
    BY <2>1, <2>2
<1>7. Removes(r, a) <=> Removes(p, a) \/ Removes(q, a)
  <2>1. Removes(r, a) => Removes(p, a) \/ Removes(q, a)
    BY <1>6 DEF Removes
  <2>2. Removes(p, a) => Removes(r, a)
    BY <1>4 DEF Removes
  <2>3. Removes(q, a) => Removes(r, a)
    BY <1>5 DEF Removes
  <2> QED
    BY <2>1, <2>2, <2>3
<1> QED
  BY <1>3, <1>7 DEF r

\* One command.
LEMMA RemovesOne ==
  ASSUME NEW c \in DaemonCommand, NEW a
  PROVE  /\ <<c>> \in Seq(DaemonCommand) /\ Len(<<c>>) = 1 /\ ~Removes(<<>>, a)
         /\ Removes(<<c>>, a) <=> c.cmd = "RemoveAccount" /\ c.account = a
BY SMT DEF Removes

\* A command is sent, or lost.
LEMMA SendFacts ==
  ASSUME TypeOK, NEW c \in DaemonCommand, NEW sent \in BOOLEAN, send(c, sent), inbox' = inbox
  PROVE  /\ cmds' \in Seq(DaemonCommand) /\ Len(cmds') <= CmdCap /\ lost' \in BOOLEAN
         /\ Leaving \subseteq Leaving'
         /\ \A a \in Leaving' : a \in Leaving \/ (c.cmd = "RemoveAccount" /\ c.account = a)
         /\ sent /\ link # "down" /\ c.cmd = "RemoveAccount" /\ c.account \in Account =>
              c.account \in Leaving'
<1>1. cmds \in Seq(DaemonCommand) /\ Len(cmds) <= CmdCap /\ lost \in BOOLEAN
  BY DEF TypeOK
<1>2. CASE sent /\ link # "down" /\ Len(cmds) < CmdCap /\ cmds' = Append(cmds, c) /\ UNCHANGED lost
  <2>1. Append(cmds, c) = cmds \o <<c>>
    BY <1>1, SMTT(30)
  <2>2. cmds' \in Seq(DaemonCommand) /\ Len(cmds') = Len(cmds) + 1
    BY <1>1, <1>2, SMT
  <2>3. Len(cmds') <= CmdCap
    BY <1>1, <1>2, <2>2, GuiAssumption, SMT
  <2>4. \A a : Removes(cmds', a) <=> Removes(cmds, a) \/ (c.cmd = "RemoveAccount" /\ c.account = a)
    <3>1. cmds' = cmds \o <<c>> /\ <<c>> \in Seq(DaemonCommand)
      BY <1>2, <2>1, SMT
    <3> QED
      BY <1>1, <3>1, RemovesConcat, RemovesOne, ZenonT(60)
  <2>5. Leaving' = {a \in Account : Removes(inbox, a) \/ Removes(cmds, a)
                                    \/ (c.cmd = "RemoveAccount" /\ c.account = a)}
    BY <2>4 DEF Leaving
  <2> QED
    BY <1>1, <1>2, <2>2, <2>3, <2>5 DEF Leaving
<1>3. CASE cmds' = cmds /\ lost' = TRUE /\ (link = "down" \/ ~sent)
  <2>1. Leaving' = Leaving
    BY <1>3 DEF Leaving
  <2> QED
    BY <1>1, <1>3, <2>1
<1> QED
  BY <1>2, <1>3 DEF send

\* A page's name and account make a page.
LEMMA AtPage ==
  ASSUME NEW name \in View, NEW a \in Account \cup {None}
  PROVE  At(name, a) \in Page
<1>1. {} \in SUBSET Space /\ FALSE \in BOOLEAN
  OBVIOUS
<1> QED
  BY <1>1, SMT DEF At, Page

\* What all states have in common.
LEMMA InvTypes ==
  ASSUME Inv
  PROVE  /\ TypeOK /\ configured \subseteq credentials /\ signing \subseteq Account \ credentials
         /\ Leaving \subseteq credentials /\ \A f \in used : sched[f] # None
         /\ lost \in BOOLEAN /\ unanswered \in BOOLEAN /\ lagged \in BOOLEAN /\ raced \in BOOLEAN
<1>1. TypeOK /\ Roles
  BY DEF Inv
<1>2. signing \subseteq Account
  BY <1>1 DEF TypeOK
<1>3. signing \subseteq Account \ credentials
  BY <1>1, <1>2 DEF Roles
<1>4. lost \in BOOLEAN /\ unanswered \in BOOLEAN /\ lagged \in BOOLEAN /\ raced \in BOOLEAN
  BY <1>1, ZenonT(30) DEF TypeOK
<1> QED
  BY <1>1, <1>3, <1>4 DEF Roles

\* What the kind of an event tells about its fields.
LEMMA EventFields ==
  ASSUME NEW e \in DaemonEvent
  PROVE  /\ e.ev = "AccountSnapshot" => e.accounts \in Seq(AccountEntry)
         /\ e.ev \in {"SyncStarted", "SyncFinished", "AccountFolderAdded", "SpaceRemoved"} =>
              e.folder \in Folder
         /\ e.ev = "SyncFinished" => e.ok \in BOOLEAN
         /\ e.ev \in {"AccountAddFailed", "AccountAddCompleted", "SpacesListed",
                      "AccountFolderAdded", "SpaceRemoved"} => e.account \in Account
         /\ e.ev = "AccountSpaceFailed" => e.account \in Account \cup {None}
         /\ e.ev = "AccountFolderAdded" => e.space \in Space
BY DEF DaemonEvent

\* What is changed on a page leaves it a page.
LEMMA PageFacts ==
  ASSUME NEW p \in Page
  PROVE  /\ p.account \in Account \cup {None} /\ p.selected \in SUBSET Space /\ p.at \in View
         /\ [p EXCEPT !.error = TRUE] \in Page
         /\ [p EXCEPT !.path = TRUE, !.error = FALSE] \in Page
         /\ \A S \in SUBSET Space : [p EXCEPT !.offered = S] \in Page /\ [p EXCEPT !.selected = S] \in Page
         /\ \A S, T \in SUBSET Space : [p EXCEPT !.offered = S, !.selected = T] \in Page
<1>1. p.account \in Account \cup {None} /\ p.selected \in SUBSET Space /\ p.at \in View
  BY DEF Page
<1>2. [p EXCEPT !.error = TRUE] \in Page /\ [p EXCEPT !.path = TRUE, !.error = FALSE] \in Page
  BY DEF Page
<1>3. \A S \in SUBSET Space : [p EXCEPT !.offered = S] \in Page /\ [p EXCEPT !.selected = S] \in Page
  BY DEF Page
<1>4. \A S, T \in SUBSET Space : [p EXCEPT !.offered = S, !.selected = T] \in Page
  BY DEF Page
<1> QED
  BY <1>1, <1>2, <1>3, <1>4

\* An account the GUI has heard of has signed in.
LEMMA HeardSigned ==
  ASSUME NEW own, Agreed(own), NEW a, Heard(a)
  PROVE  a \in credentials
<1>1. CASE Has(accounts, a)
  BY <1>1 DEF Agreed, Fits, Has
<1>2. ASSUME NEW i \in DOMAIN wire,
             Joins(wire[i], a) \/ (wire[i].ev = "AccountSnapshot" /\ Has(wire[i].accounts, a))
      PROVE  a \in credentials
  <2>1. EventFits(wire[i], own, used, credentials)
    BY DEF Agreed
  <2>2. CASE Joins(wire[i], a)
    BY <2>1, <2>2 DEF EventFits, Joins
  <2>3. CASE wire[i].ev = "AccountSnapshot" /\ Has(wire[i].accounts, a)
    BY <2>1, <2>3 DEF EventFits, Fits, Has
  <2> QED
    BY <1>2, <2>2, <2>3
<1> QED
  BY <1>1, <1>2 DEF Heard

(****************************************************************************)
(* The GUI: events.                                                         *)
(****************************************************************************)

\* Every event the GUI handles keeps the invariant.
LEMMA EventsInv ==
  ASSUME SetFacts, Inv, handle_daemon_event
  PROVE  Inv'
\* An event is handled: the list changes as the event says.
<1>HearStep.
      ASSUME wire # <<>>, wire' = Tail(wire),
             UNCHANGED <<config, jobs, tasks, link, queue, inbox, lagged, raced, dropped, unanswered>>,
             view' \in Page, cmds' \in Seq(DaemonCommand), Len(cmds') <= CmdCap, lost' \in BOOLEAN,
             Leaving' = Leaving, accounts' \in Seq(AccountEntry),
             NEW own \in [Folder -> Account \cup {None}], Agreed(own),
             Fits(accounts', own, used, credentials),
             NEW e \in DaemonEvent, e = Head(wire),
             e.ev # "AccountSnapshot" => After(accounts, accounts', e) /\ Turns(accounts, accounts', e),
             e.ev = "AccountSnapshot" => accounts' = e.accounts
      PROVE  Inv'
  <2> USE <1>HearStep
  \* What the GUI handles before the last snapshot is not of the rest.
  <2>RestBehind.
        ASSUME NEW T, NEW w \in Seq(T), NEW q \in Seq(T), w # <<>>, NEW k \in 1..Len(w)
        PROVE  Rest(Tail(w), q, k - 1) = Rest(w, q, k)
    <3> USE <2>RestBehind
    <3> DEFINE v == Tail(w)
               d == Len(w) - k
    <3>1. v \in Seq(T) /\ Len(v) = Len(w) - 1 /\ \A i \in 1..Len(v) : v[i] = w[i + 1]
      BY SMT
    <3>2. /\ Len(w) \in Nat /\ Len(q) \in Nat /\ k \in Nat /\ k - 1 \in Nat /\ d \in Nat
          /\ Len(w) = k + d /\ Len(v) = (k - 1) + d
      BY <3>1, SMT
    <3> HIDE DEF v, d
    <3> DEFINE r == Rest(v, q, k - 1)
    <3>3. r \in Seq(T) /\ IsRest(r, v, q, k - 1, d)
      BY <3>1, <3>2, RestFacts
    <3>4. Rest(w, q, k) \in Seq(T) /\ IsRest(Rest(w, q, k), w, q, k, d)
      BY <3>2, RestFacts
    <3> HIDE DEF r
    <3>5. ASSUME NEW i \in 1..d PROVE r[i] = w[k + i]
      <4>1. r[i] = v[(k - 1) + i] /\ (k - 1) + i \in 1..Len(v) /\ (k - 1) + i + 1 = k + i
        BY <3>2, <3>3, SMT DEF IsRest
      <4> QED
        BY <3>1, <4>1
    <3>6. IsRest(r, w, q, k, d)
      BY <3>3, <3>5 DEF IsRest
    <3> QED
      BY <3>2, <3>3, <3>4, <3>6, RestUnique, SMT DEF r, v

  \* Without a snapshot the GUI takes the first event of the rest.
  <2>RestHead.
        ASSUME NEW T, NEW w \in Seq(T), NEW q \in Seq(T), w # <<>>
        PROVE  /\ Rest(w, q, 0) \in Seq(T) /\ Rest(w, q, 0) # <<>> /\ Head(w) = Head(Rest(w, q, 0))
               /\ Rest(Tail(w), q, 0) = Tail(Rest(w, q, 0))
    <3> USE <2>RestHead
    <3> DEFINE v == Tail(w)
               r == Rest(w, q, 0)
               s == Rest(v, q, 0)
    <3>1. v \in Seq(T) /\ Len(v) = Len(w) - 1 /\ \A i \in 1..Len(v) : v[i] = w[i + 1]
      BY SMT
    <3>2. Len(w) \in Nat \ {0} /\ Len(q) \in Nat /\ Len(v) \in Nat
      BY <3>1, SMT
    <3> HIDE DEF v
    <3>3. r \in Seq(T) /\ IsRest(r, w, q, 0, Len(w))
      BY <3>2, RestFacts, SMT
    <3>4. s \in Seq(T) /\ IsRest(s, v, q, 0, Len(v))
      BY <3>1, <3>2, RestFacts, SMT
    <3> HIDE DEF r, s
    <3>5. Len(r) = Len(w) + Len(q) /\ r # <<>> /\ r[1] = w[1]
      <4>1. Len(r) = Len(w) + Len(q) /\ r[1] = w[0 + 1]
        BY <3>2, <3>3, SMT DEF IsRest
      <4> QED
        BY <3>2, <4>1, SMT
    <3>6. Tail(r) \in Seq(T) /\ Len(Tail(r)) = Len(r) - 1 /\ \A i \in 1..Len(Tail(r)) : Tail(r)[i] = r[i + 1]
      BY <3>3, <3>5, SMT
    <3>7. IsRest(Tail(r), v, q, 0, Len(v))
      <4>1. Len(Tail(r)) = Len(v) + Len(q)
        BY <3>1, <3>2, <3>5, <3>6, SMT
      <4>2. ASSUME NEW i \in 1..Len(v) PROVE Tail(r)[i] = v[0 + i]
        <5>1. i \in 1..Len(Tail(r)) /\ i + 1 \in 1..Len(w) /\ 0 + (i + 1) = i + 1
          BY <3>1, <3>2, <4>1, SMT
        <5>2. r[i + 1] = w[0 + (i + 1)]
          BY <3>3, <5>1 DEF IsRest
        <5> QED
          BY <3>1, <3>6, <5>1, <5>2, SMT
      <4>3. ASSUME NEW i \in 1..Len(q) PROVE Tail(r)[Len(v) + i] = q[i]
        <5>1. Len(v) + i \in 1..Len(Tail(r)) /\ (Len(v) + i) + 1 = Len(w) + i
          BY <3>1, <3>2, <4>1, SMT
        <5>2. r[Len(w) + i] = q[i]
          BY <3>3 DEF IsRest
        <5> QED
          BY <3>6, <5>1, <5>2
      <4> QED
        BY <4>1, <4>2, <4>3 DEF IsRest
    <3>8. Tail(r) = s
      BY <3>2, <3>4, <3>6, <3>7, RestUnique
    <3> QED
      BY <3>3, <3>5, <3>8, SMT DEF r, s, v

  \* The GUI applies the first event: the list after it and the events behind
  \* it amount to what the list and the events did.
  <2>MirrorHear.
        ASSUME NEW T, NEW r \in Seq(T), r # <<>>, NEW list, NEW list2, NEW conf, NEW fold, NEW leave,
               Mirrors(list, r, conf, fold, leave), After(list, list2, Head(r))
        PROVE  Mirrors(list2, Tail(r), conf, fold, leave)
    <3> USE <2>MirrorHear
    <3> DEFINE t == Tail(r)
               ev == Head(r)
    <3>1. t \in Seq(T) /\ Suffix(r, t) /\ Shifted(r, t, 1) /\ 1 \in DOMAIN r /\ ev = r[1]
      BY TailShifts
    <3>2. DOMAIN r \subseteq Nat /\ DOMAIN t \subseteq Nat
      BY <3>1 DEF Shifted
    <3>3. \A i \in DOMAIN t : i + 1 \in DOMAIN r /\ t[i] = r[i + 1]
      BY <3>1 DEF Shifted
    <3>4. \A i \in DOMAIN r : i > 1 => i - 1 \in DOMAIN t /\ t[i - 1] = r[i]
      BY <3>1 DEF Shifted
    <3>5. \A i \in DOMAIN r : i = 1 \/ i > 1
      BY SeqFacts
    <3> HIDE DEF t, ev
    <3>6. Trails(t, conf, fold)
      BY <3>1, SuffixTrails DEF Mirrors
    <3>7. ASSUME NEW a \in Account
          PROVE  (\E i \in DOMAIN r : Joins(r[i], a)) <=> Joins(ev, a) \/ \E i \in DOMAIN t : Joins(t[i], a)
      BY <3>1, <3>3, <3>4, <3>5
    <3>8. AccountsMirror(list2, t, conf, leave)
      BY <3>7 DEF Mirrors, AccountsMirror, After, ev
    <3>9. ASSUME NEW a \in Account, NEW f \in Folder, NEW s \in Space,
                 fold[f] = [account |-> a, space |-> s], a \notin leave
          PROVE  \/ HasRow(list2, a, f, s)
                 \/ \E i \in DOMAIN t :
                      /\ Adds(t[i], a, f, s)
                      /\ Has(list2, a) \/ \E j \in DOMAIN t : j < i /\ Joins(t[j], a)
      <4>1. ~Takes(ev, a, f)
        <5>1. fold[f] # None
          BY <3>9, SmallFacts
        <5> QED
          BY <3>1, <5>1 DEF Mirrors, Trails
      <4>2. CASE HasRow(list, a, f, s)
        BY <4>1, <4>2 DEF After, ev
      <4>3. ASSUME NEW i \in DOMAIN r, Adds(r[i], a, f, s),
                   Has(list, a) \/ \E j \in DOMAIN r : j < i /\ Joins(r[j], a)
            PROVE  \/ HasRow(list2, a, f, s)
                   \/ \E n \in DOMAIN t :
                        /\ Adds(t[n], a, f, s)
                        /\ Has(list2, a) \/ \E j \in DOMAIN t : j < n /\ Joins(t[j], a)
        <5>1. CASE i = 1
          <6>1. Adds(ev, a, f, s) /\ Has(list, a)
            BY <3>1, <3>2, <3>5, <4>3, <5>1, SMT
          <6> QED
            BY <6>1 DEF After, ev
        <5>2. CASE i > 1
          <6>1. i - 1 \in DOMAIN t /\ Adds(t[i - 1], a, f, s)
            BY <3>4, <4>3, <5>2
          <6>2. CASE Has(list, a) \/ Joins(ev, a)
            <7>1. Has(list2, a)
              BY <6>2 DEF After, ev
            <7> QED
              BY <6>1, <7>1
          <6>3. ASSUME NEW j \in DOMAIN r, j < i, Joins(r[j], a), j > 1
                PROVE  \E n \in DOMAIN t :
                         /\ Adds(t[n], a, f, s)
                         /\ Has(list2, a) \/ \E m \in DOMAIN t : m < n /\ Joins(t[m], a)
            <7>1. j - 1 \in DOMAIN t /\ Joins(t[j - 1], a) /\ j - 1 < i - 1
              BY <3>2, <3>4, <6>3, SMT
            <7> QED
              BY <6>1, <7>1, ZenonT(60)
          <6> QED
            BY <3>1, <3>5, <4>3, <6>2, <6>3
        <5> QED
          BY <3>5, <5>1, <5>2
      <4> QED
        BY <3>9, <4>2, <4>3 DEF Mirrors, FoldersMirror
    <3>10. ASSUME NEW a \in Account, NEW f \in Folder, NEW s \in Space, HasRow(list2, a, f, s)
          PROVE  fold[f] = [account |-> a, space |-> s] \/ \E i \in DOMAIN t : Takes(t[i], a, f)
      <4>1. CASE HasRow(list, a, f, s) /\ ~Takes(ev, a, f)
        <5>1. fold[f] = [account |-> a, space |-> s] \/ \E i \in DOMAIN r : Takes(r[i], a, f)
          BY <4>1 DEF Mirrors, FoldersMirror
        <5> QED
          BY <3>1, <3>4, <3>5, <4>1, <5>1
      <4>2. CASE Adds(ev, a, f, s) /\ Has(list, a)
        <5>1. a \in conf
          BY <4>2 DEF Mirrors, AccountsMirror
        <5>2. \/ fold[f] = [account |-> a, space |-> s]
              \/ \E j \in DOMAIN r : j > 1 /\ Takes(r[j], a, f)
          BY <3>1, <4>2, <5>1 DEF Mirrors, Trails
        <5> QED
          BY <3>4, <5>2
      <4> QED
        BY <3>10, <4>1, <4>2 DEF After, ev
    <3>11. FoldersMirror(list2, t, fold, leave)
      BY <3>9, <3>10 DEF FoldersMirror
    <3> QED
      BY <3>6, <3>8, <3>11 DEF Mirrors, t

  \* What the list after it shows as syncing is, or its end is behind it.
  <2>ShowsHear.
        ASSUME NEW T, NEW r \in Seq(T), r # <<>>, NEW list, NEW list2, NEW real,
               Ends(r, real), ShowsReal(list, r, real), Turns(list, list2, Head(r))
        PROVE  Ends(Tail(r), real) /\ ShowsReal(list2, Tail(r), real)
    <3> USE <2>ShowsHear
    <3> DEFINE t == Tail(r)
               ev == Head(r)
    <3>1. t \in Seq(T) /\ Suffix(r, t) /\ Shifted(r, t, 1) /\ 1 \in DOMAIN r /\ ev = r[1]
      BY TailShifts
    <3>2. \A i \in DOMAIN r : i > 1 => i - 1 \in DOMAIN t /\ t[i - 1] = r[i]
      BY <3>1 DEF Shifted
    <3>3. \A i \in DOMAIN r : i = 1 \/ i > 1
      BY SeqFacts
    <3> HIDE DEF t, ev
    <3>4. Ends(t, real)
      BY <3>1, SuffixEnds
    <3>5. ASSUME NEW f \in Folder, Shows(list2, f), f \notin real
          PROVE  \E i \in DOMAIN t : Finishes(t[i], f)
      <4>1. CASE Shows(list, f) /\ ~Finishes(ev, f)
        <5>1. PICK i \in DOMAIN r : Finishes(r[i], f)
          BY <3>5, <4>1 DEF ShowsReal
        <5> QED
          BY <3>1, <3>2, <3>3, <4>1, <5>1
      <4>2. CASE Starts(ev, f)
        <5>1. PICK i \in DOMAIN r : i > 1 /\ Finishes(r[i], f)
          BY <3>1, <3>5, <4>2 DEF Ends
        <5> QED
          BY <3>2, <5>1
      <4> QED
        BY <3>5, <4>1, <4>2 DEF Turns, ev
    <3>6. ShowsReal(list2, t, real)
      BY <3>5 DEF ShowsReal
    <3> QED
      BY <3>4, <3>6 DEF t

  <2>1. TypeOK /\ Roles /\ QueueInv /\ CopyInv
    BY DEF Inv
  <2>2. /\ configured' = configured /\ folder' = folder /\ used' = used /\ credentials' = credentials
        /\ sched' = sched /\ running' = running /\ announcing' = announcing
        /\ signing' = signing /\ listing' = listing
        /\ inbox' = inbox /\ queue' = queue /\ lagged' = lagged /\ raced' = raced
        /\ dropped' = dropped /\ unanswered' = unanswered /\ link' = link
    BY DEF config, jobs, tasks
  <2>3. Reals' = Reals
    BY <2>2 DEF Reals
  <2>4. wire \in Seq(DaemonEvent) /\ queue \in Seq(DaemonEvent) /\ Len(wire) <= WireCap
    BY <2>1 DEF TypeOK
  <2>5. /\ Tail(wire) \in Seq(DaemonEvent) /\ Shifted(wire, Tail(wire), 1)
        /\ 1 \in DOMAIN wire /\ Head(wire) = wire[1]
    BY <2>4, TailShifts
  <2>6. /\ Len(wire) \in Nat /\ Len(wire') = Len(wire) - 1 /\ DOMAIN wire = 1..Len(wire)
        /\ DOMAIN wire' = 1..Len(wire') /\ Len(wire) >= 1
    <3>1. Len(Tail(wire)) = Len(wire) - 1 /\ Len(wire) \in Nat
      BY <2>4, SMT
    <3>2. DOMAIN wire = 1..Len(wire) /\ DOMAIN Tail(wire) = 1..Len(Tail(wire))
      BY <2>4, <2>5, SMT
    <3> QED
      BY <2>5, <3>1, <3>2, SMT
  <2>7. \A i \in DOMAIN wire' : i + 1 \in DOMAIN wire /\ wire'[i] = wire[i + 1]
    BY <2>5 DEF Shifted
  <2>8. TypeOK'
    <3>1. Len(wire') <= WireCap
      BY <2>4, <2>6, GuiAssumption, SMT
    <3> QED
      BY <2>1, <2>2, <2>5, <3>1 DEF TypeOK
  <2>9. Roles'
    BY <2>1, <2>2 DEF Roles
  <2>10. Owned'
    <3>1. \A i \in DOMAIN wire' : EventFits(wire'[i], own, used, credentials)
      BY <2>7 DEF Agreed
    <3>2. /\ \A i \in DOMAIN queue : EventFits(queue[i], own, used, credentials)
          /\ \A f \in Folder : folder[f] # None =>
               f \in used /\ own[f] = folder[f].account /\ own[f] \in configured
      BY DEF Agreed
    <3>3. Agreed(own)'
      BY <2>2, <3>1, <3>2 DEF Agreed
    <3> QED
      BY <3>3 DEF Owned
  <2>11. \A a \in Account : Heard(a)' => Heard(a)
    <3> TAKE a \in Account
    <3>1. ASSUME Has(accounts', a) PROVE Heard(a)
      <4>1. CASE e.ev = "AccountSnapshot"
        BY <2>5, <3>1, <4>1 DEF Heard
      <4>2. CASE e.ev # "AccountSnapshot"
        <5>1. Has(accounts, a) \/ Joins(e, a)
          BY <3>1, <4>2 DEF After
        <5> QED
          BY <2>5, <5>1 DEF Heard
      <4> QED
        BY <4>1, <4>2
    <3>2. ASSUME NEW i \in DOMAIN wire',
                 Joins(wire'[i], a) \/ (wire'[i].ev = "AccountSnapshot" /\ Has(wire'[i].accounts, a))
          PROVE  Heard(a)
      <4>1. PICK j \in DOMAIN wire : wire'[i] = wire[j]
        BY <2>7
      <4> QED
        BY <3>2, <4>1 DEF Heard
    <3> QED
      BY <3>1, <3>2 DEF Heard
  <2>12. QueueInv'
    BY <2>1, <2>2, <2>3, <2>11 DEF QueueInv, Listening
  <2>13. ASSUME link \in {"snapped", "streaming"}, ~lagged, NEW k \in 0..Len(wire'), Mark(wire', k)
         PROVE  LET r == Rest(wire', queue, k)
                    list == Base(accounts', wire', k)
                IN /\ Ends(r, Reals) /\ ShowsReal(list, r, Reals)
                   /\ ~raced => Mirrors(list, r, configured, folder, Leaving)
    <3>1. k \in Nat /\ \A i \in DOMAIN wire : i > k + 1 => wire[i].ev # "AccountSnapshot"
      <4>1. k \in Nat
        BY <2>6, SMT
      <4>2. ASSUME NEW i \in DOMAIN wire, i > k + 1 PROVE wire[i].ev # "AccountSnapshot"
        <5>1. i - 1 \in DOMAIN wire' /\ wire'[i - 1] = wire[i] /\ i - 1 > k
          BY <2>5, <2>6, <4>1, <4>2, SMT DEF Shifted
        <5> QED
          BY <2>13, <5>1 DEF Mark
      <4> QED
        BY <4>1, <4>2
    <3>2. CASE k # 0 \/ e.ev = "AccountSnapshot"
      <4>1. PICK m \in 1..Len(wire) : m = k + 1
        BY <2>6, <3>1, SMT
      <4>2. wire[m].ev = "AccountSnapshot" /\ Base(accounts', wire', k) = wire[m].accounts
        <5>1. CASE k = 0
          BY <2>5, <3>2, <4>1, <5>1, SMT DEF Base
        <5>2. CASE k # 0
          <6>1. k \in DOMAIN wire' /\ wire'[k] = wire[m]
            BY <2>6, <2>7, <3>1, <4>1, <5>2, SMT
          <6> QED
            BY <2>13, <5>2, <6>1 DEF Mark, Base
        <5> QED
          BY <5>1, <5>2
      <4>3. Mark(wire, m)
        BY <3>1, <4>1, <4>2 DEF Mark
      <4>4. m \in 0..Len(wire) /\ m # 0 /\ m - 1 = k
        BY <2>6, <3>1, <4>1, SMT
      <4>5. InStep(Base(accounts, wire, m), Rest(wire, queue, m))
        BY <2>1, <2>13, <4>3, <4>4 DEF CopyInv
      <4>6. Base(accounts', wire', k) = Base(accounts, wire, m)
        BY <4>2, <4>4 DEF Base
      <4>7. Rest(wire', queue, k) = Rest(wire, queue, m)
        BY <2>4, <4>4, <2>RestBehind
      <4> QED
        BY <4>5, <4>6, <4>7 DEF InStep
    <3>3. CASE k = 0 /\ e.ev # "AccountSnapshot"
      <4>1. Mark(wire, 0)
        <5>1. \A i \in DOMAIN wire : i > 0 => wire[i].ev # "AccountSnapshot"
          BY <2>5, <2>6, <3>1, <3>3, SMT
        <5> QED
          BY <5>1 DEF Mark
      <4>2. 0 \in 0..Len(wire)
        BY <2>6, SMT
      <4>3. InStep(accounts, Rest(wire, queue, 0))
        BY <2>1, <2>13, <4>1, <4>2 DEF CopyInv, Base
      <4>4. PICK r \in Seq(DaemonEvent) : r = Rest(wire, queue, 0) /\ r # <<>> /\ Head(r) = e
        BY <2>4, <2>RestHead
      <4>5. Rest(wire', queue, 0) = Tail(r)
        BY <2>4, <4>4, <2>RestHead
      <4>6. Ends(r, Reals) /\ ShowsReal(accounts, r, Reals)
        BY <4>3, <4>4 DEF InStep
      <4>7. After(accounts, accounts', Head(r)) /\ Turns(accounts, accounts', Head(r))
        BY <3>3, <4>4
      <4>8. Ends(Tail(r), Reals) /\ ShowsReal(accounts', Tail(r), Reals)
        BY <4>4, <4>6, <4>7, <2>ShowsHear
      <4>9. ASSUME ~raced PROVE Mirrors(accounts', Tail(r), configured, folder, Leaving)
        <5>1. Mirrors(accounts, r, configured, folder, Leaving)
          BY <4>3, <4>4, <4>9 DEF InStep
        <5> QED
          BY <4>4, <4>7, <5>1, <2>MirrorHear
      <4>10. Base(accounts', wire', k) = accounts'
        BY <3>3 DEF Base
      <4> QED
        BY <3>3, <4>5, <4>8, <4>9, <4>10
    <3> QED
      BY <3>2, <3>3
  <2>14. CopyInv'
    BY <2>2, <2>3, <2>13, SMT DEF CopyInv, InStep
  <2> QED
    BY <2>8, <2>9, <2>10, <2>12, <2>14 DEF Inv

\* What is known when an event is received.
<1>ReceiveFacts.
      ASSUME NEW name, Receives(name)
      PROVE  /\ wire # <<>> /\ wire' = Tail(wire)
             /\ UNCHANGED <<config, jobs, tasks, link, queue, inbox, lagged, raced, dropped, unanswered>>
             /\ Head(wire) \in DaemonEvent /\ Head(wire).ev = name
             /\ accounts \in Seq(AccountEntry) /\ view \in Page
             /\ \E own \in [Folder -> Account \cup {None}] :
                  /\ Agreed(own) /\ Fits(accounts, own, used, credentials)
                  /\ EventFits(Head(wire), own, used, credentials)
             /\ cmds' = cmds /\ lost' = lost =>
                  /\ cmds' \in Seq(DaemonCommand) /\ Len(cmds') <= CmdCap /\ lost' \in BOOLEAN
                  /\ Leaving' = Leaving
  <2> USE <1>ReceiveFacts
  <2>1. TypeOK /\ lost \in BOOLEAN
    BY InvTypes
  <2>2. /\ wire # <<>> /\ wire' = Tail(wire) /\ Head(wire).ev = name /\ inbox' = inbox
        /\ UNCHANGED <<config, jobs, tasks, link, queue, inbox, lagged, raced, dropped, unanswered>>
    BY DEF Receives
  <2>3. wire \in Seq(DaemonEvent) /\ accounts \in Seq(AccountEntry) /\ view \in Page
    BY <2>1 DEF TypeOK
  <2>4. 1 \in DOMAIN wire /\ Head(wire) = wire[1]
    BY <2>2, <2>3, TailShifts
  <2>5. Head(wire) \in DaemonEvent
    BY <2>3, <2>4, SMT
  <2>6. PICK own \in [Folder -> Account \cup {None}] : Agreed(own)
    BY DEF Inv, Owned
  <2>7. Fits(accounts, own, used, credentials) /\ EventFits(Head(wire), own, used, credentials)
    BY <2>4, <2>6 DEF Agreed
  <2>8. cmds' = cmds /\ lost' = lost =>
          /\ cmds' \in Seq(DaemonCommand) /\ Len(cmds') <= CmdCap /\ lost' \in BOOLEAN
          /\ Leaving' = Leaving
    BY <2>1, <2>2 DEF TypeOK, Leaving
  <2> QED
    BY <2>2, <2>3, <2>5, <2>6, <2>7, <2>8

\* Events that change no list.
<1>NoticeInv.
      ASSUME OnAccountAddFailed \/ OnSpacesListed \/ OnAccountSpaceFailed
      PROVE  Inv'
  <2> USE <1>NoticeInv
  <2>1. PICK name \in {"AccountAddFailed", "SpacesListed", "AccountSpaceFailed"} : Receives(name)
    BY DEF OnAccountAddFailed, OnSpacesListed, OnAccountSpaceFailed
  <2>2. /\ wire # <<>> /\ wire' = Tail(wire)
        /\ UNCHANGED <<config, jobs, tasks, link, queue, inbox, lagged, raced, dropped, unanswered>>
        /\ Head(wire) \in DaemonEvent /\ Head(wire).ev = name
        /\ accounts \in Seq(AccountEntry) /\ view \in Page
        /\ \E own \in [Folder -> Account \cup {None}] :
             /\ Agreed(own) /\ Fits(accounts, own, used, credentials)
             /\ EventFits(Head(wire), own, used, credentials)
        /\ cmds' = cmds /\ lost' = lost =>
             /\ cmds' \in Seq(DaemonCommand) /\ Len(cmds') <= CmdCap /\ lost' \in BOOLEAN
             /\ Leaving' = Leaving
    BY <2>1, <1>ReceiveFacts
  <2>3. accounts' = accounts /\ cmds' = cmds /\ lost' = lost
    BY DEF OnAccountAddFailed, OnSpacesListed, OnAccountSpaceFailed
  <2>4. PICK e \in DaemonEvent : e = Head(wire)
    BY <2>2
  <2>5. PICK own \in [Folder -> Account \cup {None}] :
          Agreed(own) /\ Fits(accounts, own, used, credentials)
    BY <2>2
  <2>6. view' \in Page
    <3>1. CASE OnAccountAddFailed
      <4>1. At("AddAccount", None) \in Page
        BY AtPage DEF View
      <4>2. [At("AddAccount", None) EXCEPT !.error = TRUE] \in Page
        BY <4>1, PageFacts
      <4> QED
        BY <2>2, <3>1, <4>2 DEF OnAccountAddFailed
    <3>2. CASE OnAccountSpaceFailed
      <4>1. [view EXCEPT !.error = TRUE] \in Page
        BY <2>2, PageFacts
      <4> QED
        BY <2>2, <3>2, <4>1 DEF OnAccountSpaceFailed
    <3>3. CASE OnSpacesListed
      <4>1. PICK a \in Account : a = Head(wire).account
        BY <2>2, <3>3, EventFields DEF OnSpacesListed, Receives
      <4>2. PICK p \in Page : p = At("PickSpaces", a)
        <5>1. At("PickSpaces", a) \in Page
          BY AtPage DEF View
        <5> QED
          BY <5>1
      <4>3. \/ \E personal \in Space : view' = [p EXCEPT !.offered = Space, !.selected = {personal}]
            \/ \E S : view' = [p EXCEPT !.offered = Space \ S]
        BY <3>3, <4>1, <4>2 DEF OnSpacesListed
      <4>4. \A personal \in Space : [p EXCEPT !.offered = Space, !.selected = {personal}] \in Page
        <5>1. \A personal \in Space : Space \in SUBSET Space /\ {personal} \in SUBSET Space
          OBVIOUS
        <5> QED
          BY <4>2, <5>1, PageFacts
      <4>5. \A S : [p EXCEPT !.offered = Space \ S] \in Page
        <5>1. \A S : Space \ S \in SUBSET Space
          OBVIOUS
        <5> QED
          BY <4>2, <5>1, PageFacts
      <4> QED
        BY <4>3, <4>4, <4>5
    <3> QED
      BY <3>1, <3>2, <3>3
  <2>7. After(accounts, accounts', e) /\ Turns(accounts, accounts', e) /\ e.ev # "AccountSnapshot"
    BY <2>2, <2>3, <2>4 DEF After, Turns, Joins, Adds, Takes, Starts, Finishes
  <2>8. accounts' \in Seq(AccountEntry) /\ Fits(accounts', own, used, credentials)
    BY <2>2, <2>3, <2>5
  <2> QED
    BY <2>2, <2>3, <2>4, <2>5, <2>6, <2>7, <2>8, <1>HearStep

\* A snapshot replaces the list.
<1>OnAccountSnapshotInv.
      ASSUME OnAccountSnapshot
      PROVE  Inv'
  <2> USE <1>OnAccountSnapshotInv
  <2>1. Receives("AccountSnapshot") /\ accounts' = Head(wire).accounts
        /\ view' = view /\ cmds' = cmds /\ lost' = lost
    BY DEF OnAccountSnapshot
  <2>2. /\ wire # <<>> /\ wire' = Tail(wire)
        /\ UNCHANGED <<config, jobs, tasks, link, queue, inbox, lagged, raced, dropped, unanswered>>
        /\ Head(wire) \in DaemonEvent /\ Head(wire).ev = "AccountSnapshot" /\ view \in Page
        /\ \E own \in [Folder -> Account \cup {None}] :
             Agreed(own) /\ EventFits(Head(wire), own, used, credentials)
        /\ cmds' \in Seq(DaemonCommand) /\ Len(cmds') <= CmdCap /\ lost' \in BOOLEAN
        /\ Leaving' = Leaving
    BY <2>1, <1>ReceiveFacts
  <2>3. PICK e \in DaemonEvent : e = Head(wire)
    BY <2>2
  <2>4. PICK own \in [Folder -> Account \cup {None}] :
          Agreed(own) /\ EventFits(e, own, used, credentials)
    BY <2>2, <2>3
  <2>5. e.ev = "AccountSnapshot" /\ accounts' = e.accounts /\ view' \in Page
    BY <2>1, <2>2, <2>3
  <2>6. accounts' \in Seq(AccountEntry) /\ Fits(accounts', own, used, credentials)
    BY <2>4, <2>5, EventFields DEF EventFits
  <2> QED
    BY <2>2, <2>3, <2>4, <2>5, <2>6, <1>HearStep

\* The start and the end of a run are shown.
<1>OnSyncInv.
      ASSUME OnSyncStarted \/ OnSyncFinished
      PROVE  Inv'
  <2> USE <1>OnSyncInv
  <2>1. PICK name \in {"SyncStarted", "SyncFinished"} : Receives(name)
    BY DEF OnSyncStarted, OnSyncFinished
  <2>2. /\ wire # <<>> /\ wire' = Tail(wire)
        /\ UNCHANGED <<config, jobs, tasks, link, queue, inbox, lagged, raced, dropped, unanswered>>
        /\ Head(wire) \in DaemonEvent /\ Head(wire).ev = name
        /\ accounts \in Seq(AccountEntry) /\ view \in Page
        /\ \E own \in [Folder -> Account \cup {None}] :
             Agreed(own) /\ Fits(accounts, own, used, credentials)
        /\ cmds' = cmds /\ lost' = lost =>
             /\ cmds' \in Seq(DaemonCommand) /\ Len(cmds') <= CmdCap /\ lost' \in BOOLEAN
             /\ Leaving' = Leaving
    BY <2>1, <1>ReceiveFacts
  <2>3. view' = view /\ cmds' = cmds /\ lost' = lost
    BY DEF OnSyncStarted, OnSyncFinished
  <2>4. PICK e \in DaemonEvent : e = Head(wire)
    BY <2>2
  <2>5. PICK own \in [Folder -> Account \cup {None}] :
          Agreed(own) /\ Fits(accounts, own, used, credentials)
    BY <2>2
  <2>6. PICK f \in Folder : f = e.folder
    BY <2>1, <2>2, <2>4, EventFields
  <2>7. PICK st \in Status : /\ accounts' = set_folder_status(f, st)
                             /\ name = "SyncStarted" <=> st = "Syncing"
    <3>1. CASE OnSyncStarted
      BY <2>2, <2>4, <2>6, <3>1 DEF OnSyncStarted, Receives, Status, set_folder_status
    <3>2. CASE OnSyncFinished
      <4>1. PICK st \in {"Idle", "Error"} : st = IF Head(wire).ok THEN "Idle" ELSE "Error"
        OBVIOUS
      <4>2. accounts' = set_folder_status(f, st)
        BY <2>4, <2>6, <3>2, <4>1 DEF OnSyncFinished, set_folder_status
      <4>3. st \in Status /\ st # "Syncing"
        BY DEF Status
      <4>4. name # "SyncStarted"
        BY <2>2, <3>2 DEF OnSyncFinished, Receives
      <4> QED
        BY <4>2, <4>3, <4>4
    <3> QED
      BY <3>1, <3>2
  <2>8. /\ accounts' \in Seq(AccountEntry) /\ Same(accounts, accounts')
        /\ Fits(accounts', own, used, credentials)
        /\ \A g \in Folder : Shows(accounts', g) => Shows(accounts, g) \/ (g = f /\ st = "Syncing")
        /\ st # "Syncing" => ~Shows(accounts', f)
    BY <2>2, <2>5, <2>7, StatusEffect
  <2>9. e.ev = name
    BY <2>2, <2>4
  <2>10. After(accounts, accounts', e) /\ e.ev # "AccountSnapshot"
    BY <2>1, <2>8, <2>9 DEF After, Same, Joins, Adds, Takes
  <2>11. Turns(accounts, accounts', e)
    <3>1. \A g \in Folder : Finishes(e, g) => g = f /\ st # "Syncing"
      BY <2>6, <2>7, <2>9 DEF Finishes
    <3>2. st = "Syncing" => Starts(e, f)
      BY <2>6, <2>7, <2>9 DEF Starts
    <3> QED
      BY <2>8, <3>1, <3>2 DEF Turns
  <2>12. view' \in Page
    BY <2>2, <2>3
  <2> QED
    BY <2>2, <2>3, <2>4, <2>5, <2>8, <2>10, <2>11, <2>12, <1>HearStep

\* A new account is listed, and its spaces are asked for.
<1>OnAccountAddCompletedInv.
      ASSUME OnAccountAddCompleted
      PROVE  Inv'
  <2> USE <1>OnAccountAddCompletedInv
  \* Event AccountAddCompleted: a new entry at the end, without rows.
  <2>EntryAdded.
        ASSUME accounts \in Seq(AccountEntry), NEW a \in Account,
               NEW own, NEW us, NEW cred, Fits(accounts, own, us, cred), a \in cred
        PROVE  LET list2 == Append(accounts, [id |-> a, folders |-> <<>>])
               IN /\ list2 \in Seq(AccountEntry) /\ Fits(list2, own, us, cred)
                  /\ \A b : Has(list2, b) <=> Has(accounts, b) \/ b = a
                  /\ \A b, g, t : HasRow(list2, b, g, t) <=> HasRow(accounts, b, g, t)
                  /\ \A g : Shows(list2, g) => Shows(accounts, g)
    <3> USE <2>EntryAdded
    <3> DEFINE x == [id |-> a, folders |-> <<>>]
               list2 == Append(accounts, x)
               l == Len(accounts) + 1
    <3>1. x \in AccountEntry /\ x.id = a /\ x.folders = <<>>
      BY SMT DEF AccountEntry
    <3>2. list2 \in Seq(AccountEntry)
      BY <3>1, SMT
    <3>3. DOMAIN accounts = 1..Len(accounts) /\ Len(accounts) \in Nat
      BY SeqFacts
    <3>4. Len(list2) = l
      BY <3>1, SMT
    <3>5. DOMAIN list2 = 1..l
      BY <3>2, <3>4, SMT
    <3>6. DOMAIN list2 = DOMAIN accounts \cup {l} /\ l \notin DOMAIN accounts /\ l \in Nat
          /\ \A i \in DOMAIN accounts : i \in Nat /\ i < l
      BY <3>3, <3>5, SMT
    <3>7. list2[l] = x /\ \A i \in DOMAIN accounts : list2[i] = accounts[i]
      BY <3>1, <3>3, SMT
    <3> HIDE DEF x, list2, l
    <3>8. DOMAIN x.folders = {}
      BY <3>1, SMT
    <3>9. \A b : Has(list2, b) <=> Has(accounts, b) \/ b = a
      BY <3>1, <3>6, <3>7 DEF Has
    <3>10. \A b, g, t : HasRow(list2, b, g, t) <=> HasRow(accounts, b, g, t)
      BY <3>6, <3>7, <3>8, SMT DEF HasRow
    <3>11. \A g : Shows(list2, g) => Shows(accounts, g)
      BY <3>6, <3>7, <3>8 DEF Shows
    <3>12. FirstHasRows(list2)
      <4>1. ASSUME NEW i \in DOMAIN list2, NEW j \in DOMAIN list2, j < i, list2[j].id = list2[i].id
            PROVE  list2[i].folders = <<>>
        <5>1. CASE i = l
          BY <3>1, <3>7, <5>1
        <5>2. CASE i # l
          <6>1. i \in DOMAIN accounts /\ j \in DOMAIN accounts
            BY <3>6, <4>1, <5>2, SMT
          <6> QED
            BY <3>7, <4>1, <6>1 DEF Fits, FirstHasRows
        <5> QED
          BY <5>1, <5>2
      <4> QED
        BY <4>1 DEF FirstHasRows
    <3>13. FirstSyncs(list2)
      <4>1. ASSUME NEW i \in DOMAIN list2, NEW j \in DOMAIN list2[i].folders
            PROVE  i \in DOMAIN accounts /\ list2[i] = accounts[i]
        BY <3>6, <3>7, <3>8, <4>1
      <4> QED
        BY <4>1, SMT DEF Fits, FirstSyncs
    <3>14. Fits(list2, own, us, cred)
      <4>1. ASSUME NEW i \in DOMAIN list2
            PROVE  /\ list2[i].id \in cred
                   /\ \A j \in DOMAIN list2[i].folders :
                        list2[i].folders[j].id \in us /\ own[list2[i].folders[j].id] = list2[i].id
        <5>1. CASE i = l
          BY <3>1, <3>7, <3>8, <5>1
        <5>2. CASE i # l
          BY <3>6, <3>7, <5>2 DEF Fits
        <5> QED
          BY <5>1, <5>2
      <4> QED
        BY <3>12, <3>13, <4>1 DEF Fits
    <3> QED
      BY <3>2, <3>9, <3>10, <3>11, <3>14 DEF list2, x

  <2>1. Receives("AccountAddCompleted") /\ view' = view
    BY DEF OnAccountAddCompleted
  <2>2. /\ wire # <<>> /\ wire' = Tail(wire)
        /\ UNCHANGED <<config, jobs, tasks, link, queue, inbox, lagged, raced, dropped, unanswered>>
        /\ Head(wire) \in DaemonEvent /\ Head(wire).ev = "AccountAddCompleted"
        /\ accounts \in Seq(AccountEntry) /\ view \in Page
        /\ \E own \in [Folder -> Account \cup {None}] :
             /\ Agreed(own) /\ Fits(accounts, own, used, credentials)
             /\ EventFits(Head(wire), own, used, credentials)
    BY <2>1, <1>ReceiveFacts
  <2>3. PICK e \in DaemonEvent : e = Head(wire)
    BY <2>2
  <2>4. PICK a \in Account : a = e.account
    BY <2>2, <2>3, EventFields
  <2>5. PICK own \in [Folder -> Account \cup {None}] :
          /\ Agreed(own) /\ Fits(accounts, own, used, credentials)
          /\ EventFits(e, own, used, credentials)
    BY <2>2, <2>3
  <2>6. e.ev = "AccountAddCompleted" /\ a \in credentials
    BY <2>2, <2>3, <2>4, <2>5 DEF EventFits
  <2>7. accounts' = Append(accounts, [id |-> a, folders |-> <<>>])
    BY <2>3, <2>4 DEF OnAccountAddCompleted
  <2>8. /\ accounts' \in Seq(AccountEntry) /\ Fits(accounts', own, used, credentials)
        /\ \A b : Has(accounts', b) <=> Has(accounts, b) \/ b = a
        /\ \A b, g, t : HasRow(accounts', b, g, t) <=> HasRow(accounts, b, g, t)
        /\ \A g : Shows(accounts', g) => Shows(accounts, g)
    BY <2>2, <2>5, <2>6, <2>7, <2>EntryAdded
  <2>9. /\ cmds' \in Seq(DaemonCommand) /\ Len(cmds') <= CmdCap /\ lost' \in BOOLEAN
        /\ Leaving' = Leaving
    <3>1. PICK sent \in BOOLEAN : send(Command("ListSpaces", Head(wire).account), sent)
      BY DEF OnAccountAddCompleted
    <3>2. PICK c \in DaemonCommand : c = Command("ListSpaces", a) /\ c.cmd = "ListSpaces"
      <4>1. Command("ListSpaces", a) \in DaemonCommand
        BY DEF Command, DaemonCommand
      <4> QED
        BY <4>1 DEF Command
    <3>3. send(c, sent)
      BY <2>3, <2>4, <3>1, <3>2 DEF send
    <3>4. TypeOK /\ inbox' = inbox
      BY <2>2 DEF Inv
    <3>5. /\ cmds' \in Seq(DaemonCommand) /\ Len(cmds') <= CmdCap /\ lost' \in BOOLEAN
          /\ Leaving \subseteq Leaving'
          /\ \A b \in Leaving' : b \in Leaving \/ (c.cmd = "RemoveAccount" /\ c.account = b)
      BY <3>3, <3>4, SendFacts
    <3> QED
      BY <3>2, <3>5
  <2>10. /\ After(accounts, accounts', e) /\ Turns(accounts, accounts', e)
         /\ e.ev # "AccountSnapshot"
    <3>1. \A b : Joins(e, b) <=> b = a
      BY <2>4, <2>6 DEF Joins
    <3>2. \A b, g, t : ~Adds(e, b, g, t) /\ ~Takes(e, b, g) /\ ~Finishes(e, g)
      BY <2>6 DEF Adds, Takes, Finishes
    <3> QED
      BY <2>6, <2>8, <3>1, <3>2 DEF After, Turns
  <2>11. view' \in Page
    BY <2>1, <2>2
  <2> QED
    BY <2>2, <2>3, <2>5, <2>8, <2>9, <2>10, <2>11, <1>HearStep

\* A row is added to the first entry of its account.
<1>OnAccountFolderAddedInv.
      ASSUME OnAccountFolderAdded
      PROVE  Inv'
  <2> USE <1>OnAccountFolderAddedInv
  \* Event AccountFolderAdded: a row at the end of the account's first entry.
  <2>RowAdded.
        ASSUME accounts \in Seq(AccountEntry), NEW a \in Account, NEW f \in Folder, NEW s \in Space,
               Has(accounts, a), NEW own, NEW us, NEW cred, Fits(accounts, own, us, cred),
               f \in us, own[f] = a, NEW new, RowPut(accounts, new, a, f, s)
        PROVE  new \in Seq(AccountEntry) /\ Fits(new, own, us, cred) /\ Grown(accounts, new, a, f, s)
    <3> USE <2>RowAdded
    <3>1. find_account(a) # {} /\ Spot(accounts, a) = First(find_account(a))
      BY DEF find_account, Has, Spot
    <3> DEFINE p == First(find_account(a))
               x == FolderView(f, s, "Idle")
               R(i) == accounts[i].folders
               fs == Append(R(p), x)
               l == Len(R(p)) + 1
               list2 == [accounts EXCEPT ![p].folders = Append(@, x)]
               S(i) == list2[i].folders
    <3>2. /\ p \in DOMAIN accounts /\ accounts[p].id = a
          /\ \A i \in DOMAIN accounts : accounts[i].id = a =>
               p <= i /\ (i = p \/ accounts[i].folders = <<>>)
      BY <3>1, FirstEntry DEF Fits
    <3>3. x \in FolderRow /\ x.id = f /\ x.space = s /\ x.status = "Idle"
      BY DEF FolderView, FolderRow, Status
    <3> HIDE DEF p, x
    <3>4. R(p) \in Seq(FolderRow)
      BY <3>2, EntryFacts
    <3>5. DOMAIN R(p) = 1..Len(R(p)) /\ Len(R(p)) \in Nat
      BY <3>4, SeqFacts
    <3>6. fs \in Seq(FolderRow) /\ Len(fs) = l
      BY <3>3, <3>4, SMT
    <3>7. DOMAIN fs = 1..l
      BY <3>6, SeqFacts
    <3>8. DOMAIN fs = DOMAIN R(p) \cup {l} /\ l \notin DOMAIN R(p)
          /\ l \in Nat /\ \A j \in DOMAIN R(p) : j \in Nat /\ j <= l
      BY <3>5, <3>7, SMT
    <3>9. fs[l] = x /\ \A j \in DOMAIN R(p) : fs[j] = R(p)[j]
      BY <3>3, <3>4, <3>5, SMT
    <3>10. list2 = [accounts EXCEPT ![p].folders = fs]
      OBVIOUS
    <3> HIDE DEF fs, l
    <3>11. LET v == [accounts EXCEPT ![p].folders = fs]
           IN v \in Seq(AccountEntry) /\ Refilled(accounts, v, p, fs)
      BY <3>2, <3>6, Refill, ZenonT(60)
    <3>12. list2 \in Seq(AccountEntry) /\ Refilled(accounts, list2, p, fs)
      BY <3>10, <3>11
    <3> HIDE DEF list2
    <3>13. DOMAIN list2 = DOMAIN accounts /\ \A i \in DOMAIN accounts : list2[i].id = accounts[i].id
      BY <3>12 DEF Refilled
    <3>14. S(p) = fs /\ \A i \in DOMAIN accounts : i # p => S(i) = R(i)
      BY <3>12 DEF Refilled
    <3>15. \A b : Has(list2, b) <=> Has(accounts, b)
      BY <3>13 DEF Has
    <3>16. ASSUME NEW b, NEW g, NEW t
           PROVE  HasRow(list2, b, g, t) <=> HasRow(accounts, b, g, t) \/ (b = a /\ g = f /\ t = s)
      <4>1. ASSUME NEW i \in DOMAIN accounts
            PROVE  (\E j \in DOMAIN S(i) : S(i)[j].id = g /\ S(i)[j].space = t) <=>
                     \/ \E j \in DOMAIN R(i) : R(i)[j].id = g /\ R(i)[j].space = t
                     \/ i = p /\ g = f /\ t = s
        <5>1. CASE i = p
          BY <3>3, <3>8, <3>9, <3>14, <5>1
        <5>2. CASE i # p
          BY <3>14, <5>2
        <5> QED
          BY <5>1, <5>2
      <4> QED
        BY <3>2, <3>13, <4>1 DEF HasRow
    <3>17. ASSUME NEW i \in DOMAIN accounts, NEW j \in DOMAIN S(i), S(i)[j].status = "Syncing"
           PROVE  j \in DOMAIN R(i) /\ R(i)[j] = S(i)[j]
      BY <3>3, <3>8, <3>9, <3>14, <3>17
    <3>18. \A g : Shows(list2, g) => Shows(accounts, g)
      BY <3>13, <3>17 DEF Shows
    <3>19. FirstHasRows(list2)
      <4>1. ASSUME NEW i \in DOMAIN accounts, NEW j \in DOMAIN accounts, j < i,
                   accounts[j].id = accounts[i].id
            PROVE  S(i) = <<>>
        <5>1. R(i) = <<>>
          BY <4>1 DEF Fits, FirstHasRows
        <5>2. i # p
          <6>1. ASSUME i = p PROVE p <= j
            BY <3>2, <4>1, <6>1
          <6>2. i \in Nat /\ j \in Nat
            BY EntryFacts
          <6> QED
            BY <4>1, <6>1, <6>2, SMT
        <5> QED
          BY <3>14, <5>1, <5>2
      <4> QED
        BY <3>13, <4>1 DEF FirstHasRows
    <3>20. ASSUME NEW i \in DOMAIN accounts, NEW m \in DOMAIN accounts,
                  NEW j \in DOMAIN S(i), NEW k \in DOMAIN S(m),
                  S(i)[j].status = "Syncing", S(i)[j].id = S(m)[k].id
           PROVE  i < m \/ (i = m /\ j <= k)
      <4>1. j \in DOMAIN R(i) /\ R(i)[j] = S(i)[j]
        BY <3>17, <3>20
      <4>2. CASE m = p /\ k = l
        <5>1. S(m)[k].id = f
          BY <3>3, <3>9, <3>14, <4>2
        <5>2. accounts[i].id = a
          BY <3>20, <4>1, <5>1 DEF Fits
        <5>3. R(i) # <<>>
          BY <4>1, SMT
        <5>4. i = p
          BY <3>2, <5>2, <5>3
        <5> QED
          BY <3>8, <4>1, <4>2, <5>4
      <4>3. CASE m # p \/ k # l
        <5>1. k \in DOMAIN R(m) /\ R(m)[k] = S(m)[k]
          BY <3>8, <3>9, <3>14, <3>20, <4>3, SMT
        <5> QED
          BY <3>20, <4>1, <5>1, ZenonT(60) DEF Fits, FirstSyncs
      <4> QED
        BY <4>2, <4>3
    <3>21. FirstSyncs(list2)
      BY <3>13, <3>20 DEF FirstSyncs
    <3>22. ASSUME NEW i \in DOMAIN accounts, NEW j \in DOMAIN S(i)
           PROVE  S(i)[j].id \in us /\ own[S(i)[j].id] = accounts[i].id
      <4>1. CASE i = p /\ j = l
        BY <3>2, <3>3, <3>9, <3>14, <4>1
      <4>2. CASE i # p \/ j # l
        <5>1. j \in DOMAIN R(i) /\ R(i)[j] = S(i)[j]
          BY <3>8, <3>9, <3>14, <3>22, <4>2, SMT
        <5> QED
          BY <5>1 DEF Fits
      <4> QED
        BY <4>1, <4>2
    <3>23. Fits(list2, own, us, cred)
      BY <3>13, <3>19, <3>21, <3>22 DEF Fits
    <3>24. Grown(accounts, list2, a, f, s)
      BY <3>15, <3>16, <3>18 DEF Grown
    <3>25. new = list2
      BY <3>1 DEF list2, p, x, RowPut, Filled
    <3> QED
      BY <3>12, <3>23, <3>24, <3>25

  <2>1. Receives("AccountFolderAdded") /\ cmds' = cmds /\ lost' = lost
    BY DEF OnAccountFolderAdded
  <2>2. /\ wire # <<>> /\ wire' = Tail(wire)
        /\ UNCHANGED <<config, jobs, tasks, link, queue, inbox, lagged, raced, dropped, unanswered>>
        /\ Head(wire) \in DaemonEvent /\ Head(wire).ev = "AccountFolderAdded"
        /\ accounts \in Seq(AccountEntry) /\ view \in Page
        /\ \E own \in [Folder -> Account \cup {None}] :
             /\ Agreed(own) /\ Fits(accounts, own, used, credentials)
             /\ EventFits(Head(wire), own, used, credentials)
        /\ cmds' \in Seq(DaemonCommand) /\ Len(cmds') <= CmdCap /\ lost' \in BOOLEAN
        /\ Leaving' = Leaving
    BY <2>1, <1>ReceiveFacts
  <2>3. PICK e \in DaemonEvent : e = Head(wire)
    BY <2>2
  <2>4. PICK a \in Account, f \in Folder, s \in Space : a = e.account /\ f = e.folder /\ s = e.space
    BY <2>2, <2>3, EventFields
  <2>5. PICK own \in [Folder -> Account \cup {None}] :
          /\ Agreed(own) /\ Fits(accounts, own, used, credentials)
          /\ EventFits(e, own, used, credentials)
    BY <2>2, <2>3
  <2>6. e.ev = "AccountFolderAdded" /\ f \in used /\ own[f] = a
    BY <2>2, <2>3, <2>4, <2>5 DEF EventFits
  <2>7. accounts' = IF find_account(a) = {} THEN accounts
                    ELSE [accounts EXCEPT ![First(find_account(a))].folders =
                            Append(@, FolderView(f, s, "Idle"))]
    BY <2>3, <2>4 DEF OnAccountFolderAdded, find_account
  <2>8. view' \in Page
    <3>1. SyncStatus \in Page
      <4>1. At("SyncStatus", None) \in Page
        BY AtPage DEF View
      <4> QED
        BY <4>1 DEF SyncStatus
    <3> QED
      BY <2>2, <3>1 DEF OnAccountFolderAdded
  <2>9. \A b, g, t : /\ ~Joins(e, b) /\ ~Takes(e, b, g) /\ ~Finishes(e, g)
                     /\ Adds(e, b, g, t) <=> b = a /\ g = f /\ t = s
    BY <2>4, <2>6 DEF Joins, Adds, Takes, Finishes
  <2>10. find_account(a) = {} <=> ~Has(accounts, a)
    BY DEF find_account, Has
  <2>11. CASE find_account(a) = {}
    <3>1. accounts' = accounts
      BY <2>7, <2>11
    <3>2. accounts' \in Seq(AccountEntry) /\ Fits(accounts', own, used, credentials)
      BY <2>2, <2>5, <3>1
    <3>3. After(accounts, accounts', e) /\ Turns(accounts, accounts', e) /\ e.ev # "AccountSnapshot"
      BY <2>6, <2>9, <2>10, <2>11, <3>1 DEF After, Turns
    <3> QED
      BY <2>2, <2>3, <2>5, <2>8, <3>2, <3>3, <1>HearStep
  <2>12. CASE find_account(a) # {}
    <3>1. accounts' = [accounts EXCEPT ![First(find_account(a))].folders =
                         Append(@, FolderView(f, s, "Idle"))]
      BY <2>7, <2>12
    <3>2. /\ accounts' \in Seq(AccountEntry) /\ Fits(accounts', own, used, credentials)
          /\ \A b : Has(accounts', b) <=> Has(accounts, b)
          /\ \A b, g, t : HasRow(accounts', b, g, t) <=>
               HasRow(accounts, b, g, t) \/ (b = a /\ g = f /\ t = s)
          /\ \A g : Shows(accounts', g) => Shows(accounts, g)
      <4>1. PICK new : new = accounts'
        OBVIOUS
      <4>2. Spot(accounts, a) = First(find_account(a))
        BY DEF Spot, find_account
      <4>3. RowPut(accounts, new, a, f, s)
        BY <3>1, <4>1, <4>2 DEF RowPut, Filled
      <4>4. /\ accounts \in Seq(AccountEntry) /\ Has(accounts, a) /\ f \in used /\ own[f] = a
            /\ Fits(accounts, own, used, credentials)
        BY <2>2, <2>5, <2>6, <2>10, <2>12
      <4>5. new \in Seq(AccountEntry) /\ Fits(new, own, used, credentials) /\ Grown(accounts, new, a, f, s)
        BY <4>3, <4>4, <2>RowAdded
      <4> QED
        BY <4>1, <4>5 DEF Grown
    <3>3. After(accounts, accounts', e) /\ Turns(accounts, accounts', e) /\ e.ev # "AccountSnapshot"
      <4>1. Has(accounts, a)
        BY <2>10, <2>12
      <4>2. After(accounts, accounts', e)
        <5>1. \A b \in Account : Has(accounts', b) <=> Has(accounts, b) \/ Joins(e, b)
          BY <2>9, <3>2
        <5>2. ASSUME NEW b \in Account, NEW g \in Folder, NEW t \in Space
              PROVE  HasRow(accounts', b, g, t) <=>
                       \/ HasRow(accounts, b, g, t) /\ ~Takes(e, b, g)
                       \/ Adds(e, b, g, t) /\ Has(accounts, b)
          <6>1. CASE b = a /\ g = f /\ t = s
            BY <2>9, <3>2, <4>1, <6>1
          <6>2. CASE ~(b = a /\ g = f /\ t = s)
            BY <2>9, <3>2, <6>2, SMT
          <6> QED
            BY <6>1, <6>2
        <5> QED
          BY <5>1, <5>2 DEF After
      <4>3. Turns(accounts, accounts', e)
        BY <2>9, <3>2 DEF Turns
      <4> QED
        BY <2>6, <4>2, <4>3
    <3> QED
      BY <2>2, <2>3, <2>5, <2>8, <3>2, <3>3, <1>HearStep
  <2> QED
    BY <2>11, <2>12

\* The rows of a folder are taken from the first entry of its account.
<1>OnSpaceRemovedInv.
      ASSUME OnSpaceRemoved
      PROVE  Inv'
  <2> USE <1>OnSpaceRemovedInv
  \* Event SpaceRemoved: the folder's rows leave the account's first entry.
  <2>RowsTaken.
        ASSUME accounts \in Seq(AccountEntry), NEW a \in Account, NEW f \in Folder, Has(accounts, a),
               NEW own, NEW us, NEW cred, Fits(accounts, own, us, cred),
               NEW new, RowCut(accounts, new, a, f)
        PROVE  new \in Seq(AccountEntry) /\ Fits(new, own, us, cred) /\ Shrunk(accounts, new, a, f)
    <3> USE <2>RowsTaken
    <3>1. PICK spot : spot = Spot(accounts, a)
      OBVIOUS
    <3>2. PICK old : old = accounts[spot].folders
      OBVIOUS
    <3>3. PICK fs \in Retained(old, {j \in DOMAIN old : old[j].id # f}) : new = Filled(accounts, spot, fs)
      BY <3>1, <3>2 DEF RowCut
    <3>4. /\ find_account(a) # {} /\ spot = First(find_account(a)) /\ old = accounts[spot].folders
          /\ {j \in DOMAIN old : old[j].id # f} =
               DOMAIN accounts[spot].folders \ HoldsFolder(f, spot)
      BY <3>1, <3>2 DEF find_account, Has, Spot, HoldsFolder
    <3> DEFINE p == First(find_account(a))
               R(i) == accounts[i].folders
               keep == DOMAIN R(p) \ HoldsFolder(f, p)
               list2 == [accounts EXCEPT ![p].folders = fs]
               S(i) == list2[i].folders
    <3>5. /\ p \in DOMAIN accounts /\ accounts[p].id = a
          /\ \A i \in DOMAIN accounts : accounts[i].id = a =>
               p <= i /\ (i = p \/ accounts[i].folders = <<>>)
      BY <3>4, FirstEntry DEF Fits
    <3>6. fs \in Retained(R(p), keep)
      BY <3>4
    <3>7. \A j \in DOMAIN R(p) : j \in keep <=> R(p)[j].id # f
      BY DEF HoldsFolder
    <3>8. keep \subseteq DOMAIN R(p)
      OBVIOUS
    <3> HIDE DEF p, keep
    <3>9. R(p) \in Seq(FolderRow) /\ DOMAIN R(p) \subseteq Nat
      BY <3>5, EntryFacts
    <3>10. /\ fs \in Seq(FolderRow)
          /\ \E h \in [DOMAIN fs -> keep] : Keeps(R(p), fs, keep, h)
      BY <3>6, <3>8, <3>9, RetainedFacts, ZenonT(60)
    <3>11. PICK h \in [DOMAIN fs -> keep] :
            /\ \A i \in DOMAIN fs : fs[i] = R(p)[h[i]]
            /\ \A i, j \in DOMAIN fs : i < j => h[i] < h[j]
            /\ \A k \in keep : \E i \in DOMAIN fs : h[i] = k
      BY <3>10 DEF Keeps
    <3>12. LET v == [accounts EXCEPT ![p].folders = fs]
          IN v \in Seq(AccountEntry) /\ Refilled(accounts, v, p, fs)
      BY <3>5, <3>10, Refill, ZenonT(60)
    <3>13. list2 \in Seq(AccountEntry) /\ Refilled(accounts, list2, p, fs)
      BY <3>12
    <3> HIDE DEF list2
    <3>14. DOMAIN list2 = DOMAIN accounts /\ \A i \in DOMAIN accounts : list2[i].id = accounts[i].id
      BY <3>13 DEF Refilled
    <3>15. S(p) = fs /\ \A i \in DOMAIN accounts : i # p => S(i) = R(i)
      BY <3>13 DEF Refilled
    <3>16. \A b : Has(list2, b) <=> Has(accounts, b)
      BY <3>14 DEF Has
    <3>17. ASSUME NEW b, NEW g, NEW t
           PROVE  HasRow(list2, b, g, t) <=> HasRow(accounts, b, g, t) /\ ~(b = a /\ g = f)
      <4>1. ASSUME NEW i \in DOMAIN accounts, accounts[i].id = b
            PROVE  (\E j \in DOMAIN S(i) : S(i)[j].id = g /\ S(i)[j].space = t) <=>
                     /\ \E j \in DOMAIN R(i) : R(i)[j].id = g /\ R(i)[j].space = t
                     /\ ~(b = a /\ g = f)
        <5>1. CASE i = p
          <6>1. ASSUME NEW j \in DOMAIN fs, fs[j].id = g, fs[j].space = t
                PROVE  h[j] \in DOMAIN R(p) /\ R(p)[h[j]].id = g /\ R(p)[h[j]].space = t /\ g # f
            <7>1. h[j] \in keep /\ fs[j] = R(p)[h[j]]
              BY <3>11
            <7> QED
              BY <3>7, <3>8, <6>1, <7>1
          <6>2. ASSUME NEW j \in DOMAIN R(p), R(p)[j].id = g, R(p)[j].space = t, g # f
                PROVE  \E k \in DOMAIN fs : fs[k].id = g /\ fs[k].space = t
            <7>1. j \in keep
              BY <3>7, <6>2
            <7>2. PICK k \in DOMAIN fs : h[k] = j
              BY <3>11, <7>1
            <7>3. fs[k] = R(p)[j]
              BY <3>11, <7>2
            <7> QED
              BY <6>2, <7>3
          <6> QED
            BY <3>5, <3>15, <4>1, <5>1, <6>1, <6>2, ZenonT(60)
        <5>2. CASE i # p
          <6>1. b = a => R(i) = <<>>
            BY <3>5, <4>1, <5>2
          <6>2. b = a => DOMAIN R(i) = {}
            BY <6>1, SmallFacts
          <6> QED
            BY <3>15, <5>2, <6>2
        <5> QED
          BY <5>1, <5>2
      <4> QED
        BY <3>14, <4>1 DEF HasRow
    \* Where a row was.
    <3>18. ASSUME NEW i \in DOMAIN accounts, NEW j \in DOMAIN S(i)
           PROVE  \E n \in DOMAIN R(i) : R(i)[n] = S(i)[j]
      <4>1. CASE i = p
        <5>1. j \in DOMAIN fs
          BY <3>15, <4>1
        <5>2. h[j] \in DOMAIN R(p) /\ fs[j] = R(p)[h[j]]
          BY <3>8, <3>11, <5>1
        <5> QED
          BY <3>15, <4>1, <5>2
      <4>2. CASE i # p
        BY <3>15, <4>2, ZenonT(60)
      <4> QED
        BY <4>1, <4>2
    <3>19. \A g : Shows(list2, g) => Shows(accounts, g)
      BY <3>14, <3>18, SMT DEF Shows
    <3>20. FirstHasRows(list2)
      <4>1. ASSUME NEW i \in DOMAIN accounts, NEW j \in DOMAIN accounts, j < i,
                   accounts[j].id = accounts[i].id
            PROVE  S(i) = <<>>
        <5>1. R(i) = <<>>
          BY <4>1 DEF Fits, FirstHasRows
        <5>2. i # p
          <6>1. ASSUME i = p PROVE p <= j
            BY <3>5, <4>1, <6>1
          <6>2. i \in Nat /\ j \in Nat
            BY EntryFacts
          <6> QED
            BY <4>1, <6>1, <6>2, SMT
        <5> QED
          BY <3>15, <5>1, <5>2
      <4> QED
        BY <3>14, <4>1 DEF FirstHasRows
    <3>21. ASSUME NEW i \in DOMAIN accounts, NEW m \in DOMAIN accounts,
                  NEW j \in DOMAIN S(i), NEW k \in DOMAIN S(m),
                  S(i)[j].status = "Syncing", S(i)[j].id = S(m)[k].id
           PROVE  i < m \/ (i = m /\ j <= k)
      <4>1. i < m \/ i = m
        <5>1. PICK n \in DOMAIN R(i) : R(i)[n] = S(i)[j]
          BY <3>18
        <5>2. PICK o \in DOMAIN R(m) : R(m)[o] = S(m)[k]
          BY <3>18
        <5> QED
          BY <3>21, <5>1, <5>2 DEF Fits, FirstSyncs
      <4>2. ASSUME i = m, i = p PROVE j <= k
        <5>1. j \in DOMAIN fs /\ k \in DOMAIN fs
          BY <3>15, <4>2, ZenonT(60)
        <5>2. h[j] \in DOMAIN R(p) /\ h[k] \in DOMAIN R(p)
          BY <3>8, <3>11, <5>1
        <5>3. h[j] <= h[k]
          <6>1. R(p)[h[j]].status = "Syncing" /\ R(p)[h[j]].id = R(p)[h[k]].id
            <7>1. fs[j].status = "Syncing" /\ fs[j].id = fs[k].id
              BY <3>15, <3>21, <4>2
            <7>2. fs[j] = R(p)[h[j]] /\ fs[k] = R(p)[h[k]]
              BY <3>11, <5>1
            <7> QED
              BY <7>1, <7>2
          <6>2. p < p \/ h[j] <= h[k]
            BY <3>5, <5>2, <6>1 DEF Fits, FirstSyncs
          <6>3. p \in Nat
            BY <3>5, EntryFacts
          <6> QED
            BY <6>2, <6>3, SmallFacts
        <5>4. j \in Nat /\ k \in Nat /\ h[j] \in Nat /\ h[k] \in Nat
          <6>1. DOMAIN fs \subseteq Nat
            BY <3>10, SeqFacts
          <6> QED
            BY <3>9, <5>1, <5>2, <6>1
        <5>5. k < j => h[k] < h[j]
          BY <3>11, <5>1
        <5> QED
          BY <5>3, <5>4, <5>5, SMT
      <4>3. ASSUME i = m, i # p PROVE i < m \/ j <= k
        BY <3>15, <3>21, <4>3 DEF Fits, FirstSyncs
      <4> QED
        BY <4>1, <4>2, <4>3
    <3>22. FirstSyncs(list2)
      BY <3>14, <3>21, ZenonT(60) DEF FirstSyncs
    <3>23. Fits(list2, own, us, cred)
      BY <3>14, <3>18, <3>20, <3>22, SMT DEF Fits
    <3>24. Shrunk(accounts, list2, a, f)
      BY <3>16, <3>17, <3>19 DEF Shrunk
    <3>25. new = list2
      BY <3>4, <3>3 DEF list2, p, Filled
    <3> QED
      BY <3>13, <3>23, <3>24, <3>25

  <2>1. Receives("SpaceRemoved") /\ view' = view /\ cmds' = cmds /\ lost' = lost
    BY DEF OnSpaceRemoved
  <2>2. /\ wire # <<>> /\ wire' = Tail(wire)
        /\ UNCHANGED <<config, jobs, tasks, link, queue, inbox, lagged, raced, dropped, unanswered>>
        /\ Head(wire) \in DaemonEvent /\ Head(wire).ev = "SpaceRemoved"
        /\ accounts \in Seq(AccountEntry) /\ view \in Page
        /\ \E own \in [Folder -> Account \cup {None}] :
             Agreed(own) /\ Fits(accounts, own, used, credentials)
        /\ cmds' \in Seq(DaemonCommand) /\ Len(cmds') <= CmdCap /\ lost' \in BOOLEAN
        /\ Leaving' = Leaving
    BY <2>1, <1>ReceiveFacts
  <2>3. PICK e \in DaemonEvent : e = Head(wire)
    BY <2>2
  <2>4. PICK a \in Account, f \in Folder : a = e.account /\ f = e.folder
    BY <2>2, <2>3, EventFields
  <2>5. PICK own \in [Folder -> Account \cup {None}] :
          Agreed(own) /\ Fits(accounts, own, used, credentials)
    BY <2>2
  <2>6. e.ev = "SpaceRemoved" /\ view' \in Page
    BY <2>1, <2>2, <2>3
  <2>7. \A b, g, t : /\ ~Joins(e, b) /\ ~Adds(e, b, g, t) /\ ~Finishes(e, g)
                     /\ Takes(e, b, g) <=> b = a /\ g = f
    BY <2>4, <2>6 DEF Joins, Adds, Takes, Finishes
  <2>8. find_account(a) = {} <=> ~Has(accounts, a)
    BY DEF find_account, Has
  <2>9. CASE find_account(a) = {}
    <3>1. accounts' = accounts
      BY <2>3, <2>4, <2>9 DEF OnSpaceRemoved, find_account
    <3>2. accounts' \in Seq(AccountEntry) /\ Fits(accounts', own, used, credentials)
      BY <2>2, <2>5, <3>1
    <3>3. \A g, t : ~HasRow(accounts, a, g, t)
      BY <2>8, <2>9 DEF HasRow, Has
    <3>4. After(accounts, accounts', e) /\ Turns(accounts, accounts', e) /\ e.ev # "AccountSnapshot"
      BY <2>6, <2>7, <3>1, <3>3 DEF After, Turns
    <3> QED
      BY <2>2, <2>3, <2>5, <2>6, <3>2, <3>4, <1>HearStep
  <2>10. CASE find_account(a) # {}
    <3>1. PICK spot : spot = Spot(accounts, a) /\ spot = First(find_account(a))
      BY DEF Spot, find_account
    <3>2. PICK old : old = accounts[spot].folders
      OBVIOUS
    <3>3. PICK fs \in Retained(old, {j \in DOMAIN old : old[j].id # f}) :
            accounts' = Filled(accounts, spot, fs)
      <4>1. First(find_account(Head(wire).account)) = spot
        BY <2>3, <2>4, <3>1 DEF find_account
      <4>2. DOMAIN accounts[spot].folders \ HoldsFolder(Head(wire).folder, spot) =
              {j \in DOMAIN old : old[j].id # f}
        BY <2>3, <2>4, <3>2 DEF HoldsFolder
      <4>3. find_account(Head(wire).account) # {}
        BY <2>3, <2>4, <2>10 DEF find_account
      <4>4. \E fs \in Retained(accounts[spot].folders,
                               DOMAIN accounts[spot].folders \ HoldsFolder(Head(wire).folder, spot)) :
              accounts' = [accounts EXCEPT ![spot].folders = fs]
        BY <4>1, <4>3 DEF OnSpaceRemoved
      <4> QED
        BY <3>2, <4>2, <4>4 DEF Filled
    <3>4. /\ accounts' \in Seq(AccountEntry) /\ Fits(accounts', own, used, credentials)
          /\ \A b : Has(accounts', b) <=> Has(accounts, b)
          /\ \A b, g, t : HasRow(accounts', b, g, t) <=>
               HasRow(accounts, b, g, t) /\ ~(b = a /\ g = f)
          /\ \A g : Shows(accounts', g) => Shows(accounts, g)
      <4>1. PICK new : new = accounts'
        OBVIOUS
      <4>2. RowCut(accounts, new, a, f)
        BY <3>2, <3>1, <3>3, <4>1 DEF RowCut
      <4>3. /\ accounts \in Seq(AccountEntry) /\ Has(accounts, a)
            /\ Fits(accounts, own, used, credentials)
        BY <2>2, <2>5, <2>8, <2>10
      <4>4. new \in Seq(AccountEntry) /\ Fits(new, own, used, credentials) /\ Shrunk(accounts, new, a, f)
        BY <4>2, <4>3, <2>RowsTaken
      <4> QED
        BY <4>1, <4>4 DEF Shrunk
    <3>5. After(accounts, accounts', e) /\ Turns(accounts, accounts', e) /\ e.ev # "AccountSnapshot"
      BY <2>6, <2>7, <3>4 DEF After, Turns
    <3> QED
      BY <2>2, <2>3, <2>5, <2>6, <3>4, <3>5, <1>HearStep
  <2> QED
    BY <2>9, <2>10

<1> QED
  BY <1>OnSyncInv, <1>NoticeInv, <1>OnAccountAddCompletedInv, <1>OnAccountFolderAddedInv,
     <1>OnSpaceRemovedInv, <1>OnAccountSnapshotInv DEF handle_daemon_event

(****************************************************************************)
(* The connection.                                                          *)
(****************************************************************************)

\* Connecting, subscribing, the snapshot, forwarding and losing the connection
\* keep the invariant.
LEMMA ConnectionInv ==
  ASSUME SetFacts, Inv, Transport \/ Drop
  PROVE  Inv'
\* The connection is made, subscribed to and streamed on.
<1>LinkInv.
      ASSUME Connect \/ Subscribe \/ Streams
      PROVE  Inv'
  <2> USE <1>LinkInv
  <2>1. TypeOK /\ Roles /\ Owned /\ QueueInv /\ CopyInv
    BY DEF Inv
  <2>2. /\ configured' = configured /\ folder' = folder /\ used' = used /\ credentials' = credentials
        /\ sched' = sched /\ running' = running /\ announcing' = announcing
        /\ signing' = signing /\ listing' = listing
        /\ queue' = queue /\ wire' = wire /\ cmds' = cmds /\ inbox' = inbox /\ accounts' = accounts
        /\ lagged' = lagged /\ raced' = raced /\ dropped' = dropped /\ lost' = lost
        /\ unanswered' = unanswered
    BY DEF Connect, Subscribe, Streams, config, jobs, tasks, history
  <2>3. Leaving' = Leaving /\ Reals' = Reals
    BY <2>2 DEF Leaving, Reals
  <2>4. view' \in Page
    <3>1. SyncStatus \in Page
      <4>1. At("SyncStatus", None) \in Page
        BY AtPage DEF View
      <4> QED
        BY <4>1 DEF SyncStatus
    <3>2. view \in Page
      BY <2>1 DEF TypeOK
    <3> QED
      BY <3>1, <3>2 DEF Connect, Subscribe, Streams
  <2>5. link' \in {"connected", "subscribed", "streaming"}
    BY DEF Connect, Subscribe, Streams
  <2>6. TypeOK'
    BY <2>1, <2>2, <2>4, <2>5 DEF TypeOK
  <2>7. Roles'
    BY <2>1, <2>2, <2>3 DEF Roles
  <2>8. Owned'
    BY <2>1, <2>2 DEF Owned, Agreed
  <2>9. Trails(queue', configured', folder') /\ Ends(queue', Reals')
        /\ \A i \in DOMAIN queue' : queue'[i].ev # "AccountSnapshot"
    BY <2>1, <2>2, <2>3 DEF QueueInv
  <2>10. CASE Connect \/ Subscribe
    <3>1. queue = <<>> /\ link' \in {"connected", "subscribed"}
      BY <2>1, <2>10 DEF Connect, Subscribe, QueueInv, Listening
    <3>2. QueueInv'
      BY <2>2, <2>9, <3>1, SMT DEF QueueInv
    <3>3. CopyInv'
      BY <3>1 DEF CopyInv
    <3> QED
      BY <2>6, <2>7, <2>8, <3>2, <3>3 DEF Inv
  <2>11. CASE Streams
    <3>1. link = "snapped" /\ link' = "streaming"
      BY <2>11 DEF Streams
    <3>2. QueueInv'
      BY <2>9, <3>1 DEF QueueInv, Listening
    <3>3. CopyInv'
      BY <2>1, <2>2, <2>3, <3>1 DEF CopyInv, InStep
    <3> QED
      BY <2>6, <2>7, <2>8, <3>2, <3>3, SMT DEF Inv
  <2> QED
    BY <2>10, <2>11

\* The connection ends.
<1>DropInv.
      ASSUME Drop
      PROVE  Inv'
  <2> USE <1>DropInv
  \* The first few commands.
  <2>RemovesFew.
        ASSUME NEW q \in Seq(DaemonCommand), NEW n \in 0..Len(q), NEW a
        PROVE  /\ SubSeq(q, 1, n) \in Seq(DaemonCommand)
               /\ Removes(SubSeq(q, 1, n), a) => Removes(q, a)
    <3>1. Len(q) \in Nat /\ DOMAIN q = 1..Len(q) /\ n \in Nat
      BY SMT
    <3>2. \A i \in 1..n : q[i] \in DaemonCommand
      BY <3>1, SMT
    <3>3. /\ SubSeq(q, 1, n) \in Seq(DaemonCommand) /\ Len(SubSeq(q, 1, n)) = n
          /\ \A i \in 1..n : SubSeq(q, 1, n)[i] = q[i]
      BY <3>1, <3>2, SMT
    <3>4. DOMAIN SubSeq(q, 1, n) = 1..n
      BY <3>3, SMT
    <3> DEFINE t == SubSeq(q, 1, n)
    <3> HIDE DEF t
    <3>5. \A i \in DOMAIN t : i \in DOMAIN q /\ t[i] = q[i]
      BY <3>1, <3>3, <3>4, SMT DEF t
    <3>6. Removes(t, a) => Removes(q, a)
      BY <3>5 DEF Removes
    <3> QED
      BY <3>3, <3>6 DEF t

  <2>1. TypeOK /\ Roles /\ Owned
    BY DEF Inv
  <2>2. /\ configured' = configured /\ folder' = folder /\ used' = used /\ credentials' = credentials
        /\ sched' = sched /\ running' = running /\ announcing' = announcing
        /\ signing' = signing /\ listing' = listing
        /\ queue' = <<>> /\ wire' = wire /\ cmds' = <<>> /\ accounts' = accounts /\ view' = view
        /\ lagged' = lagged /\ raced' = raced /\ dropped' = dropped /\ lost' = TRUE
        /\ unanswered' = unanswered /\ link' = "down"
    BY DEF Drop, config, jobs, tasks
  <2>3. PICK n \in 0..Len(cmds) : inbox' = inbox \o SubSeq(cmds, 1, n)
    BY DEF Drop
  <2>4. inbox \in Seq(DaemonCommand) /\ cmds \in Seq(DaemonCommand)
    BY <2>1 DEF TypeOK
  <2>5. PICK t : t = SubSeq(cmds, 1, n)
    OBVIOUS
  <2>6. t \in Seq(DaemonCommand) /\ \A a : Removes(t, a) => Removes(cmds, a)
    <3>1. ASSUME NEW a
          PROVE  /\ SubSeq(cmds, 1, n) \in Seq(DaemonCommand)
                 /\ Removes(SubSeq(cmds, 1, n), a) => Removes(cmds, a)
      BY <2>3, <2>4, <2>RemovesFew
    <3> QED
      BY <2>5, <3>1
  <2>7. inbox' \in Seq(DaemonCommand) /\ \A a : Removes(inbox', a) => Removes(inbox, a) \/ Removes(t, a)
    <3>1. inbox' = inbox \o t
      BY <2>3, <2>5
    <3>2. ASSUME NEW a
          PROVE  /\ inbox \o t \in Seq(DaemonCommand)
                 /\ Removes(inbox \o t, a) <=> Removes(inbox, a) \/ Removes(t, a)
      BY <2>4, <2>6, RemovesConcat
    <3> QED
      BY <3>1, <3>2
  <2>8. Leaving' \subseteq Leaving
    <3>1. \A a : ~Removes(cmds', a)
      BY <2>2, SMT DEF Removes
    <3> QED
      BY <2>6, <2>7, <3>1 DEF Leaving
  <2>9. TypeOK'
    <3>1. cmds' \in Seq(DaemonCommand) /\ Len(cmds') <= CmdCap
          /\ queue' \in Seq(DaemonEvent) /\ Len(queue') <= BroadcastCap
      BY <2>2, GuiAssumption, SMT
    <3> QED
      BY <2>1, <2>2, <2>7, <3>1 DEF TypeOK
  <2>10. Roles'
    BY <2>1, <2>2, <2>8 DEF Roles
  <2>11. Owned'
    <3>1. PICK own \in [Folder -> Account \cup {None}] : Agreed(own)
      BY <2>1 DEF Owned
    <3>2. DOMAIN queue' = {}
      BY <2>2, SmallFacts
    <3>3. Agreed(own)'
      BY <2>2, <3>1, <3>2 DEF Agreed
    <3> QED
      BY <3>3 DEF Owned
  <2>12. QueueInv' /\ CopyInv'
    <3>1. DOMAIN queue' = {}
      BY <2>2, SmallFacts
    <3> QED
      BY <2>2, <3>1 DEF QueueInv, CopyInv, Trails, Ends
  <2> QED
    BY <2>9, <2>10, <2>11, <2>12 DEF Inv

\* An event goes from the channel to the wire.
<1>ForwardInv.
      ASSUME Forward
      PROVE  Inv'
  <2> USE <1>ForwardInv
  \* Forwarding an event leaves the rest as it is.
  <2>RestForward.
        ASSUME NEW T, NEW w \in Seq(T), NEW q \in Seq(T), q # <<>>, NEW k \in 0..Len(w)
        PROVE  Rest(Append(w, Head(q)), Tail(q), k) = Rest(w, q, k)
    <3> USE <2>RestForward
    <3> DEFINE v == Append(w, Head(q))
               p == Tail(q)
               d == Len(w) - k
    <3>1. /\ Head(q) \in T /\ p \in Seq(T) /\ Len(p) = Len(q) - 1
          /\ \A i \in 1..Len(p) : p[i] = q[i + 1]
      BY SMT
    <3>2. v \in Seq(T) /\ Len(v) = Len(w) + 1 /\ v[Len(w) + 1] = q[1] /\ \A i \in 1..Len(w) : v[i] = w[i]
      BY <3>1, SMT
    <3>3. /\ Len(w) \in Nat /\ Len(q) \in Nat \ {0} /\ k \in Nat /\ d \in Nat /\ d + 1 \in Nat
          /\ Len(w) = k + d /\ Len(v) = k + (d + 1)
      BY <3>2, SMT
    <3> HIDE DEF v, p, d
    <3> DEFINE r == Rest(v, p, k)
    <3>4. r \in Seq(T) /\ IsRest(r, v, p, k, d + 1)
      BY <3>1, <3>2, <3>3, RestFacts, ZenonT(60)
    <3>5. Rest(w, q, k) \in Seq(T) /\ IsRest(Rest(w, q, k), w, q, k, d)
      BY <3>3, RestFacts
    <3> HIDE DEF r
    <3>6. IsRest(r, w, q, k, d)
      <4>1. Len(r) = d + Len(q)
        BY <3>1, <3>3, <3>4, SMT DEF IsRest
      <4>2. ASSUME NEW i \in 1..d PROVE r[i] = w[k + i]
        BY <3>2, <3>3, <3>4, SMT DEF IsRest
      <4>3. ASSUME NEW i \in 1..Len(q) PROVE r[d + i] = q[i]
        <5>1. CASE i = 1
          <6>1. d + 1 \in 1..(d + 1)
            BY <3>3, SMT
          <6>2. r[d + 1] = v[k + (d + 1)]
            BY <3>4, <6>1 DEF IsRest
          <6> QED
            BY <3>2, <3>3, <5>1, <6>2
        <5>2. CASE i # 1
          <6>1. i - 1 \in 1..Len(p) /\ (d + 1) + (i - 1) = d + i /\ (i - 1) + 1 = i
            BY <3>1, <3>3, <5>2, SMT
          <6>2. r[(d + 1) + (i - 1)] = p[i - 1] /\ p[i - 1] = q[(i - 1) + 1]
            BY <3>1, <3>4, <6>1 DEF IsRest
          <6> QED
            BY <6>1, <6>2
        <5> QED
          BY <5>1, <5>2
      <4> QED
        BY <4>1, <4>2, <4>3 DEF IsRest
    <3> QED
      BY <3>3, <3>4, <3>5, <3>6, RestUnique DEF r, v, p

  <2>1. TypeOK /\ Roles /\ Owned /\ QueueInv /\ CopyInv
    BY DEF Inv
  <2>2. /\ configured' = configured /\ folder' = folder /\ used' = used /\ credentials' = credentials
        /\ sched' = sched /\ running' = running /\ announcing' = announcing
        /\ signing' = signing /\ listing' = listing
        /\ cmds' = cmds /\ inbox' = inbox /\ accounts' = accounts /\ view' = view
        /\ lagged' = lagged /\ raced' = raced /\ dropped' = dropped /\ lost' = lost
        /\ unanswered' = unanswered /\ link' = link
        /\ link = "streaming" /\ queue # <<>> /\ Len(wire) < WireCap
        /\ wire' = Append(wire, Head(queue)) /\ queue' = Tail(queue)
    BY DEF Forward, config, jobs, tasks, history
  <2>3. Leaving' = Leaving /\ Reals' = Reals
    BY <2>2 DEF Leaving, Reals
  <2>4. wire \in Seq(DaemonEvent) /\ queue \in Seq(DaemonEvent) /\ Len(queue) <= BroadcastCap
    BY <2>1 DEF TypeOK
  <2>5. /\ Tail(queue) \in Seq(DaemonEvent) /\ Suffix(queue, Tail(queue)) /\ Shifted(queue, Tail(queue), 1)
        /\ 1 \in DOMAIN queue /\ Head(queue) = queue[1]
    BY <2>2, <2>4, TailShifts
  <2>6. PICK e \in DaemonEvent : e = Head(queue)
    BY <2>4, <2>5, SMT
  <2>7. /\ wire' \in Seq(DaemonEvent) /\ Len(wire') = Len(wire) + 1 /\ Len(wire) \in Nat
        /\ \A i \in 1..Len(wire) : wire'[i] = wire[i]
        /\ wire'[Len(wire) + 1] = e
    BY <2>2, <2>4, <2>6, SMT
  <2>8. e.ev # "AccountSnapshot"
    BY <2>1, <2>5, <2>6 DEF QueueInv
  <2>9. TypeOK'
    <3>1. Len(Tail(queue)) = Len(queue) - 1 /\ Len(queue) \in Nat
      BY <2>2, <2>4, SMT
    <3>2. Len(queue') <= BroadcastCap /\ Len(wire') <= WireCap
      BY <2>2, <2>4, <2>7, <3>1, GuiAssumption, SMT
    <3> QED
      BY <2>1, <2>2, <2>5, <2>7, <3>2 DEF TypeOK
  <2>10. Roles'
    BY <2>1, <2>2, <2>3 DEF Roles
  <2>11. Owned'
    <3>1. PICK own \in [Folder -> Account \cup {None}] : Agreed(own)
      BY <2>1 DEF Owned
    <3>2. \A i \in DOMAIN queue' : EventFits(queue'[i], own, used, credentials)
      BY <2>2, <2>5, <3>1 DEF Agreed, Shifted
    <3>3. EventFits(e, own, used, credentials)
      BY <2>5, <2>6, <3>1 DEF Agreed
    <3>4. DOMAIN wire' = 1..(Len(wire) + 1) /\ DOMAIN wire = 1..Len(wire)
      BY <2>4, <2>7, SMT
    <3>5. \A i \in DOMAIN wire' : EventFits(wire'[i], own, used, credentials)
      <4> TAKE i \in DOMAIN wire'
      <4>1. CASE i = Len(wire) + 1
        BY <2>7, <3>3, <4>1
      <4>2. CASE i # Len(wire) + 1
        <5>1. i \in 1..Len(wire)
          BY <2>7, <3>4, <4>2, SMT
        <5> QED
          BY <2>7, <3>1, <3>4, <5>1 DEF Agreed
      <4> QED
        BY <4>1, <4>2
    <3>6. /\ Fits(accounts, own, used, credentials)
          /\ \A f \in Folder : folder[f] # None =>
               f \in used /\ own[f] = folder[f].account /\ own[f] \in configured
      BY <3>1 DEF Agreed
    <3>7. Agreed(own)'
      BY <2>2, <3>2, <3>5, <3>6 DEF Agreed
    <3> QED
      BY <3>1, <3>7 DEF Owned
  <2>12. QueueInv'
    <3>1. Trails(queue, configured, folder) /\ Ends(queue, Reals)
      BY <2>1 DEF QueueInv
    <3>2. Trails(Tail(queue), configured, folder) /\ Ends(Tail(queue), Reals)
      BY <2>4, <2>5, <3>1, SuffixTrails, SuffixEnds
    <3>3. \A i \in DOMAIN queue' : queue'[i].ev # "AccountSnapshot"
      BY <2>1, <2>2, <2>5, SMT DEF QueueInv, Shifted
    <3> QED
      BY <2>2, <2>3, <3>2, <3>3 DEF QueueInv, Listening
  <2>13. ASSUME ~lagged', NEW k \in 0..Len(wire'), Mark(wire', k)
         PROVE  LET r == Rest(wire', queue', k)
                    list == Base(accounts', wire', k)
                IN /\ Ends(r, Reals') /\ ShowsReal(list, r, Reals')
                   /\ ~raced' => Mirrors(list, r, configured', folder', Leaving')
    <3>1. k # Len(wire) + 1
      BY <2>7, <2>8, <2>13, SMT DEF Mark
    <3>2. k \in 0..Len(wire)
      BY <2>7, <3>1, SMT
    <3>3. Mark(wire, k)
      <4>1. DOMAIN wire' = 1..(Len(wire) + 1) /\ DOMAIN wire = 1..Len(wire)
        BY <2>4, <2>7, SMT
      <4> QED
        BY <2>7, <2>13, <3>2, <4>1, SMT DEF Mark
    <3>4. InStep(Base(accounts, wire, k), Rest(wire, queue, k))
      BY <2>1, <2>2, <2>13, <3>2, <3>3 DEF CopyInv
    <3>5. Rest(wire', queue', k) = Rest(wire, queue, k)
      BY <2>2, <2>4, <3>2, <2>RestForward
    <3>6. Base(accounts', wire', k) = Base(accounts, wire, k)
      BY <2>2, <2>7, <3>2, SMT DEF Base
    <3> QED
      BY <2>2, <2>3, <3>4, <3>5, <3>6 DEF InStep
  <2>14. CopyInv'
    BY <2>13 DEF CopyInv, InStep
  <2> QED
    BY <2>9, <2>10, <2>11, <2>12, <2>14 DEF Inv

\* The snapshot is taken: with the events of the channel it is the daemon's state.
<1>SnapshotInv.
      ASSUME snapshot
      PROVE  Inv'
  <2> USE <1>SnapshotInv
  \* So is what a function makes of its members.
  <2>FiniteImage.
        ASSUME NEW S, IsFiniteSet(S), NEW W
        PROVE  IsFiniteSet({W[x] : x \in S})
    BY <2>FiniteImage, SMT DEF SetFacts

  \* The order of the rows of some folders lists each once.
  <2>OrderedRows.
        ASSUME NEW F, IsFiniteSet(F), NEW W, \A f \in F : W[f] \in FolderRow /\ W[f].id = f
        PROVE  Lists(Ordered({W[f] : f \in F}), F, W)
    <3> USE <2>OrderedRows
    <3> DEFINE R == {W[f] : f \in F}
               o == Ordered(R)
    <3>1. IsFiniteSet(R)
      BY <2>FiniteImage, SMT
    <3>2. /\ o \in Seq(R) /\ o \in [DOMAIN o -> R]
          /\ \A x \in R : \E i \in DOMAIN o : o[i] = x
          /\ \A i, j \in DOMAIN o : o[i] = o[j] => i = j
      BY <3>1, OrderedFacts
    <3>3. R \subseteq FolderRow
      OBVIOUS
    <3>4. (\A f \in F : W[f] \in R) /\ \A x \in R : \E f \in F : x = W[f]
      OBVIOUS
    <3> HIDE DEF o, R
    <3>5. o \in Seq(FolderRow)
      BY <3>2, <3>3, SMT
    <3>6. \A j \in DOMAIN o : \E f \in F : o[j] = W[f]
      BY <3>2, <3>4
    <3>7. \A f \in F : \E j \in DOMAIN o : o[j] = W[f]
      BY <3>2, <3>4
    <3>8. \A i, j \in DOMAIN o : o[i].id = o[j].id => i = j
      BY <3>2, <3>6, SMT
    <3>9. Lists(o, F, W)
      BY <3>5, <3>6, <3>7, <3>8 DEF Lists
    <3> QED
      BY <3>9 DEF o, R

  \* A list with an entry for each account and its rows has the shape of a list of
  \* the GUI.
  <2>ListFacts.
        ASSUME NEW ids \in Seq(Account), Distinct(ids), NEW F, NEW W, NEW O, NEW own, NEW us, NEW cred,
               \A a \in Account : Lists(O[a], F[a], W), Owns(F, W, own, us), Range(ids) \subseteq cred
        PROVE  /\ Listing(ids, O) \in Seq(AccountEntry) /\ Fits(Listing(ids, O), own, us, cred)
               /\ Tells(Listing(ids, O), Range(ids), F, W)
    <3> DEFINE list == Listing(ids, O)
    <3>1. DOMAIN ids = 1..Len(ids) /\ Len(ids) \in Nat /\ \A i \in DOMAIN ids : ids[i] \in Account
      BY SeqFacts
    <3>2. \A i \in DOMAIN ids : ids[i] \in Account /\ ids[i] \in Range(ids) /\ ids[i] \in cred
      BY <2>ListFacts, <3>1 DEF Range
    <3>3. \A b \in Range(ids) : \E i \in DOMAIN ids : ids[i] = b
      BY DEF Range
    <3>4. /\ DOMAIN list = DOMAIN ids
          /\ \A i \in DOMAIN ids : list[i].id = ids[i] /\ list[i].folders = O[ids[i]]
      BY DEF Listing
    <3>5. list = [i \in 1..Len(ids) |-> list[i]]
      BY <3>1 DEF Listing
    <3> HIDE DEF list
    <3>6. list \in Seq(AccountEntry)
      <4>1. ASSUME NEW i \in 1..Len(ids) PROVE list[i] \in AccountEntry
        <5>1. ids[i] \in Account /\ O[ids[i]] \in Seq(FolderRow)
          BY <2>ListFacts, <3>1, <3>2 DEF Lists
        <5>2. [id |-> ids[i], folders |-> O[ids[i]]] \in AccountEntry
          BY <5>1 DEF AccountEntry
        <5>3. list[i] = [id |-> ids[i], folders |-> O[ids[i]]]
          BY <3>1 DEF list, Listing
        <5> QED
          BY <5>2, <5>3
      <4>2. list \in [1..Len(ids) -> AccountEntry]
        BY <3>5, <4>1
      <4> QED
        BY <3>1, <4>2, SeqOfFunction
    <3>7. \A b \in Account : Has(list, b) <=> b \in Range(ids)
      BY <3>2, <3>3, <3>4, SMTT(30) DEF Has
    \* Whose row it is.
    <3>8. ASSUME NEW a \in Account, NEW j \in DOMAIN O[a]
          PROVE  /\ O[a][j].id \in F[a] /\ O[a][j].id \in us /\ own[O[a][j].id] = a
                 /\ O[a][j] = W[O[a][j].id] /\ j \in Nat
      <4>1. Lists(O[a], F[a], W)
        BY <2>ListFacts
      <4>2. PICK f \in F[a] : O[a][j] = W[f]
        BY <4>1 DEF Lists
      <4>3. O[a] \in Seq(FolderRow)
        BY <4>1 DEF Lists
      <4>4. j \in Nat
        BY <4>3, SeqFacts
      <4>5. f \in us /\ own[f] = a /\ W[f].id = f
        BY <2>ListFacts DEF Owns
      <4> QED
        BY <4>2, <4>4, <4>5
    <3>9. ASSUME NEW b \in Account, NEW g \in Folder, NEW t \in Space
          PROVE  HasRow(list, b, g, t) <=> b \in Range(ids) /\ g \in F[b] /\ W[g].space = t
      <4>1. ASSUME HasRow(list, b, g, t) PROVE b \in Range(ids) /\ g \in F[b] /\ W[g].space = t
        <5>1. PICK i \in DOMAIN ids : ids[i] = b /\ \E j \in DOMAIN O[b] : O[b][j].id = g /\ O[b][j].space = t
          BY <3>4, <4>1, SMTT(30) DEF HasRow
        <5>2. PICK j \in DOMAIN O[b] : O[b][j].id = g /\ O[b][j].space = t
          BY <5>1
        <5> QED
          BY <3>2, <3>8, <5>1, <5>2
      <4>2. ASSUME b \in Range(ids), g \in F[b], W[g].space = t
            PROVE  HasRow(list, b, g, t)
        <5>1. PICK i \in DOMAIN ids : ids[i] = b
          BY <3>3, <4>2
        <5>2. PICK j \in DOMAIN O[b] : O[b][j] = W[g]
          BY <2>ListFacts, <4>2 DEF Lists
        <5>3. W[g].id = g
          BY <2>ListFacts, <4>2 DEF Owns
        <5> QED
          BY <3>4, <4>2, <5>1, <5>2, <5>3, SMTT(30) DEF HasRow
      <4> QED
        BY <4>1, <4>2
    <3>10. ASSUME NEW g \in Folder, Shows(list, g)
           PROVE  \E b \in Account : g \in F[b] /\ W[g].status = "Syncing"
      <4>1. PICK i \in DOMAIN ids : \E j \in DOMAIN O[ids[i]] :
              O[ids[i]][j].id = g /\ O[ids[i]][j].status = "Syncing"
        BY <3>4, <3>10, SMTT(30) DEF Shows
      <4>2. PICK j \in DOMAIN O[ids[i]] : O[ids[i]][j].id = g /\ O[ids[i]][j].status = "Syncing"
        BY <4>1
      <4> QED
        BY <3>2, <3>8, <4>2
    <3>11. FirstHasRows(list)
      <4>1. ASSUME NEW i \in DOMAIN ids, NEW j \in DOMAIN ids, j < i PROVE ids[j] # ids[i]
        <5>1. ids[j] = ids[i] => i = j
          BY <2>ListFacts DEF Distinct
        <5> QED
          BY <3>1, <4>1, <5>1, SMT
      <4> QED
        BY <3>4, <4>1, SMTT(30) DEF FirstHasRows
    <3>12. FirstSyncs(list)
      <4>1. ASSUME NEW i \in DOMAIN ids, NEW m \in DOMAIN ids,
                   NEW j \in DOMAIN O[ids[i]], NEW k \in DOMAIN O[ids[m]],
                   O[ids[i]][j].id = O[ids[m]][k].id
            PROVE  i = m /\ j <= k
        <5>1. own[O[ids[i]][j].id] = ids[i] /\ own[O[ids[m]][k].id] = ids[m]
          BY <3>2, <3>8
        <5>2. i = m
          BY <2>ListFacts, <4>1, <5>1 DEF Distinct
        <5>3. Lists(O[ids[i]], F[ids[i]], W) /\ j \in Nat
          BY <2>ListFacts, <3>2, <3>8
        <5>4. j = k
          BY <4>1, <5>2, <5>3 DEF Lists
        <5> QED
          BY <5>2, <5>3, <5>4, SMT
      <4> QED
        BY <3>4, <4>1, SMTT(30) DEF FirstSyncs
    <3>13. Fits(list, own, us, cred)
      BY <3>2, <3>4, <3>8, <3>11, <3>12, SMTT(30) DEF Fits
    <3>14. Tells(list, Range(ids), F, W)
      BY <3>7, <3>9, <3>10 DEF Tells
    <3> QED
      BY <3>6, <3>13, <3>14 DEF list

  \* The snapshot lists the daemon's state.
  <2>SnapshotFacts.
        ASSUME TypeOK, configured \subseteq credentials,
               NEW own \in [Folder -> Account \cup {None}],
               \A f \in Folder : folder[f] # None =>
                 f \in used /\ own[f] = folder[f].account /\ own[f] \in configured
        PROVE  LET list == AccountSnapshot.accounts
               IN /\ list \in Seq(AccountEntry) /\ Fits(list, own, used, credentials)
                  /\ \A b \in Account : Has(list, b) <=> b \in configured
                  /\ \A b \in Account, g \in Folder, t \in Space :
                       HasRow(list, b, g, t) <=> folder[g] = [account |-> b, space |-> t]
                  /\ \A g \in Folder : Shows(list, g) => sched[g] # None /\ sched[g].running
    <3> USE <2>SnapshotFacts
    <3> DEFINE ids == Ordered(configured)
               F == [a \in Account |-> {f \in Folder : folder[f] # None /\ folder[f].account = a}]
               W == [f \in Folder |-> FolderView(f, folder[f].space, folder_status(sched[f]))]
               O == [a \in Account |-> Ordered({W[f] : f \in F[a]})]
               list == Listing(ids, O)
    <3>1. /\ ids \in Seq(configured) /\ ids \in [DOMAIN ids -> configured]
          /\ \A x \in configured : \E i \in DOMAIN ids : ids[i] = x
          /\ \A i, j \in DOMAIN ids : ids[i] = ids[j] => i = j
      <4>1. IsFiniteSet(configured)
        BY GuiAssumption, FinitePart DEF TypeOK
      <4> QED
        BY <4>1, OrderedFacts
    <3>2. ids \in Seq(Account) /\ \A i \in DOMAIN ids : ids[i] \in configured /\ ids[i] \in Account
      BY <3>1, SMT DEF TypeOK
    <3> HIDE DEF ids
    <3>3. ASSUME NEW a \in Account, NEW f \in F[a]
          PROVE  f \in Folder /\ folder[f] # None /\ folder[f].account = a /\ f \in used /\ own[f] = a
      OBVIOUS
    <3>4. \A a \in Account : F[a] \subseteq Folder
      OBVIOUS
    <3>5. ASSUME NEW i \in DOMAIN ids
          PROVE  {FolderView(f, folder[f].space, folder_status(sched[f])) : f \in FoldersOf(ids[i])}
                   = {W[f] : f \in F[ids[i]]}
      <4>1. FoldersOf(ids[i]) = F[ids[i]]
        BY <3>2 DEF FoldersOf
      <4>2. \A f \in F[ids[i]] : W[f] = FolderView(f, folder[f].space, folder_status(sched[f]))
        BY <3>2, <3>4
      <4> DEFINE A == {FolderView(f, folder[f].space, folder_status(sched[f])) : f \in FoldersOf(ids[i])}
                 B == {W[f] : f \in F[ids[i]]}
      <4> HIDE DEF W, F
      <4>3. ASSUME NEW x \in A PROVE x \in B
        <5>1. PICK f \in FoldersOf(ids[i]) : x = FolderView(f, folder[f].space, folder_status(sched[f]))
          OBVIOUS
        <5>2. f \in F[ids[i]]
          BY <4>1
        <5> QED
          BY <4>2, <5>1, <5>2
      <4>4. ASSUME NEW x \in B PROVE x \in A
        <5>1. PICK f \in F[ids[i]] : x = W[f]
          OBVIOUS
        <5>2. f \in FoldersOf(ids[i]) /\ x = FolderView(f, folder[f].space, folder_status(sched[f]))
          BY <4>1, <4>2, <5>1
        <5> QED
          BY <5>2
      <4>5. A = B
        BY <4>3, <4>4
      <4> QED
        BY <4>5
    <3>6. AccountSnapshot.accounts = list
      <4>1. ASSUME NEW i \in DOMAIN ids
            PROVE  O[ids[i]] = Ordered({FolderView(f, folder[f].space, folder_status(sched[f])) :
                                         f \in FoldersOf(ids[i])})
        <5>1. O[ids[i]] = Ordered({W[f] : f \in F[ids[i]]})
          BY <3>2
        <5> QED
          BY <3>5, <5>1
      <4> HIDE DEF O
      <4> QED
        BY <4>1 DEF AccountSnapshot, Listing, ids
    <3>7. ASSUME NEW f \in Folder, folder[f] # None
          PROVE  /\ W[f] \in FolderRow /\ W[f].id = f /\ W[f].space = folder[f].space
                 /\ W[f].status = "Syncing" => sched[f] # None /\ sched[f].running
      <4>1. folder[f] \in [account : Account, space : Space]
        BY <3>7 DEF TypeOK
      <4>2. folder_status(sched[f]) \in Status
        BY DEF folder_status, Status
      <4>3. folder_status(sched[f]) = "Syncing" => sched[f] # None /\ sched[f].running
        BY DEF folder_status
      <4>4. W[f] = FolderView(f, folder[f].space, folder_status(sched[f]))
        OBVIOUS
      <4> QED
        BY <4>1, <4>2, <4>3, <4>4 DEF FolderView, FolderRow
    <3> HIDE DEF W
    <3>8. ASSUME NEW a \in Account PROVE Lists(O[a], F[a], W)
      <4>1. IsFiniteSet(F[a])
        BY <3>4, GuiAssumption, FinitePart
      <4>2. \A f \in F[a] : W[f] \in FolderRow /\ W[f].id = f
        BY <3>3, <3>7
      <4>3. O[a] = Ordered({W[f] : f \in F[a]})
        OBVIOUS
      <4> HIDE DEF O, F
      <4> QED
        BY <4>1, <4>2, <4>3, <2>OrderedRows
    <3>9. ASSUME NEW b \in Account, NEW g \in Folder, NEW t \in Space
          PROVE  b \in configured /\ g \in F[b] /\ W[g].space = t
                   <=> folder[g] = [account |-> b, space |-> t]
      <4>1. folder[g] = None \/ folder[g] \in [account : Account, space : Space]
        BY DEF TypeOK
      <4>2. g \in F[b] <=> folder[g] # None /\ folder[g].account = b
        OBVIOUS
      <4>3. [account |-> b, space |-> t] # None
        BY SmallFacts
      <4> QED
        BY <3>7, <4>1, <4>2, <4>3, SMT
    <3>10. Owns(F, W, own, used)
      BY <3>3, <3>7 DEF Owns
    <3>11. Distinct(ids) /\ Range(ids) = configured /\ Range(ids) \subseteq credentials
      <4>1. Range(ids) = configured
        <5>1. \A x \in configured : \E n \in DOMAIN ids : ids[n] = x
          BY <3>1
        <5>2. \A n \in DOMAIN ids : ids[n] \in configured
          BY <3>2
        <5> QED
          BY <5>1, <5>2 DEF Range
      <4> QED
        BY <3>1, <4>1 DEF Distinct
    <3> HIDE DEF O, F
    <3>12. /\ list \in Seq(AccountEntry) /\ Fits(list, own, used, credentials)
           /\ Tells(list, Range(ids), F, W)
      <4>1. \A a \in Account : Lists(O[a], F[a], W)
        BY <3>8
      <4>2. ids \in Seq(Account)
        BY <3>2
      <4>3. Distinct(ids) /\ Range(ids) \subseteq credentials
        BY <3>11
      <4> QED
        BY <4>1, <4>2, <4>3, <3>10, <2>ListFacts
    <3>13. Tells(list, configured, F, W)
      BY <3>11, <3>12
    <3> HIDE DEF list
    <3>14. ASSUME NEW g \in Folder, Shows(list, g) PROVE sched[g] # None /\ sched[g].running
      <4>1. PICK b \in Account : g \in F[b] /\ W[g].status = "Syncing"
        BY <3>13, <3>14, ZenonT(60) DEF Tells
      <4>2. folder[g] # None
        BY <3>3, <4>1
      <4> QED
        BY <3>7, <4>1, <4>2
    <3>15. ASSUME NEW b \in Account, NEW g \in Folder, NEW t \in Space
           PROVE  HasRow(list, b, g, t) <=> folder[g] = [account |-> b, space |-> t]
      <4>1. HasRow(list, b, g, t) <=> b \in configured /\ g \in F[b] /\ W[g].space = t
        BY <3>13, ZenonT(60) DEF Tells
      <4>2. b \in configured /\ g \in F[b] /\ W[g].space = t
              <=> folder[g] = [account |-> b, space |-> t]
        BY <3>9, ZenonT(60)
      <4> QED
        BY <4>1, <4>2, ZenonT(60)
    <3>16. \A b \in Account : Has(list, b) <=> b \in configured
      BY <3>13, ZenonT(60) DEF Tells
    <3>17. AccountSnapshot.accounts = list
      BY <3>6 DEF list
    <3> QED
      BY <3>12, <3>14, <3>15, <3>16, <3>17, ZenonT(60)

  \* Behind the end of the wire there is the channel.
  <2>RestEnd.
        ASSUME NEW T, NEW w \in Seq(T), NEW q \in Seq(T)
        PROVE  Rest(w, q, Len(w)) = q
    <3>1. SubSeq(w, Len(w) + 1, Len(w)) = <<>>
      BY SMT
    <3> QED
      BY <3>1, SMT DEF Rest

  <2>1. TypeOK /\ Roles /\ Owned /\ QueueInv
    BY DEF Inv
  <2>2. /\ configured' = configured /\ folder' = folder /\ used' = used /\ credentials' = credentials
        /\ sched' = sched /\ running' = running /\ announcing' = announcing
        /\ signing' = signing /\ listing' = listing
        /\ cmds' = cmds /\ inbox' = inbox /\ accounts' = accounts /\ view' = view
        /\ queue' = queue /\ lagged' = FALSE /\ dropped' = dropped /\ lost' = lost
        /\ unanswered' = unanswered /\ link = "subscribed" /\ link' = "snapped"
        /\ Len(wire) < WireCap /\ wire' = Append(wire, AccountSnapshot)
        /\ raced' = (\E i \in DOMAIN Pending : Pending[i].cmd = "RemoveAccount")
    BY DEF snapshot, config, jobs, tasks
  <2>3. Leaving' = Leaving /\ Reals' = Reals
    BY <2>2 DEF Leaving, Reals
  <2>4. /\ wire \in Seq(DaemonEvent) /\ queue \in Seq(DaemonEvent)
        /\ inbox \in Seq(DaemonCommand) /\ cmds \in Seq(DaemonCommand)
    BY <2>1 DEF TypeOK
  <2>5. PICK own \in [Folder -> Account \cup {None}] : Agreed(own)
    BY <2>1 DEF Owned
  <2>6. PICK list : list = AccountSnapshot.accounts
    OBVIOUS
  <2>7. /\ list \in Seq(AccountEntry) /\ Fits(list, own, used, credentials)
        /\ \A b \in Account : Has(list, b) <=> b \in configured
        /\ \A b \in Account, g \in Folder, t \in Space :
             HasRow(list, b, g, t) <=> folder[g] = [account |-> b, space |-> t]
        /\ \A g \in Folder : Shows(list, g) => sched[g] # None /\ sched[g].running
    <3>1. /\ configured \subseteq credentials
          /\ \A f \in Folder : folder[f] # None =>
               f \in used /\ own[f] = folder[f].account /\ own[f] \in configured
      BY <2>1, <2>5 DEF Roles, Agreed
    <3> QED
      BY <2>1, <2>5, <2>6, <3>1, <2>SnapshotFacts, ZenonT(60)
  <2>8. PICK e \in DaemonEvent :
          e = AccountSnapshot /\ e.ev = "AccountSnapshot" /\ e.accounts = list
    <3>1. AccountSnapshot = [ev |-> "AccountSnapshot", accounts |-> list]
      BY <2>6 DEF AccountSnapshot
    <3>2. list \in Seq(AccountEntry)
      BY <2>7
    <3>3. [ev |-> "AccountSnapshot", accounts |-> list] \in DaemonEvent
      BY <3>2 DEF DaemonEvent
    <3> QED
      BY <3>1, <3>3
  <2>9. /\ wire' \in Seq(DaemonEvent) /\ Len(wire') = Len(wire) + 1 /\ Len(wire) \in Nat
        /\ DOMAIN wire' = 1..(Len(wire) + 1) /\ DOMAIN wire = 1..Len(wire)
        /\ \A i \in 1..Len(wire) : wire'[i] = wire[i]
        /\ wire'[Len(wire) + 1] = e
    BY <2>2, <2>4, <2>8, SMT
  <2>10. TypeOK'
    <3>1. Len(wire') <= WireCap
      BY <2>2, <2>9, GuiAssumption, SMT
    <3>2. raced' \in BOOLEAN
      BY <2>2
    <3>3. link' \in {"down", "connected", "subscribed", "snapped", "streaming"} /\ lagged' \in BOOLEAN
      BY <2>2
    <3> QED
      BY <2>1, <2>2, <2>9, <3>1, <3>2, <3>3 DEF TypeOK
  <2>11. Roles'
    BY <2>1, <2>2, <2>3 DEF Roles
  <2>12. Owned'
    <3>1. EventFits(e, own, used, credentials)
      BY <2>7, <2>8 DEF EventFits
    <3>2. \A i \in DOMAIN wire' : EventFits(wire'[i], own, used, credentials)
      <4> TAKE i \in DOMAIN wire'
      <4>1. CASE i = Len(wire) + 1
        BY <2>9, <3>1, <4>1
      <4>2. CASE i # Len(wire) + 1
        <5>1. i \in 1..Len(wire)
          BY <2>9, <4>2, SMT
        <5> QED
          BY <2>5, <2>9, <5>1 DEF Agreed
      <4> QED
        BY <4>1, <4>2
    <3>3. /\ Fits(accounts, own, used, credentials)
          /\ \A i \in DOMAIN queue : EventFits(queue[i], own, used, credentials)
          /\ \A f \in Folder : folder[f] # None =>
               f \in used /\ own[f] = folder[f].account /\ own[f] \in configured
      BY <2>5 DEF Agreed
    <3>4. Agreed(own)'
      BY <2>2, <3>2, <3>3 DEF Agreed
    <3> QED
      BY <2>5, <3>4 DEF Owned
  <2>13. QueueInv'
    BY <2>1, <2>2, <2>3 DEF QueueInv, Listening
  <2>14. ASSUME ~raced' PROVE Leaving = {}
    <3>1. \A i \in DOMAIN Pending : Pending[i].cmd # "RemoveAccount"
      BY <2>2, <2>14
    <3>2. \A a : ~Removes(Pending, a)
      BY <3>1 DEF Removes
    <3>3. ASSUME NEW a PROVE ~Removes(inbox, a) /\ ~Removes(cmds, a)
      <4>1. Removes(inbox \o cmds, a) <=> Removes(inbox, a) \/ Removes(cmds, a)
        BY <2>4, RemovesConcat
      <4> QED
        BY <3>2, <4>1 DEF Pending
    <3> QED
      BY <3>3 DEF Leaving
  <2>15. Ends(queue, Reals) /\ ShowsReal(list, queue, Reals)
    <3>1. \A g \in Folder : Shows(list, g) => g \in Reals
      BY <2>7 DEF Reals
    <3> QED
      BY <2>1, <3>1 DEF QueueInv, ShowsReal
  <2>16. ASSUME ~raced' PROVE Mirrors(list, queue, configured, folder, Leaving)
    <3>1. Leaving = {}
      BY <2>14, <2>16
    <3>2. \A i \in DOMAIN queue : \A a \in Account : Joins(queue[i], a) => a \in configured
      BY <2>1, <2>2 DEF QueueInv
    <3>3. AccountsMirror(list, queue, configured, Leaving)
      BY <2>7, <3>1, <3>2 DEF AccountsMirror
    <3>4. FoldersMirror(list, queue, folder, Leaving)
      BY <2>7 DEF FoldersMirror
    <3>5. Trails(queue, configured, folder)
      BY <2>1 DEF QueueInv
    <3> QED
      BY <3>3, <3>4, <3>5 DEF Mirrors
  <2>17. ASSUME NEW k \in 0..Len(wire'), Mark(wire', k)
         PROVE  LET r == Rest(wire', queue', k)
                    base == Base(accounts', wire', k)
                IN /\ Ends(r, Reals') /\ ShowsReal(base, r, Reals')
                   /\ ~raced' => Mirrors(base, r, configured', folder', Leaving')
    <3>1. k = Len(wire')
      <4>1. Len(wire) + 1 \in DOMAIN wire' /\ wire'[Len(wire) + 1].ev = "AccountSnapshot"
        BY <2>8, <2>9, SMT
      <4>2. ~(Len(wire) + 1 > k)
        BY <2>17, <4>1 DEF Mark
      <4> QED
        BY <2>9, <4>2, SMT
    <3>2. Rest(wire', queue', k) = queue
      <4>1. Rest(wire', queue, Len(wire')) = queue
        BY <2>4, <2>9, <2>RestEnd
      <4> QED
        BY <2>2, <3>1, <4>1
    <3>3. Base(accounts', wire', k) = list
      BY <2>8, <2>9, <3>1, SMT DEF Base
    <3> QED
      BY <2>2, <2>3, <2>15, <2>16, <3>2, <3>3
  <2>18. CopyInv'
    BY <2>17 DEF CopyInv, InStep
  <2> QED
    BY <2>10, <2>11, <2>12, <2>13, <2>18 DEF Inv

<1> QED
  BY <1>LinkInv, <1>SnapshotInv, <1>ForwardInv, <1>DropInv DEF Transport

=============================================================================
