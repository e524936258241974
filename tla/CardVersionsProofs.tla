-------------------------- MODULE CardVersionsProofs --------------------------
(***************************************************************************)
(* Proofs about CardVersions, for any versions, schemas, capabilities and  *)
(* bounds: a version change is all or nothing, leaves no state without a   *)
(* backup, and no grant is used or carried over that nobody gave.          *)
(***************************************************************************)
EXTENDS CardVersions, TLAPS, WellFoundedInduction

Used == [edits : 0..MaxEdits, switches : 0..MaxSwitches, builds : Builds, restarts : 0..MaxRestarts]

DbOK(d) == d \in Database /\ Len(d.backups) <= MaxBackups

LEMMA BoundsAreNat ==
  /\ MaxBackups \in Nat \ {0} /\ MaxEdits \in Nat /\ MaxSwitches \in Nat
  /\ MaxPrompts \in Nat /\ MaxQueued \in Nat /\ MaxRestarts \in Nat
  BY CardVersionsAssumption

LEMMA NothingIsData == Nothing \in Data
  BY CardVersionsAssumption DEF Nothing, Data

LEMMA BackupTyped == ASSUME NEW v \in Versions, NEW x \in Data
                     PROVE  [version |-> v, data |-> x] \in Backup
  BY DEF Backup

\* A backup made is the last in the list, whatever is pruned.
LEMMA WithBackupKeeps ==
  ASSUME NEW bs \in Seq(Backup), Len(bs) <= MaxBackups, NEW b \in Backup
  PROVE  /\ WithBackup(bs, b) \in Seq(Backup)
         /\ Len(WithBackup(bs, b)) \in 1..MaxBackups
         /\ WithBackup(bs, b)[Len(WithBackup(bs, b))] = b
<1> DEFINE all == Append(bs, b)
<1>1. all \in Seq(Backup) /\ Len(all) = Len(bs) + 1 /\ all[Len(all)] = b
  OBVIOUS
<1>2. CASE Len(all) > MaxBackups
  <2>1. MaxBackups \in Nat \ {0}
    BY CardVersionsAssumption
  <2>2. /\ Tail(all) \in Seq(Backup) /\ Len(Tail(all)) = Len(all) - 1
        /\ \A i \in 1..Len(Tail(all)) : Tail(all)[i] = all[i + 1]
    BY <1>1, <1>2, <2>1
  <2>3. WithBackup(bs, b) = Tail(all)
    BY <1>2 DEF WithBackup
  <2> HIDE DEF all
  <2> QED BY <1>1, <1>2, <2>1, <2>2, <2>3
<1>3. CASE ~(Len(all) > MaxBackups)
  <2>1. WithBackup(bs, b) = all
    BY <1>3 DEF WithBackup
  <2>2. MaxBackups \in Nat \ {0}
    BY CardVersionsAssumption
  <2> HIDE DEF all
  <2> QED BY <1>1, <1>3, <2>1, <2>2
<1> QED BY <1>2, <1>3

\* What the transaction does to each column.
Switched(d, to, ns, data, grants, s) ==
  /\ DbOK(s)
  /\ s.row.version = to /\ s.row.place = d.row.place /\ s.grants = grants
  /\ Compatible(d.row.version, to) =>
       s.row.ns = d.row.ns /\ s.state = d.state /\ s.backups = d.backups
  /\ ~Compatible(d.row.version, to) =>
       /\ s.row.ns = ns
       /\ s.state = [d.state EXCEPT ![ns] = data]
       /\ s.backups = WithBackup(d.backups, [version |-> d.row.version,
                                             data |-> d.state[d.row.ns]])

LEMMA SwitchFields ==
  ASSUME NEW d, DbOK(d), NEW to \in Versions, NEW ns \in Namespaces, NEW data \in Data,
         NEW grants \in SUBSET Grant, NEW s, s = Switch(d, to, ns, data, grants)
  PROVE  Switched(d, to, ns, data, grants, s)
<1> DEFINE b == [version |-> d.row.version, data |-> d.state[d.row.ns]]
<1>1. /\ d \in Database /\ d.row \in Row /\ d.state \in [Namespaces -> Data] /\ d.backups \in Seq(Backup)
      /\ d.row.version \in Versions /\ d.row.ns \in Namespaces /\ Len(d.backups) <= MaxBackups
  BY DEF DbOK, Database, Row
<1>2. b \in Backup
  BY <1>1, BackupTyped
<1>3. WithBackup(d.backups, b) \in Seq(Backup) /\ Len(WithBackup(d.backups, b)) <= MaxBackups
  <2>1. WithBackup(d.backups, b) \in Seq(Backup) /\ Len(WithBackup(d.backups, b)) \in 1..MaxBackups
    BY <1>1, <1>2, WithBackupKeeps, Zenon
  <2> HIDE DEF b
  <2> QED BY <2>1, BoundsAreNat
<1>4. [d.state EXCEPT ![ns] = data] \in [Namespaces -> Data]
  BY <1>1
<1>5. CASE Compatible(d.row.version, to)
  <2>1. s = [d EXCEPT !.row.version = to, !.grants = grants]
    BY <1>5 DEF Switch
  <2>2. /\ s.row.version = to /\ s.row.place = d.row.place /\ s.row.ns = d.row.ns
        /\ s.state = d.state /\ s.backups = d.backups /\ s.grants = grants
    BY <1>1, <2>1, Zenon DEF Database, Row
  <2>3. s \in Database
    BY <1>1, <2>1, Zenon DEF Database, Row
  <2> QED BY <1>1, <1>5, <2>2, <2>3 DEF DbOK, Switched
<1>6. CASE ~Compatible(d.row.version, to)
  <2>1. s = [d EXCEPT !.row.version = to, !.row.ns = ns, !.state[ns] = data, !.grants = grants,
                      !.backups = WithBackup(d.backups, b)]
    BY <1>6 DEF Switch
  <2>7. s.row = [[d.row EXCEPT !.version = to] EXCEPT !.ns = ns]
    BY <1>1, <2>1, Zenon DEF Database
  <2>2. s.row.version = to /\ s.row.place = d.row.place /\ s.row.ns = ns /\ s.row \in Row
    BY <1>1, <2>7, Zenon DEF Row
  <2>3. s.state = [d.state EXCEPT ![ns] = data]
    BY <1>1, <2>1, Zenon DEF Database
  <2>4. s.grants = grants
    BY <1>1, <2>1, Zenon DEF Database
  <2>5. s.backups = WithBackup(d.backups, b)
    BY <1>1, <2>1, Zenon DEF Database
  <2>6. s \in Database
    BY <1>1, <1>3, <1>4, <2>1, <2>2, <2>3, <2>4, <2>5, Zenon DEF Database
  <2> QED BY <1>1, <1>3, <1>6, <2>2, <2>3, <2>4, <2>5, <2>6 DEF DbOK, Switched
<1> QED BY <1>5, <1>6

\* A set of positions has a last one.
LEMMA Largest ==
  ASSUME NEW n \in Nat, NEW S, S \subseteq 1..n, S # {}
  PROVE  \E i \in S : \A j \in S : j <= i
<1> DEFINE T == {n - i : i \in S}
<1> DEFINE R == {ss \in Nat \X Nat : ss[1] < ss[2]}
<1>1. IsWellFoundedOn(R, Nat)
  BY NatLessThanWellFounded DEF OpToRel
<1>2. T \subseteq Nat /\ T # {}
  <2>1. \A i \in S : n - i \in Nat
    OBVIOUS
  <2>2. PICK i \in S : TRUE
    OBVIOUS
  <2>3. n - i \in T
    BY <2>2
  <2> QED BY <2>1, <2>3
<1>3. \E x \in T : \A y \in T : ~(<<y, x>> \in R)
  <2> HIDE DEF T, R
  <2> QED BY <1>1, <1>2, WFMin, Zenon
<1>4. PICK x \in T : \A y \in T : ~(<<y, x>> \in R)
  BY <1>3, Zenon
<1>5. PICK i \in S : x = n - i
  BY <1>4
<1>6. ASSUME NEW j \in S PROVE j <= i
  <2>1. n - j \in T
    OBVIOUS
  <2>2. ~(<<n - j, x>> \in R)
    BY <2>1, <1>4, Zenon
  <2>3. n - j \in Nat /\ x \in Nat
    BY <1>2, <1>4, <2>1
  <2>4. ~(n - j < x)
    BY <2>2, <2>3
  <2> QED BY <2>4, <1>5
<1> QED BY <1>6

\* The newest backup of a version is one of its backups.
LEMMA NewestTyped ==
  ASSUME NEW d, DbOK(d), NEW v, BackupsOf(d, v) # {}
  PROVE  NewestOf(d, v) \in Data
<1> DEFINE S == BackupsOf(d, v)
           k == CHOOSE i \in S : \A j \in S : j <= i
<1>1. d.backups \in Seq(Backup) /\ Len(d.backups) \in Nat
  BY DEF DbOK, Database
<1>2. S \subseteq 1..Len(d.backups) /\ S # {}
  BY DEF BackupsOf
<1>3. \E i \in S : \A j \in S : j <= i
  <2> HIDE DEF S
  <2> QED BY <1>1, <1>2, Largest
<1>4. k \in S
  BY <1>3, Zenon
<1>5. d.backups[k] \in Backup
  <2> HIDE DEF S, k
  <2> QED BY <1>1, <1>2, <1>4
<1> QED BY <1>5, Zenon DEF NewestOf, Backup

\* A backup that is the last in the list is the newest of its version.
LEMMA NewestIsLast ==
  ASSUME NEW d, DbOK(d), Len(d.backups) > 0, NEW v, d.backups[Len(d.backups)].version = v
  PROVE  BackupsOf(d, v) # {} /\ NewestOf(d, v) = d.backups[Len(d.backups)].data
<1> DEFINE S == BackupsOf(d, v)
           k == CHOOSE i \in S : \A j \in S : j <= i
           n == Len(d.backups)
<1>1. n \in Nat \ {0}
  BY DEF DbOK, Database
<1>2. S \subseteq 1..n /\ n \in S
  BY <1>1 DEF BackupsOf
<1>3. \A j \in S : j <= n
  BY <1>1, <1>2
<1>4. k \in S /\ \A j \in S : j <= k
  BY <1>2, <1>3, Zenon
<1>5. k = n
  <2> HIDE DEF S, k, n
  <2> QED BY <1>1, <1>2, <1>3, <1>4
<1> QED BY <1>2, <1>5 DEF NewestOf

-------------------------------------------------------------------------------
(* The inductive invariant. *)

\* A change under way has room for its switch and leads to another version than
\* those the card and, once prepared, the row have.
ChangeInv ==
  /\ change.stage \in {"preparing", "unattended", "dialog"} =>
       change.to \in Versions /\ change.to # card.version /\ used.switches < MaxSwitches
  /\ change.stage = "dialog" => change.from \in Versions /\ change.from # change.to

\* A prompt is for a capability its version declares, and a broker that is still
\* in use asked for the version it serves.
PromptsInv ==
  \A i \in 1..Len(prompts) :
    /\ prompts[i].cap \in Declared[prompts[i].version]
    /\ prompts[i].build <= used.builds
    /\ prompts[i].build = card.build => prompts[i].version = card.version

\* Builds are counted: a card built later has another number.
BuildsInv == card.build <= used.builds /\ used.builds <= used.switches + used.restarts

VInv ==
  TypeOK /\ ChangeInv /\ PromptsInv /\ BuildsInv /\ GrantsAreApproved /\ BrokerHasRows

LEMMA VInvHoldsInitially == Init => VInv
<1> SUFFICES ASSUME Init PROVE VInv
  OBVIOUS
<1>1. PICK v \in Versions :
        /\ db = [row     |-> [version |-> v, ns |-> 0, place |-> "main"],
                 state   |-> [n \in Namespaces |-> Nothing],
                 backups |-> <<>>,
                 grants  |-> {[version |-> v, cap |-> c] : c \in AutoGranted \cap Declared[v]}]
        /\ card = [version |-> v, ns |-> 0, place |-> "main", persisted |-> Nothing,
                   broker |-> AutoGranted \cap Declared[v], build |-> 0]
        /\ view = ViewOf(card) /\ window = NoWindow /\ page = "workspace" /\ change = NoChange
        /\ prompts = <<>> /\ approved = AutoGranted
        /\ used = [edits |-> 0, switches |-> 0, builds |-> 0, restarts |-> 0]
  BY DEF Init
<1>2. Nothing \in Data /\ 0 \in Namespaces /\ 0 \in Builds
  BY NothingIsData, BoundsAreNat DEF Namespaces, Builds
<1>3. Declared[v] \subseteq Capabilities
  BY DEF Capabilities
<1>4. {[version |-> v, cap |-> c] : c \in AutoGranted \cap Declared[v]} \subseteq Grant
  BY <1>3 DEF Grant
<1>5. db \in Database /\ Len(db.backups) <= MaxBackups
  BY <1>1, <1>2, <1>4, BoundsAreNat DEF Database, Row
<1>6. card \in Card
  BY <1>1, <1>2, <1>3 DEF Card
<1>7. view \in View
  BY <1>1, <1>2 DEF View, ViewOf
<1>8. window \in Window /\ Len(window.sent) <= MaxQueued
  BY <1>1, <1>2, BoundsAreNat DEF Window, NoWindow
<1>9. change \in Change /\ change.stage = "none"
  BY <1>1 DEF Change, NoChange
<1>10. TypeOK
  BY <1>1, <1>2, <1>5, <1>6, <1>7, <1>8, <1>9, BoundsAreNat DEF TypeOK
<1>11. GrantsAreApproved
  BY <1>1 DEF GrantsAreApproved
<1>12. BrokerHasRows
  <2>1. \A c \in AutoGranted \cap Declared[v] : [version |-> v, cap |-> c] \in db.grants
    BY <1>1
  <2>2. card.broker = AutoGranted \cap Declared[v] /\ card.version = v
    BY <1>1
  <2>3. ASSUME NEW c \in card.broker PROVE c \in GrantedTo(db, v)
    <3> DEFINE g == [version |-> v, cap |-> c]
    <3>1. g \in db.grants /\ g.version = v /\ g.cap = c
      BY <2>1, <2>2, <2>3
    <3> HIDE DEF g
    <3> QED BY <3>1 DEF GrantedTo
  <2> QED BY <2>2, <2>3 DEF BrokerHasRows
<1> QED BY <1>1, <1>9, <1>10, <1>11, <1>12 DEF VInv, ChangeInv, PromptsInv, BuildsInv

-------------------------------------------------------------------------------
(* Edits, stores and moves.                                                   *)

\* The typed parts of the state, one by one.
LEMMA Typed ==
  ASSUME TypeOK
  PROVE  /\ DbOK(db) /\ db.row \in Row /\ db.state \in [Namespaces -> Data]
         /\ db.backups \in Seq(Backup) /\ db.grants \subseteq Grant
         /\ card.version \in Versions /\ card.ns \in Namespaces /\ card.place \in {"main", "window"}
         /\ card.persisted \in Data /\ card.broker \subseteq Capabilities /\ card.build \in Builds
         /\ used \in Used /\ used.edits \in Nat /\ used.switches \in Nat /\ used.builds \in Nat
         /\ used.restarts \in Nat
<1>1. /\ DbOK(db) /\ db.row \in Row /\ db.state \in [Namespaces -> Data]
      /\ db.backups \in Seq(Backup) /\ db.grants \subseteq Grant
  BY DEF TypeOK, DbOK, Database
<1>2. card \in Card /\ used \in Used
  BY DEF TypeOK, Used
<1>3. /\ card.version \in Versions /\ card.ns \in Namespaces /\ card.place \in {"main", "window"}
      /\ card.persisted \in Data /\ card.broker \subseteq Capabilities /\ card.build \in Builds
  BY <1>2 DEF Card
<1>4. /\ used.edits \in Nat /\ used.switches \in Nat /\ used.builds \in Nat
      /\ used.restarts \in Nat
  BY <1>2, BoundsAreNat DEF Used, Builds
<1> QED BY <1>1, <1>2, <1>3, <1>4

\* An edit is counted, and nothing else is.
LEMMA EditedCounts ==
  ASSUME TypeOK, Edited, NEW v \in Versions \cup {0}
  PROVE  /\ NextEdit(v) \in Data
         /\ used' \in Used
         /\ used'.switches = used.switches /\ used'.builds = used.builds
         /\ used'.restarts = used.restarts
<1>1. used \in Used /\ used.edits \in Nat /\ used.edits < MaxEdits
  BY Typed DEF Edited
<1>2. used.edits + 1 \in 0..MaxEdits
  BY <1>1, BoundsAreNat
<1>3. NextEdit(v) \in Data
  BY <1>2 DEF NextEdit, Data
<1>4. used' = [used EXCEPT !.edits = used.edits + 1]
  BY DEF Edited
<1>5. used' \in Used
  BY <1>1, <1>2, <1>4 DEF Used
<1> QED BY <1>1, <1>3, <1>4, <1>5 DEF Used

\* A store writes one state and nothing else.
LEMMA StoreKeeps ==
  ASSUME NEW d, DbOK(d), NEW n \in Namespaces, NEW x \in Data
  PROVE  LET s == [d EXCEPT !.state[n] = x]
         IN  /\ DbOK(s)
             /\ s.row = d.row /\ s.grants = d.grants /\ s.backups = d.backups
<1> DEFINE s == [d EXCEPT !.state[n] = x]
<1>1. d \in Database /\ d.state \in [Namespaces -> Data] /\ Len(d.backups) <= MaxBackups
  BY DEF DbOK, Database
<1>2. s.row = d.row /\ s.grants = d.grants /\ s.backups = d.backups
  BY <1>1, Zenon DEF Database
<1>3. [d.state EXCEPT ![n] = x] \in [Namespaces -> Data]
  BY <1>1
<1>4. s.state = [d.state EXCEPT ![n] = x]
  BY <1>1, Zenon DEF Database
<1>5. s \in Database
  BY <1>1, <1>3, Zenon DEF Database
<1> HIDE DEF s
<1>6. DbOK(s)
  BY <1>1, <1>2, <1>5 DEF DbOK
<1> QED BY <1>2, <1>6 DEF s

\* A move writes the place and nothing else.
LEMMA MoveKeeps ==
  ASSUME NEW d, DbOK(d), NEW p \in {"main", "window"}
  PROVE  LET s == [d EXCEPT !.row.place = p]
         IN  /\ DbOK(s)
             /\ s.row.version = d.row.version /\ s.row.ns = d.row.ns
             /\ s.grants = d.grants /\ s.backups = d.backups /\ s.state = d.state
<1> DEFINE s == [d EXCEPT !.row.place = p]
<1>1. d \in Database /\ d.row \in Row /\ Len(d.backups) <= MaxBackups
  BY DEF DbOK, Database
<1>2. s.state = d.state /\ s.grants = d.grants /\ s.backups = d.backups
  BY <1>1, Zenon DEF Database
<1>3. s.row = [d.row EXCEPT !.place = p]
  BY <1>1, Zenon DEF Database
<1>4. s.row \in Row /\ s.row.version = d.row.version /\ s.row.ns = d.row.ns
  BY <1>1, <1>3, Zenon DEF Row
<1>5. s \in Database
  BY <1>1, <1>4, <1>3, Zenon DEF Database
<1> HIDE DEF s
<1>6. DbOK(s)
  BY <1>1, <1>2, <1>5 DEF DbOK
<1> QED BY <1>2, <1>4, <1>6 DEF s

LEMMA FlushedKeeps ==
  ASSUME TypeOK
  PROVE  /\ DbOK(Flushed)
         /\ Flushed.row = db.row /\ Flushed.grants = db.grants /\ Flushed.backups = db.backups
<1>1. DbOK(db) /\ card.ns \in Namespaces /\ view.data \in Data
  BY Typed DEF TypeOK, View
<1>2. CASE view.dirty
  <2>1. Flushed = [db EXCEPT !.state[card.ns] = view.data]
    BY <1>2 DEF Flushed
  <2> QED BY <1>1, <2>1, StoreKeeps
<1>3. CASE ~view.dirty
  BY <1>1, <1>3 DEF Flushed
<1> QED BY <1>2, <1>3

-------------------------------------------------------------------------------
(* Steps that touch neither a version nor a grant.                            *)

Quiet ==
  /\ db'.row.version = db.row.version /\ db'.row.ns = db.row.ns
  /\ db'.grants = db.grants /\ db'.backups = db.backups
  /\ card'.version = card.version /\ card'.broker = card.broker /\ card'.build = card.build
  /\ used'.switches = used.switches /\ used'.builds = used.builds /\ used'.restarts = used.restarts
  /\ UNCHANGED <<change, prompts, approved>>

LEMMA QuietKeeps ==
  ASSUME VInv, TypeOK', Quiet
  PROVE  VInv'
<1>1. ChangeInv'
  BY DEF VInv, ChangeInv, Quiet
<1>2. PromptsInv'
  BY DEF VInv, PromptsInv, Quiet
<1>3. BuildsInv'
  BY DEF VInv, BuildsInv, Quiet
<1>4. GrantsAreApproved'
  BY DEF VInv, GrantsAreApproved, Quiet
<1>5. BrokerHasRows'
  BY DEF VInv, BrokerHasRows, GrantedTo, Quiet
<1> QED BY <1>1, <1>2, <1>3, <1>4, <1>5 DEF VInv

\* The type invariant of the next state, part by part.
LEMMA TypedNext ==
  ASSUME DbOK(db)', (card \in Card)', (view \in View)',
         (window \in Window /\ Len(window.sent) <= MaxQueued)',
         (page \in {"workspace", "versions"})', (change \in Change)',
         (prompts \in Seq(Prompt) /\ Len(prompts) <= MaxPrompts)',
         (approved \subseteq Capabilities \cup AutoGranted)', (used \in Used)'
  PROVE  TypeOK'
  BY DEF TypeOK, DbOK, Used

LEMMA EditInViewIsQuiet == ASSUME TypeOK, EditInView PROVE TypeOK' /\ Quiet
<1>1. card.version \in Versions /\ Edited
  BY Typed DEF EditInView
<1>2. /\ NextEdit(card.version) \in Data /\ used' \in Used
      /\ used'.switches = used.switches /\ used'.builds = used.builds /\ used'.restarts = used.restarts
  BY <1>1, EditedCounts
<1>3. view' = [view EXCEPT !.data = NextEdit(card.version), !.dirty = TRUE]
  BY DEF EditInView
<1>4. view' \in View
  BY <1>2, <1>3, Zenon DEF TypeOK, View
<1>5. UNCHANGED <<db, card, window, page, change, prompts, approved>>
  BY DEF EditInView
<1>6. TypeOK'
  BY <1>2, <1>4, <1>5, Typed, TypedNext DEF TypeOK, DbOK
<1> QED BY <1>2, <1>5, <1>6 DEF Quiet

LEMMA FlushIsQuiet == ASSUME TypeOK, Flush PROVE TypeOK' /\ Quiet
<1>1. /\ db' = Flushed /\ view' = [view EXCEPT !.dirty = FALSE]
      /\ UNCHANGED <<card, window, page, change, prompts, approved, used>>
  BY DEF Flush
<1>2. DbOK(db') /\ db'.row = db.row /\ db'.grants = db.grants /\ db'.backups = db.backups
  BY <1>1, FlushedKeeps
<1>3. view' \in View
  BY <1>1, Zenon DEF TypeOK, View
<1>4. TypeOK'
  BY <1>1, <1>2, <1>3, Typed, TypedNext DEF TypeOK, DbOK
<1> QED BY <1>1, <1>2, <1>4 DEF Quiet

LEMMA EditInWindowIsQuiet == ASSUME TypeOK, EditInWindow PROVE TypeOK' /\ Quiet
<1>1. window.version \in {0} \cup Versions /\ window.sent \in Seq(Data) /\ window \in Window
  BY DEF TypeOK, Window
<1> DEFINE e == NextEdit(window.version)
<1>2. /\ e \in Data /\ used' \in Used
      /\ used'.switches = used.switches /\ used'.builds = used.builds /\ used'.restarts = used.restarts
  BY <1>1, EditedCounts DEF EditInWindow
<1>3. window' = [window EXCEPT !.data = e, !.sent = Append(window.sent, e)]
  BY DEF EditInWindow
<1> HIDE DEF e
<1>4. Append(window.sent, e) \in Seq(Data) /\ Len(Append(window.sent, e)) = Len(window.sent) + 1
  BY <1>1, <1>2
<1>5. window' \in Window /\ window'.sent = Append(window.sent, e)
  BY <1>1, <1>2, <1>3, <1>4, Zenon DEF Window
<1>6. Len(window'.sent) <= MaxQueued
  BY <1>1, <1>4, <1>5, BoundsAreNat DEF EditInWindow
<1>7. UNCHANGED <<db, card, view, page, change, prompts, approved>>
  BY DEF EditInWindow
<1>8. TypeOK'
  BY <1>2, <1>5, <1>6, <1>7, Typed, TypedNext DEF TypeOK, DbOK
<1> QED BY <1>2, <1>7, <1>8 DEF Quiet

LEMMA DeliverIsQuiet == ASSUME TypeOK, Deliver PROVE TypeOK' /\ Quiet
<1> DEFINE x == Head(window.sent)
<1>1. /\ window.sent # <<>> /\ db' = [db EXCEPT !.state[db.row.ns] = x]
      /\ card' = [card EXCEPT !.persisted = x] /\ window' = [window EXCEPT !.sent = Tail(window.sent)]
      /\ UNCHANGED <<view, page, change, prompts, approved, used>>
  BY DEF Deliver
<1>2. window \in Window /\ window.sent \in Seq(Data) /\ Len(window.sent) <= MaxQueued
  BY DEF TypeOK, Window
<1>3. /\ x \in Data /\ Tail(window.sent) \in Seq(Data)
      /\ Len(Tail(window.sent)) = Len(window.sent) - 1 /\ Len(window.sent) \in Nat
  BY <1>1, <1>2
<1> HIDE DEF x
<1>4. db.row.ns \in Namespaces /\ DbOK(db)
  BY Typed DEF Row
<1>5. DbOK(db') /\ db'.row = db.row /\ db'.grants = db.grants /\ db'.backups = db.backups
  BY <1>1, <1>3, <1>4, StoreKeeps
<1>6. /\ card' \in Card /\ card'.version = card.version /\ card'.broker = card.broker
      /\ card'.build = card.build
  BY <1>1, <1>3, Zenon DEF TypeOK, Card
<1>7. window' \in Window /\ window'.sent = Tail(window.sent)
  BY <1>1, <1>2, <1>3, Zenon DEF Window
<1>8. Len(window'.sent) <= MaxQueued
  BY <1>2, <1>3, <1>7, BoundsAreNat
<1>9. TypeOK'
  BY <1>1, <1>5, <1>6, <1>7, <1>8, Typed, TypedNext DEF TypeOK
<1> QED BY <1>1, <1>5, <1>6, <1>9 DEF Quiet

LEMMA ViewTyped == TypeOK => ViewOf(card) \in View /\ NoView \in View
  BY Typed, NothingIsData DEF ViewOf, NoView, View

LEMMA StartDetachIsQuiet == ASSUME TypeOK, StartDetach PROVE TypeOK' /\ Quiet
<1>1. /\ window' = [phase |-> "opening", version |-> card.version,
                    data |-> db.state[card.ns], sent |-> <<>>]
      /\ UNCHANGED <<db, card, view, page, change, prompts, approved, used>>
  BY DEF StartDetach
<1>2. card.version \in Versions /\ db.state[card.ns] \in Data
  BY Typed
<1>3. window' \in Window /\ Len(window'.sent) <= MaxQueued
  BY <1>1, <1>2, BoundsAreNat DEF Window
<1>4. TypeOK'
  BY <1>1, <1>3, Typed, TypedNext DEF TypeOK, DbOK
<1> QED BY <1>1, <1>4 DEF Quiet

LEMMA ShowWindowIsQuiet == ASSUME TypeOK, ShowWindow PROVE TypeOK' /\ Quiet
<1>1. /\ window' = [window EXCEPT !.phase = "shown"]
      /\ UNCHANGED <<db, card, view, page, change, prompts, approved, used>>
  BY DEF ShowWindow
<1>2. window' \in Window /\ Len(window'.sent) <= MaxQueued
  BY <1>1 DEF TypeOK, Window
<1>3. TypeOK'
  BY <1>1, <1>2, Typed, TypedNext DEF TypeOK, DbOK
<1> QED BY <1>1, <1>3 DEF Quiet

LEMMA MoveToWindowIsQuiet == ASSUME TypeOK, MoveToWindow PROVE TypeOK' /\ Quiet
<1>1. /\ db' = [Flushed EXCEPT !.row.place = "window"] /\ card' = [card EXCEPT !.place = "window"]
      /\ view' = NoView /\ window' = [window EXCEPT !.phase = "open"]
      /\ UNCHANGED <<page, change, prompts, approved, used>>
  BY DEF MoveToWindow
<1>2. /\ DbOK(Flushed) /\ Flushed.row = db.row
      /\ Flushed.grants = db.grants /\ Flushed.backups = db.backups
  BY FlushedKeeps
<1>3. /\ DbOK(db') /\ db'.row.version = db.row.version /\ db'.row.ns = db.row.ns
      /\ db'.grants = db.grants /\ db'.backups = db.backups
  BY <1>1, <1>2, MoveKeeps
<1>4. /\ card' \in Card /\ card'.version = card.version /\ card'.broker = card.broker
      /\ card'.build = card.build
  BY <1>1, Zenon DEF TypeOK, Card
<1>5. view' \in View
  BY <1>1, ViewTyped
<1>6. window' \in Window /\ Len(window'.sent) <= MaxQueued
  BY <1>1 DEF TypeOK, Window
<1>7. TypeOK'
  BY <1>1, <1>3, <1>4, <1>5, <1>6, Typed, TypedNext DEF TypeOK
<1> QED BY <1>1, <1>3, <1>4, <1>7 DEF Quiet

LEMMA MoveToMainIsQuiet == ASSUME TypeOK, MoveToMain PROVE TypeOK' /\ Quiet
<1>1. /\ db' = [db EXCEPT !.row.place = "main"] /\ card' = [card EXCEPT !.place = "main"]
      /\ view' = IF page = "workspace" THEN ViewOf(card) ELSE NoView
      /\ window' = NoWindow
      /\ UNCHANGED <<page, change, prompts, approved, used>>
  BY DEF MoveToMain
<1>2. /\ DbOK(db') /\ db'.row.version = db.row.version /\ db'.row.ns = db.row.ns
      /\ db'.grants = db.grants /\ db'.backups = db.backups
  BY <1>1, Typed, MoveKeeps
<1>3. /\ card' \in Card /\ card'.version = card.version /\ card'.broker = card.broker
      /\ card'.build = card.build
  BY <1>1, Zenon DEF TypeOK, Card
<1>4. view' \in View
  BY <1>1, ViewTyped
<1>5. window' \in Window /\ Len(window'.sent) <= MaxQueued
  BY <1>1, NothingIsData, BoundsAreNat DEF NoWindow, Window
<1>6. TypeOK'
  BY <1>1, <1>2, <1>3, <1>4, <1>5, Typed, TypedNext DEF TypeOK
<1> QED BY <1>1, <1>2, <1>3, <1>6 DEF Quiet

LEMMA StartDockIsQuiet == ASSUME TypeOK, StartDock PROVE TypeOK' /\ Quiet
<1>1. /\ window' = [NoWindow EXCEPT !.phase = "docking"]
      /\ UNCHANGED <<db, card, view, page, change, prompts, approved, used>>
  BY DEF StartDock
<1>2. window' = [phase |-> "docking", version |-> 0, data |-> Nothing, sent |-> <<>>]
  BY <1>1 DEF NoWindow
<1>3. window' \in Window /\ Len(window'.sent) <= MaxQueued
  BY <1>2, NothingIsData, BoundsAreNat DEF Window
<1>4. TypeOK'
  BY <1>1, <1>3, Typed, TypedNext DEF TypeOK, DbOK
<1> QED BY <1>1, <1>4 DEF Quiet

LEMMA LeaveWorkspaceIsQuiet == ASSUME TypeOK, LeaveWorkspace PROVE TypeOK' /\ Quiet
<1>1. /\ page' = "versions" /\ db' = Flushed /\ view' = NoView
      /\ UNCHANGED <<card, window, change, prompts, approved, used>>
  BY DEF LeaveWorkspace
<1>2. DbOK(db') /\ db'.row = db.row /\ db'.grants = db.grants /\ db'.backups = db.backups
  BY <1>1, FlushedKeeps
<1>3. view' \in View
  BY <1>1, ViewTyped
<1>4. TypeOK'
  BY <1>1, <1>2, <1>3, Typed, TypedNext DEF TypeOK
<1> QED BY <1>1, <1>2, <1>4 DEF Quiet

QuietStep ==
  \/ EditInView \/ Flush \/ EditInWindow \/ Deliver \/ StartDetach \/ ShowWindow
  \/ MoveToWindow \/ CloseWindow \/ StartDock \/ EndDock \/ LeaveWorkspace

LEMMA QuietSteps == ASSUME TypeOK, QuietStep PROVE TypeOK' /\ Quiet
  BY EditInViewIsQuiet, FlushIsQuiet, EditInWindowIsQuiet, DeliverIsQuiet, StartDetachIsQuiet,
     ShowWindowIsQuiet, MoveToWindowIsQuiet, MoveToMainIsQuiet, StartDockIsQuiet,
     LeaveWorkspaceIsQuiet DEF QuietStep, CloseWindow, EndDock

-------------------------------------------------------------------------------
(* The page, the prompts and the stages of a change.                          *)

\* A step that leaves the database, the card and the bounds alone.
LEMMA ReturnKeeps == ASSUME VInv, ReturnToWorkspace PROVE VInv'
<1>1. /\ page' = "workspace"
      /\ view' = IF card.place = "main" THEN ViewOf(card) ELSE NoView
      /\ change' = IF change.stage = "preparing" THEN [change EXCEPT !.stage = "unattended"] ELSE change
      /\ UNCHANGED <<db, card, window, prompts, approved, used>>
  BY DEF ReturnToWorkspace
<1>2. TypeOK
  BY DEF VInv
<1>3. view' \in View
  BY <1>1, <1>2, ViewTyped
<1>4. /\ change' \in Change /\ change'.to = change.to
      /\ change'.stage = "dialog" => change' = change
      /\ change'.stage = "unattended" => change.stage \in {"preparing", "unattended"}
      /\ change'.stage # "unattended" => change' = change
  BY <1>1, <1>2 DEF TypeOK, Change
<1>5. TypeOK'
  BY <1>1, <1>2, <1>3, <1>4, Typed, TypedNext DEF TypeOK, DbOK
<1>6. ChangeInv'
  BY <1>1, <1>4 DEF VInv, ChangeInv
<1>7. (PromptsInv /\ BuildsInv /\ GrantsAreApproved /\ BrokerHasRows)'
  BY <1>1 DEF VInv, PromptsInv, BuildsInv, GrantsAreApproved, BrokerHasRows, GrantedTo
<1> QED BY <1>5, <1>6, <1>7 DEF VInv

LEMMA AskKeeps == ASSUME VInv, NEW cap \in Capabilities, AskPermission(cap) PROVE VInv'
<1> DEFINE p == [version |-> card.version, cap |-> cap, build |-> card.build]
<1>1. /\ prompts' = Append(prompts, p) /\ Len(prompts) < MaxPrompts
      /\ cap \in Declared[card.version]
      /\ UNCHANGED <<db, card, view, window, page, change, approved, used>>
  BY DEF AskPermission
<1>2. TypeOK /\ prompts \in Seq(Prompt)
  BY DEF VInv, TypeOK
<1>3. p \in Prompt /\ p.version = card.version /\ p.cap = cap /\ p.build = card.build
  BY <1>2, Typed DEF Prompt
<1> HIDE DEF p
<1>4. /\ prompts' \in Seq(Prompt) /\ Len(prompts') = Len(prompts) + 1
      /\ \A i \in 1..Len(prompts') : (i <= Len(prompts) /\ prompts'[i] = prompts[i]) \/ prompts'[i] = p
  BY <1>1, <1>2, <1>3
<1>5. TypeOK'
  BY <1>1, <1>2, <1>4, Typed, TypedNext, BoundsAreNat DEF TypeOK, DbOK
<1>6. PromptsInv'
  <2> SUFFICES ASSUME NEW i \in 1..Len(prompts')
               PROVE  /\ prompts'[i].cap \in Declared[prompts'[i].version]
                      /\ prompts'[i].build <= used.builds
                      /\ prompts'[i].build = card.build => prompts'[i].version = card.version
    BY <1>1 DEF PromptsInv
  <2>1. CASE i <= Len(prompts) /\ prompts'[i] = prompts[i]
    <3>1. i \in 1..Len(prompts)
      BY <1>2, <2>1
    <3> QED BY <2>1, <3>1 DEF VInv, PromptsInv
  <2>2. CASE prompts'[i] = p
    BY <1>1, <1>3, <2>2 DEF VInv, BuildsInv
  <2> QED BY <1>4, <2>1, <2>2
<1>7. (ChangeInv /\ BuildsInv /\ GrantsAreApproved /\ BrokerHasRows)'
  BY <1>1 DEF VInv, ChangeInv, BuildsInv, GrantsAreApproved, BrokerHasRows, GrantedTo
<1> QED BY <1>5, <1>6, <1>7 DEF VInv

\* Answering a prompt leaves the others as they are.
LEMMA AnswerKeepsPrompts ==
  ASSUME VInv, prompts # <<>>, prompts' = Tail(prompts)
  PROVE  /\ (prompts \in Seq(Prompt) /\ Len(prompts) <= MaxPrompts)'
         /\ (used' = used /\ card'.build = card.build /\ card'.version = card.version) => PromptsInv'
         /\ Head(prompts) \in Prompt
         /\ Head(prompts).cap \in Declared[Head(prompts).version]
         /\ Head(prompts).build = card.build => Head(prompts).version = card.version
<1>1. prompts \in Seq(Prompt) /\ Len(prompts) \in Nat /\ Len(prompts) <= MaxPrompts
  BY DEF VInv, TypeOK
<1>2. /\ prompts' \in Seq(Prompt) /\ Len(prompts') = Len(prompts) - 1
      /\ \A i \in 1..Len(prompts') : prompts'[i] = prompts[i + 1] /\ i + 1 \in 1..Len(prompts)
      /\ Head(prompts) = prompts[1] /\ 1 \in 1..Len(prompts) /\ Head(prompts) \in Prompt
  BY <1>1
<1>3. Len(prompts') <= MaxPrompts
  BY <1>1, <1>2, BoundsAreNat
<1>4. /\ Head(prompts).cap \in Declared[Head(prompts).version]
      /\ Head(prompts).build = card.build => Head(prompts).version = card.version
  BY <1>2 DEF VInv, PromptsInv
<1>5. (used' = used /\ card'.build = card.build /\ card'.version = card.version) => PromptsInv'
  BY <1>2 DEF VInv, PromptsInv
<1> QED BY <1>2, <1>3, <1>4, <1>5

LEMMA DenyKeeps == ASSUME VInv, Deny PROVE VInv'
<1>1. /\ prompts # <<>> /\ prompts' = Tail(prompts)
      /\ UNCHANGED <<db, card, view, window, page, change, approved, used>>
  BY DEF Deny, Answerable
<1>2. (prompts \in Seq(Prompt) /\ Len(prompts) <= MaxPrompts)' /\ PromptsInv'
  BY <1>1, AnswerKeepsPrompts
<1>3. TypeOK'
  BY <1>1, <1>2, Typed, TypedNext DEF VInv, TypeOK, DbOK
<1>4. (ChangeInv /\ BuildsInv /\ GrantsAreApproved /\ BrokerHasRows)'
  BY <1>1 DEF VInv, ChangeInv, BuildsInv, GrantsAreApproved, BrokerHasRows, GrantedTo
<1> QED BY <1>2, <1>3, <1>4 DEF VInv

LEMMA ApproveKeeps == ASSUME VInv, Approve PROVE VInv'
<1> DEFINE p == Head(prompts)
           g == [version |-> p.version, cap |-> p.cap]
<1>1. /\ prompts # <<>> /\ prompts' = Tail(prompts)
      /\ db' = [db EXCEPT !.grants = db.grants \cup {g}]
      /\ card' = IF p.build = card.build THEN [card EXCEPT !.broker = card.broker \cup {p.cap}] ELSE card
      /\ approved' = approved \cup {p.cap}
      /\ UNCHANGED <<view, window, page, change, used>>
  BY DEF Approve, Answerable
<1>2. TypeOK
  BY DEF VInv
<1>3. /\ (prompts \in Seq(Prompt) /\ Len(prompts) <= MaxPrompts)'
      /\ (used' = used /\ card'.build = card.build /\ card'.version = card.version) => PromptsInv'
      /\ p \in Prompt /\ p.cap \in Declared[p.version]
      /\ p.build = card.build => p.version = card.version
  BY <1>1, AnswerKeepsPrompts
<1>4. p.version \in Versions /\ p.cap \in Capabilities
  BY <1>3 DEF Prompt
<1> HIDE DEF p
<1>5. g \in Grant /\ g.version = p.version /\ g.cap = p.cap
  BY <1>4 DEF Grant
<1> HIDE DEF g
<1>6. /\ db' \in Database /\ db'.row = db.row /\ db'.state = db.state
      /\ db'.backups = db.backups /\ db'.grants = db.grants \cup {g}
  <2>1. db \in Database /\ db.grants \cup {g} \in SUBSET Grant
    BY <1>2, <1>5, Typed DEF DbOK
  <2>2. /\ db'.row = db.row /\ db'.state = db.state
        /\ db'.backups = db.backups /\ db'.grants = db.grants \cup {g}
    BY <1>1, <2>1, Zenon DEF Database
  <2>3. db' \in Database
    BY <1>1, <2>1, Zenon DEF Database
  <2> QED BY <2>2, <2>3
<1>7. /\ card' \in Card /\ card'.version = card.version /\ card'.build = card.build
      /\ card'.broker = IF p.build = card.build THEN card.broker \cup {p.cap} ELSE card.broker
  <2>1. card \in Card /\ card.broker \cup {p.cap} \in SUBSET Capabilities
    BY <1>2, <1>4, Typed DEF TypeOK
  <2>2. CASE p.build = card.build
    <3>1. card' = [card EXCEPT !.broker = card.broker \cup {p.cap}]
      BY <1>1, <2>2
    <3>2. card' \in Card /\ card'.version = card.version /\ card'.build = card.build
      BY <2>1, <3>1, Zenon DEF Card
    <3>3. card'.broker = card.broker \cup {p.cap}
      BY <2>1, <3>1, Zenon DEF Card
    <3> QED BY <2>2, <3>2, <3>3
  <2>3. CASE p.build # card.build
    BY <1>1, <2>1, <2>3
  <2> QED BY <2>2, <2>3
<1>8. (approved \subseteq Capabilities \cup AutoGranted)'
  BY <1>1, <1>2, <1>4 DEF TypeOK
<1>9. TypeOK'
  BY <1>1, <1>2, <1>3, <1>6, <1>7, <1>8, Typed, TypedNext DEF TypeOK, DbOK
<1>10. PromptsInv'
  BY <1>1, <1>3, <1>7
<1>11. (ChangeInv /\ BuildsInv)'
  BY <1>1, <1>7 DEF VInv, ChangeInv, BuildsInv
<1>12. GrantsAreApproved'
  BY <1>1, <1>3, <1>5, <1>6 DEF VInv, GrantsAreApproved
<1>13. BrokerHasRows'
  <2> SUFFICES ASSUME card'.version = db'.row.version, NEW c \in card'.broker
               PROVE  c \in GrantedTo(db', card'.version)
    BY DEF BrokerHasRows
  <2>1. CASE c \in card.broker
    <3>1. c \in GrantedTo(db, card.version)
      BY <1>6, <1>7, <2>1 DEF VInv, BrokerHasRows
    <3> QED BY <1>6, <1>7, <3>1 DEF GrantedTo
  <2>2. CASE p.build = card.build /\ c = p.cap
    <3>1. g \in db'.grants /\ g.version = card'.version /\ g.cap = c
      BY <1>3, <1>5, <1>6, <1>7, <2>2
    <3> QED BY <3>1 DEF GrantedTo
  <2> QED BY <1>7, <2>1, <2>2
<1> QED BY <1>9, <1>10, <1>11, <1>12, <1>13 DEF VInv

\* A step of a change that only moves its stage.
StageStep(c) ==
  /\ change' = c /\ c \in Change
  /\ UNCHANGED <<db, card, view, window, page, prompts, approved, used>>

LEMMA StageKeeps ==
  ASSUME VInv, NEW c, StageStep(c),
         c.stage \in {"preparing", "unattended", "dialog"} =>
           c.to \in Versions /\ c.to # card.version /\ used.switches < MaxSwitches,
         c.stage = "dialog" => c.from \in Versions /\ c.from # c.to
  PROVE  VInv'
<1>1. TypeOK'
  BY Typed, TypedNext DEF StageStep, VInv, TypeOK, DbOK
<1>2. ChangeInv'
  BY DEF StageStep, ChangeInv
<1>3. (PromptsInv /\ BuildsInv /\ GrantsAreApproved /\ BrokerHasRows)'
  BY DEF StageStep, VInv, PromptsInv, BuildsInv, GrantsAreApproved, BrokerHasRows, GrantedTo
<1> QED BY <1>1, <1>2, <1>3 DEF VInv

LEMMA NoChangeTyped == NoChange \in Change /\ NoChange.stage = "none"
  BY DEF NoChange, Change

LEMMA StartChangeKeeps == ASSUME VInv, NEW to \in Versions, StartChange(to) PROVE VInv'
<1> DEFINE c == [stage |-> "preparing", from |-> 0, to |-> to, rollback |-> to < card.version]
<1>1. (to < card.version) \in BOOLEAN
  BY DEF Versions
<1>2. c \in Change /\ c.stage = "preparing" /\ c.to = to
  BY <1>1, Zenon DEF Change
<1>3. StageStep(c)
  BY <1>2 DEF StartChange, StageStep
<1> HIDE DEF c
<1> QED BY <1>2, <1>3, StageKeeps DEF StartChange

LEMMA FinishPreparingKeeps == ASSUME VInv, FinishPreparing PROVE VInv'
<1> DEFINE stage == IF change.stage = "preparing" /\ page = "versions" THEN "dialog" ELSE "abandoned"
           c == [change EXCEPT !.from = db.row.version, !.stage = stage]
<1>1. /\ change.stage \in {"preparing", "unattended"} /\ db.row.version # change.to
      /\ change' = c
      /\ UNCHANGED <<db, card, view, window, page, prompts, approved, used>>
  BY DEF FinishPreparing
<1>2. change \in Change /\ db.row.version \in Versions /\ stage \in {"dialog", "abandoned"}
  BY Typed DEF VInv, TypeOK, Row
<1> HIDE DEF stage
<1>3. c \in Change /\ c.from = db.row.version /\ c.to = change.to /\ c.stage = stage
  BY <1>2, Zenon DEF Change
<1> HIDE DEF c
<1>4. StageStep(c)
  BY <1>1, <1>3 DEF StageStep
<1>5. change.to \in Versions /\ change.to # card.version /\ used.switches < MaxSwitches
  BY <1>1 DEF VInv, ChangeInv
<1> QED BY <1>1, <1>2, <1>3, <1>4, <1>5, StageKeeps

LEMMA EndOfChangeKeeps == ASSUME VInv, FailPreparing \/ GiveUpChange PROVE VInv'
<1>1. StageStep(NoChange)
  BY NoChangeTyped DEF StageStep, FailPreparing, GiveUpChange
<1> QED BY <1>1, NoChangeTyped, StageKeeps

-------------------------------------------------------------------------------
(* The switch to another version.                                             *)

LastBackup(d) == d.backups[Len(d.backups)]
Left == [version |-> db.row.version, data |-> db.state[db.row.ns]]

LEMMA AppliedFields ==
  ASSUME VInv, change.stage = "dialog", db.row.version = change.from
  PROVE  LET a == Applied(change)
         IN  /\ DbOK(a)
             /\ a.row.version = change.to /\ a.row.place = db.row.place
             /\ \A g \in a.grants : g.cap \in Declared[g.version] /\ g.cap \in approved \cup Added(change)
             /\ Compatible(change.from, change.to) =>
                  a.row.ns = db.row.ns /\ a.state = db.state /\ a.backups = db.backups
             /\ ~Compatible(change.from, change.to) =>
                  Len(a.backups) \in 1..MaxBackups /\ LastBackup(a) = Left
<1> DEFINE data == IF change.rollback /\ BackupsOf(db, change.to) # {}
                   THEN NewestOf(db, change.to) ELSE Nothing
           caps == Carried(db, change.to) \cup Added(change)
           grants == {[version |-> change.to, cap |-> cap] : cap \in caps}
           ns == used.switches + 1
           a == Applied(change)
<1>1. /\ DbOK(db) /\ change.to \in Versions /\ change.from \in Versions
      /\ used.switches < MaxSwitches /\ used.switches \in Nat
  BY Typed DEF VInv, ChangeInv
<1>2. ns \in Namespaces
  BY <1>1, BoundsAreNat DEF Namespaces
<1>3. data \in Data
  BY <1>1, NewestTyped, NothingIsData
<1>4. caps \subseteq Declared[change.to] /\ caps \subseteq approved \cup Added(change)
  BY DEF Carried, Added, VInv, GrantsAreApproved
<1>5. Declared[change.to] \subseteq Capabilities
  BY <1>1 DEF Capabilities
<1>6. grants \in SUBSET Grant
  BY <1>1, <1>4, <1>5 DEF Grant
<1>7. \A g \in grants : g.cap \in Declared[g.version] /\ g.cap \in approved \cup Added(change)
  BY <1>4
<1>8. a = Switch(db, change.to, ns, data, grants)
  BY DEF Applied
<1>9. Left \in Backup /\ db.backups \in Seq(Backup) /\ Len(db.backups) <= MaxBackups
  BY <1>1, Typed DEF Left, Backup, VInv, Row, DbOK
<1>10. /\ Len(WithBackup(db.backups, Left)) \in 1..MaxBackups
       /\ WithBackup(db.backups, Left)[Len(WithBackup(db.backups, Left))] = Left
  BY <1>9, WithBackupKeeps, Zenon
<1> HIDE DEF data, caps, grants, ns, a
<1>11. /\ DbOK(a) /\ a.row.version = change.to /\ a.row.place = db.row.place /\ a.grants = grants
       /\ Compatible(db.row.version, change.to) =>
            a.row.ns = db.row.ns /\ a.state = db.state /\ a.backups = db.backups
       /\ ~Compatible(db.row.version, change.to) =>
            a.backups = WithBackup(db.backups, Left)
  <2>1. Switched(db, change.to, ns, data, grants, a)
    BY <1>1, <1>2, <1>3, <1>6, <1>8, SwitchFields, Zenon
  <2> QED BY <2>1 DEF Switched, Left
<1> QED BY <1>7, <1>10, <1>11 DEF LastBackup, a

\* The card built from a database.
LEMMA BuiltFields ==
  ASSUME NEW d, DbOK(d), used.builds + 1 \in Builds
  PROVE  /\ Built(d) \in Card
         /\ Built(d).version = d.row.version /\ Built(d).ns = d.row.ns
         /\ Built(d).persisted = d.state[d.row.ns]
         /\ Built(d).broker = GrantedTo(d, d.row.version)
         /\ Built(d).build = used.builds + 1
<1>1. /\ d.row \in Row /\ d.grants \subseteq Grant /\ d.state \in [Namespaces -> Data]
      /\ d.row.version \in Versions /\ d.row.ns \in Namespaces /\ d.row.place \in {"main", "window"}
  BY DEF DbOK, Database, Row
<1>2. GrantedTo(d, d.row.version) \subseteq Capabilities
  BY <1>1 DEF GrantedTo, Grant
<1> QED BY <1>1, <1>2 DEF Built, Card

LEMMA ConfirmedFields ==
  ASSUME VInv, Confirmed
  PROVE  /\ change.stage = "dialog" /\ db.row.version = change.from /\ (change \in Change)'
         /\ change'.stage = "none" /\ change.to # card.version
         /\ change.to \in Versions /\ used.switches < MaxSwitches
         /\ approved' = approved \cup Added(change)
         /\ (approved \subseteq Capabilities \cup AutoGranted)'
         /\ UNCHANGED <<view, window, page, prompts>>
<1>1. /\ change.stage = "dialog" /\ db.row.version = change.from /\ change' = NoChange
      /\ approved' = approved \cup Added(change) /\ UNCHANGED <<view, window, page, prompts>>
  BY DEF Confirmed
<1>2. change.to # card.version /\ change.to \in Versions /\ used.switches < MaxSwitches
  BY <1>1 DEF VInv, ChangeInv
<1>3. Added(change) \subseteq Capabilities
  BY <1>2 DEF Added, Capabilities
<1>4. (approved \subseteq Capabilities \cup AutoGranted)'
  BY <1>1, <1>3 DEF VInv, TypeOK
<1> QED BY <1>1, <1>2, <1>4, NoChangeTyped

LEMMA ActivateKeeps == ASSUME VInv, Activate PROVE VInv'
<1>1. /\ Confirmed /\ db' = Applied(change) /\ card' = Built(db')
      /\ used' = [used EXCEPT !.switches = used.switches + 1, !.builds = used.builds + 1]
  BY DEF Activate
<1>2. /\ change.stage = "dialog" /\ db.row.version = change.from /\ (change \in Change)'
      /\ change'.stage = "none" /\ used.switches < MaxSwitches
      /\ approved' = approved \cup Added(change)
      /\ (approved \subseteq Capabilities \cup AutoGranted)'
      /\ UNCHANGED <<view, window, page, prompts>>
  BY <1>1, ConfirmedFields
<1>3. /\ DbOK(db')
      /\ \A g \in db'.grants : g.cap \in Declared[g.version] /\ g.cap \in approved'
  BY <1>1, <1>2, AppliedFields
<1>4. /\ TypeOK /\ used \in Used /\ used.builds \in Nat /\ used.switches \in Nat
      /\ used.restarts \in 0..MaxRestarts /\ card.build <= used.builds /\ card.build \in Nat
      /\ used.builds <= used.switches + used.restarts
  BY Typed, BoundsAreNat DEF VInv, BuildsInv, Builds, Used
<1>5. used.builds + 1 \in Builds /\ used.switches + 1 \in 0..MaxSwitches
  BY <1>2, <1>4, BoundsAreNat DEF Builds
<1>6. /\ used' \in Used /\ used'.switches = used.switches + 1 /\ used'.builds = used.builds + 1
      /\ used'.restarts = used.restarts
  BY <1>1, <1>4, <1>5, Zenon DEF Used
<1>7. /\ card' \in Card /\ card'.version = db'.row.version /\ card'.build = used.builds + 1
      /\ card'.broker = GrantedTo(db', db'.row.version)
  BY <1>1, <1>3, <1>5, BuiltFields
<1>8. TypeOK'
  BY <1>2, <1>3, <1>4, <1>6, <1>7, TypedNext DEF TypeOK
<1>9. PromptsInv'
  <2> SUFFICES ASSUME NEW i \in 1..Len(prompts)
               PROVE  /\ prompts[i].cap \in Declared[prompts[i].version]
                      /\ prompts[i].build <= used'.builds
                      /\ prompts[i].build # card'.build
    BY <1>2 DEF PromptsInv
  <2>1. prompts[i].cap \in Declared[prompts[i].version] /\ prompts[i].build <= used.builds
    BY DEF VInv, PromptsInv
  <2>2. prompts[i].build \in Nat
    <3>1. prompts[i] \in Prompt
      BY DEF VInv, TypeOK
    <3> QED BY <3>1, BoundsAreNat DEF Prompt, Builds
  <2> QED BY <1>4, <1>6, <1>7, <2>1, <2>2
<1>10. ChangeInv' /\ BuildsInv'
  BY <1>2, <1>4, <1>6, <1>7, BoundsAreNat DEF ChangeInv, BuildsInv, Used
<1>11. GrantsAreApproved' /\ BrokerHasRows'
  BY <1>3, <1>7 DEF GrantsAreApproved, BrokerHasRows
<1> QED BY <1>8, <1>9, <1>10, <1>11 DEF VInv

\* The old version is restored: the row, the grants and the state it had.
LEMMA RestoredFields ==
  ASSUME VInv, change.stage = "dialog", db.row.version = change.from,
         ~Unrestorable(Applied(change), change)
  PROVE  LET r == Restored(Applied(change), change)
         IN  /\ DbOK(r) /\ r.row = db.row /\ r.grants = db.grants
             /\ r.state[db.row.ns] = db.state[db.row.ns]
<1> DEFINE a == Applied(change)
           r == Restored(a, change)
           data == NewestOf(a, change.from)
<1>1. /\ DbOK(a) /\ a.row.version = change.to /\ a.row.place = db.row.place
      /\ Compatible(change.from, change.to) =>
           a.row.ns = db.row.ns /\ a.state = db.state /\ a.backups = db.backups
      /\ ~Compatible(change.from, change.to) =>
           Len(a.backups) \in 1..MaxBackups /\ LastBackup(a) = Left
  BY AppliedFields
<1>2. /\ DbOK(db) /\ db.row \in Row /\ db.row.ns \in Namespaces /\ change.from \in Versions
      /\ db.grants \in SUBSET Grant /\ db.state \in [Namespaces -> Data]
  BY Typed DEF VInv, Row
<1>3. Compatible(change.to, change.from) <=> Compatible(change.from, change.to)
  BY DEF Compatible
<1>4. r = Switch(a, change.from, db.row.ns, data, db.grants)
  BY DEF Restored
<1>5. a.row \in Row /\ a.state \in [Namespaces -> Data]
  BY <1>1 DEF DbOK, Database
<1> HIDE DEF a, r, data
<1>6. CASE Compatible(change.from, change.to)
  <2>1. r = [a EXCEPT !.row.version = change.from, !.grants = db.grants]
    BY <1>1, <1>3, <1>4, <1>6 DEF Switch
  <2>2. a \in Database /\ Len(a.backups) <= MaxBackups
    BY <1>1 DEF DbOK
  <2>3. r.row = [a.row EXCEPT !.version = change.from]
    BY <2>1, <2>2, Zenon DEF Database
  <2>4. r.state = a.state /\ r.grants = db.grants /\ r.backups = a.backups
    BY <2>1, <2>2, Zenon DEF Database
  <2>5. r.row = db.row
    BY <1>1, <1>2, <1>5, <1>6, <2>3 DEF Row
  <2>6. r \in Database
    BY <1>2, <2>1, <2>2, <2>5, Zenon DEF Database
  <2>7. DbOK(r)
    BY <2>2, <2>4, <2>6 DEF DbOK
  <2> QED BY <1>1, <1>6, <2>4, <2>5, <2>7 DEF r, a
<1>7. CASE ~Compatible(change.from, change.to)
  <2>1. Len(a.backups) > 0 /\ LastBackup(a) = Left
    BY <1>1, <1>7, BoundsAreNat
  <2>2. Left.version = change.from /\ Left.data = db.state[db.row.ns]
    BY DEF Left
  <2>3. data = db.state[db.row.ns]
    <3>1. a.backups[Len(a.backups)] = Left
      BY <2>1 DEF LastBackup
    <3>2. NewestOf(a, change.from) = a.backups[Len(a.backups)].data
      BY <1>1, <2>1, <2>2, <3>1, NewestIsLast
    <3> QED BY <2>2, <3>1, <3>2 DEF data
  <2>4. data \in Data
    BY <1>2, <2>3
  <2>5. /\ DbOK(r) /\ r.row.version = change.from /\ r.row.place = a.row.place
        /\ r.grants = db.grants
        /\ ~Compatible(a.row.version, change.from) =>
             r.row.ns = db.row.ns /\ r.state = [a.state EXCEPT ![db.row.ns] = data]
    <3>1. Switched(a, change.from, db.row.ns, data, db.grants, r)
      BY <1>1, <1>2, <1>4, <2>4, SwitchFields, Zenon
    <3> QED BY <3>1 DEF Switched
  <2>6. r.row.ns = db.row.ns /\ r.state = [a.state EXCEPT ![db.row.ns] = data]
    BY <1>1, <1>3, <1>7, <2>5
  <2>7. r.row \in Row
    BY <2>5 DEF DbOK, Database
  <2>8. r.row = db.row
    BY <1>1, <1>2, <2>5, <2>6, <2>7 DEF Row
  <2>9. r.state[db.row.ns] = db.state[db.row.ns]
    BY <1>2, <1>5, <2>3, <2>6
  <2> QED BY <2>5, <2>8, <2>9 DEF r, a
<1> QED BY <1>6, <1>7

\* How a failed activation leaves the database.
LEMMA FailedFields ==
  ASSUME VInv, FailActivation
  PROVE  /\ DbOK(db')
         /\ \/ /\ Unrestorable(Applied(change), change)
               /\ db' = Applied(change) /\ db'.row.version = change.to
            \/ /\ ~Unrestorable(Applied(change), change)
               /\ db'.row = db.row /\ db'.grants = db.grants
               /\ db'.state[db.row.ns] = db.state[db.row.ns]
         /\ \A g \in db'.grants : g.cap \in Declared[g.version] /\ g.cap \in approved'
<1>1. /\ change.stage = "dialog" /\ db.row.version = change.from
      /\ approved' = approved \cup Added(change)
  BY ConfirmedFields DEF FailActivation
<1>2. /\ DbOK(Applied(change)) /\ Applied(change).row.version = change.to
      /\ \A g \in Applied(change).grants : g.cap \in Declared[g.version] /\ g.cap \in approved'
  BY <1>1, AppliedFields
<1>3. CASE Unrestorable(Applied(change), change)
  <2>1. db' = Applied(change)
    BY <1>3 DEF FailActivation
  <2> QED BY <1>2, <1>3, <2>1
<1>4. CASE ~Unrestorable(Applied(change), change)
  <2>1. db' = Restored(Applied(change), change)
    BY <1>4 DEF FailActivation
  <2>2. /\ DbOK(db') /\ db'.row = db.row /\ db'.grants = db.grants
        /\ db'.state[db.row.ns] = db.state[db.row.ns]
    BY <1>1, <1>4, <2>1, RestoredFields
  <2>3. \A g \in db'.grants : g.cap \in Declared[g.version] /\ g.cap \in approved'
    BY <1>1, <2>2 DEF VInv, GrantsAreApproved
  <2> QED BY <1>4, <2>2, <2>3
<1> QED BY <1>3, <1>4

LEMMA FailActivationKeeps == ASSUME VInv, FailActivation PROVE VInv'
<1>1. /\ change.stage = "dialog" /\ (change \in Change)'
      /\ change'.stage = "none" /\ used.switches < MaxSwitches /\ change.to # card.version
      /\ (approved \subseteq Capabilities \cup AutoGranted)'
      /\ UNCHANGED <<view, window, page, prompts>>
  BY ConfirmedFields DEF FailActivation
<1>2. card' = card /\ used' = [used EXCEPT !.switches = used.switches + 1]
  BY DEF FailActivation
<1>3. /\ DbOK(db')
      /\ db'.row.version = change.to \/ (db'.row = db.row /\ db'.grants = db.grants)
      /\ \A g \in db'.grants : g.cap \in Declared[g.version] /\ g.cap \in approved'
  BY FailedFields, Zenon
<1>4. /\ TypeOK /\ used \in Used /\ used.builds \in Nat /\ used.switches \in Nat
      /\ used.restarts \in Nat
  BY Typed DEF VInv
<1>5. used.switches + 1 \in 0..MaxSwitches
  BY <1>1, <1>4, BoundsAreNat
<1>6. /\ used' \in Used /\ used'.switches = used.switches + 1 /\ used'.builds = used.builds
      /\ used'.restarts = used.restarts
  BY <1>2, <1>4, <1>5, Zenon DEF Used
<1>7. TypeOK'
  BY <1>1, <1>2, <1>3, <1>4, <1>6, TypedNext DEF TypeOK
<1>8. PromptsInv' /\ ChangeInv'
  BY <1>1, <1>2, <1>6 DEF VInv, PromptsInv, ChangeInv
<1>9. BuildsInv'
  BY <1>2, <1>4, <1>6 DEF VInv, BuildsInv
<1>10. GrantsAreApproved'
  BY <1>3 DEF GrantsAreApproved
<1>11. BrokerHasRows'
  BY <1>1, <1>2, <1>3 DEF VInv, BrokerHasRows, GrantedTo
<1> QED BY <1>7, <1>8, <1>9, <1>10, <1>11 DEF VInv

LEMMA RestartKeeps ==
  ASSUME VInv, Restart
  PROVE  VInv' /\ card' = Built(db) /\ used.builds + 1 \in Builds
<1>1. /\ used.restarts < MaxRestarts
      /\ used' = [used EXCEPT !.restarts = used.restarts + 1, !.builds = used.builds + 1]
      /\ card' = Built(db) /\ page' = "workspace" /\ change' = NoChange /\ prompts' = <<>>
      /\ IF db.row.place = "main"
         THEN view' = ViewOf(card') /\ window' = NoWindow
         ELSE /\ view' = NoView
              /\ window' = [phase |-> "open", version |-> db.row.version,
                            data |-> db.state[db.row.ns], sent |-> <<>>]
      /\ UNCHANGED <<db, approved>>
  BY DEF Restart
<1>2. /\ TypeOK /\ used \in Used /\ used.builds \in Nat /\ used.switches \in 0..MaxSwitches
      /\ used.restarts \in Nat /\ used.builds <= used.switches + used.restarts
      /\ DbOK(db) /\ db.row.version \in Versions /\ db.state[db.row.ns] \in Data
  BY Typed DEF VInv, BuildsInv, Used, Row
<1>3. used.builds + 1 \in Builds /\ used.restarts + 1 \in 0..MaxRestarts
  <2>1. used.restarts < MaxRestarts
    BY <1>1
  <2>2. used.builds + 1 \in 0..(MaxSwitches + MaxRestarts) /\ used.restarts + 1 \in 0..MaxRestarts
    BY <1>2, <2>1, BoundsAreNat
  <2> QED BY <2>2 DEF Builds
<1>4. /\ used' \in Used /\ used'.restarts = used.restarts + 1 /\ used'.builds = used.builds + 1
      /\ used'.switches = used.switches
  BY <1>1, <1>2, <1>3, Zenon DEF Used
<1>5. /\ card' \in Card /\ card'.version = db.row.version /\ card'.build = used.builds + 1
      /\ card'.broker = GrantedTo(db, db.row.version)
  BY <1>1, <1>2, <1>3, BuiltFields
<1>6. card'.persisted \in Data
  BY <1>5 DEF Card
<1>7. view' \in View
  <2>1. view' = ViewOf(card') \/ view' = NoView
    BY <1>1
  <2>2. ViewOf(card') \in View /\ NoView \in View
    BY <1>6, NothingIsData DEF View, ViewOf, NoView
  <2> QED BY <2>1, <2>2
<1>8. window' \in Window /\ Len(window'.sent) <= MaxQueued
  <2>1. \/ window' = NoWindow
        \/ window' = [phase |-> "open", version |-> db.row.version,
                      data |-> db.state[db.row.ns], sent |-> <<>>]
    BY <1>1
  <2>2. NoWindow \in Window /\ Len(NoWindow.sent) <= MaxQueued
    BY NothingIsData, BoundsAreNat DEF Window, NoWindow
  <2>3. CASE window' = [phase |-> "open", version |-> db.row.version,
                        data |-> db.state[db.row.ns], sent |-> <<>>]
    BY <1>2, <2>3, BoundsAreNat DEF Window
  <2> QED BY <2>1, <2>2, <2>3
<1>9. (prompts \in Seq(Prompt) /\ Len(prompts) <= MaxPrompts)'
  BY <1>1, BoundsAreNat
<1>10. TypeOK'
  BY <1>1, <1>2, <1>4, <1>5, <1>7, <1>8, <1>9, NoChangeTyped, TypedNext DEF TypeOK, DbOK
<1>11. PromptsInv' /\ ChangeInv'
  BY <1>1, NoChangeTyped DEF PromptsInv, ChangeInv
<1>12. BuildsInv'
  BY <1>2, <1>4, <1>5 DEF BuildsInv
<1>13. GrantsAreApproved' /\ BrokerHasRows'
  BY <1>1, <1>5 DEF VInv, GrantsAreApproved, BrokerHasRows, GrantedTo
<1> QED BY <1>1, <1>3, <1>10, <1>11, <1>12, <1>13 DEF VInv

-------------------------------------------------------------------------------
(* The theorems.                                                              *)

LEMMA NextKeeps == VInv /\ [Next]_vars => VInv'
<1> SUFFICES ASSUME VInv, [Next]_vars PROVE VInv'
  OBVIOUS
<1>1. CASE QuietStep
  BY <1>1, QuietSteps, QuietKeeps DEF VInv
<1>2. CASE \E cap \in Capabilities : AskPermission(cap)
  BY <1>2, AskKeeps
<1>3. CASE Approve \/ Deny
  BY <1>3, ApproveKeeps, DenyKeeps
<1>4. CASE ReturnToWorkspace
  BY <1>4, ReturnKeeps
<1>5. CASE \E to \in Versions : StartChange(to)
  BY <1>5, StartChangeKeeps
<1>6. CASE FinishPreparing \/ FailPreparing \/ GiveUpChange
  BY <1>6, FinishPreparingKeeps, EndOfChangeKeeps
<1>7. CASE Activate \/ FailActivation
  BY <1>7, ActivateKeeps, FailActivationKeeps
<1>8. CASE Restart
  BY <1>8, RestartKeeps
<1>9. CASE UNCHANGED vars
  BY <1>9 DEF vars, VInv, TypeOK, ChangeInv, PromptsInv, BuildsInv, GrantsAreApproved,
              BrokerHasRows, GrantedTo
<1> QED BY <1>1, <1>2, <1>3, <1>4, <1>5, <1>6, <1>7, <1>8, <1>9 DEF Next, QuietStep

LEMMA VInvHolds == Spec => []VInv
<1>1. Init => VInv
  BY VInvHoldsInitially
<1>2. VInv /\ [Next]_vars => VInv'
  BY NextKeeps
<1> QED BY <1>1, <1>2, PTL DEF Spec

\* Types: every row, backup, grant, prompt and message is of a version and a
\* capability there is, and no more backups are kept than MaxBackups.
THEOREM CardVersionsTyped == Spec => []TypeOK
<1>1. VInv => TypeOK
  BY DEF VInv
<1> QED BY <1>1, VInvHolds, PTL

\* However versions are changed, a grant in the database was given by the user
\* or the installation, and its version declares it (switchInstalledInstanceVersion).
THEOREM GrantsStayApproved == Spec => []GrantsAreApproved
<1>1. VInv => GrantsAreApproved
  BY DEF VInv
<1> QED BY <1>1, VInvHolds, PTL

\* While the row and the card agree on the version, the broker uses no grant that
\* the database does not hold, although prompts are answered after the card they
\* came from was replaced.
THEOREM BrokerUsesRows == Spec => []BrokerHasRows
<1>1. VInv => BrokerHasRows
  BY DEF VInv
<1> QED BY <1>1, VInvHolds, PTL

\* A change that ends has switched the row and the card together, or neither
\* (applyAndActivate and _restoreAfterActivationFailure).
LEMMA ChangeIsWhole ==
  ASSUME VInv, Next, change.stage = "dialog", change'.stage = "none", ~ForeignGrants(db)
  PROVE  \/ /\ card'.build # card.build
            /\ card'.version = db'.row.version /\ card'.ns = db'.row.ns
            /\ card'.persisted = db'.state[db'.row.ns]
         \/ /\ UNCHANGED <<card, view, window>>
            /\ db'.row = db.row /\ db'.grants = db.grants
            /\ db'.state[db.row.ns] = db.state[db.row.ns]
<1>1. /\ card.build <= used.builds /\ card.build \in Nat /\ used.builds \in Nat /\ DbOK(db)
      /\ used.switches \in Nat /\ used.restarts \in 0..MaxRestarts
      /\ used.builds <= used.switches + used.restarts
  BY Typed, BoundsAreNat DEF VInv, BuildsInv, Builds, Used
<1>2. CASE GiveUpChange
  BY <1>2 DEF GiveUpChange
<1>3. CASE Activate
  <2>1. used.switches < MaxSwitches /\ db.row.version = change.from
    BY <1>3, ConfirmedFields DEF Activate
  <2>2. used.builds + 1 \in Builds
    BY <1>1, <2>1, BoundsAreNat DEF Builds
  <2>3. DbOK(db') /\ card' = Built(db')
    BY <1>3, <2>1, AppliedFields DEF Activate
  <2> QED BY <1>1, <2>2, <2>3, BuiltFields
<1>4. CASE FailActivation
  <2>1. db.row.version = change.from /\ change.from \in Versions /\ UNCHANGED <<card, view, window>>
    BY <1>4, ConfirmedFields DEF FailActivation, VInv, ChangeInv
  <2>2. ~Unrestorable(Applied(change), change)
    <3>1. CASE Compatible(change.from, change.to)
      BY <3>1 DEF Unrestorable
    <3>2. CASE ~Compatible(change.from, change.to)
      <4>1. /\ DbOK(Applied(change)) /\ Len(Applied(change).backups) \in 1..MaxBackups
            /\ LastBackup(Applied(change)) = Left
        BY <2>1, <3>2, AppliedFields
      <4>2. Len(Applied(change).backups) > 0
        BY <4>1, BoundsAreNat
      <4>3. Applied(change).backups[Len(Applied(change).backups)].version = change.from
        BY <2>1, <4>1 DEF LastBackup, Left
      <4>4. BackupsOf(Applied(change), change.from) # {}
        BY <4>1, <4>2, <4>3, NewestIsLast
      <4> QED BY <4>4 DEF Unrestorable
    <3> QED BY <3>1, <3>2
  <2> QED BY <1>4, <2>1, <2>2, FailedFields
<1>5. CASE Restart
  <2>1. card' = Built(db) /\ used.builds + 1 \in Builds /\ db' = db
    BY <1>5, RestartKeeps DEF Restart
  <2> QED BY <1>1, <2>1, BuiltFields
<1>6. CASE QuietStep
  BY <1>6, QuietSteps DEF VInv, Quiet
<1>7. CASE ~(QuietStep \/ GiveUpChange \/ Activate \/ FailActivation \/ Restart)
  BY <1>7 DEF Next, QuietStep, AskPermission, Approve, Deny, ReturnToWorkspace, StartChange,
              FinishPreparing, FailPreparing
<1> QED BY <1>2, <1>3, <1>4, <1>5, <1>6, <1>7

\* The dialog of a change ends with the new version everywhere, or with the old
\* one as it was, unless the database holds a grant of another version by then.
THEOREM ChangesAreWhole == Spec => NoHalfSwitch
<1>1. VInv /\ [Next]_vars =>
        [change.stage = "dialog" /\ change'.stage = "none" /\ ~ForeignGrants(db) =>
           \/ /\ card'.build # card.build
              /\ card'.version = db'.row.version /\ card'.ns = db'.row.ns
              /\ card'.persisted = db'.state[db'.row.ns]
           \/ /\ UNCHANGED <<card, view, window>>
              /\ db'.row = db.row /\ db'.grants = db.grants
              /\ db'.state[db.row.ns] = db.state[db.row.ns]]_vars
  BY ChangeIsWhole
<1> QED BY <1>1, VInvHolds, PTL DEF Spec, NoHalfSwitch

\* When an instance leaves its namespace, what it leaves is in a backup
\* (switchInstalledInstanceVersion).
LEMMA LeavingBacksUp ==
  ASSUME VInv, Next, db'.row.ns # db.row.ns
  PROVE  \E i \in 1..Len(db'.backups) : db'.backups[i] = Left
<1>1. CASE Activate \/ FailActivation
  <2>1. change.stage = "dialog" /\ db.row.version = change.from
    BY <1>1, ConfirmedFields DEF Activate, FailActivation
  <2>2. db' = Applied(change)
    BY <1>1, FailedFields DEF Activate
  <2>3. Len(db'.backups) \in 1..MaxBackups /\ LastBackup(db') = Left
    BY <2>1, <2>2, AppliedFields
  <2>4. Len(db'.backups) \in 1..Len(db'.backups)
    BY <2>3, BoundsAreNat
  <2> QED BY <2>3, <2>4 DEF LastBackup
<1>2. CASE QuietStep
  BY <1>2, QuietSteps DEF VInv, Quiet
<1>3. CASE Approve
  <2>1. db' = [db EXCEPT !.grants = db.grants \cup {[version |-> Head(prompts).version,
                                                     cap |-> Head(prompts).cap]}]
    BY <1>3 DEF Approve
  <2>2. db \in Database
    BY DEF VInv, TypeOK
  <2>3. db'.row = db.row
    BY <2>1, <2>2, Zenon DEF Database
  <2> QED BY <2>3
<1>4. CASE ~(QuietStep \/ Approve \/ Activate \/ FailActivation)
  BY <1>4 DEF Next, QuietStep, AskPermission, Deny, ReturnToWorkspace, StartChange,
              FinishPreparing, FailPreparing, GiveUpChange, Restart
<1> QED BY <1>1, <1>2, <1>3, <1>4

THEOREM LeftStatesAreBackedUp == Spec => LeftStateIsBackedUp
<1>1. VInv /\ [Next]_vars =>
        [db'.row.ns # db.row.ns =>
           \E i \in 1..Len(db'.backups) :
              db'.backups[i] = [version |-> db.row.version, data |-> db.state[db.row.ns]]]_vars
  BY LeavingBacksUp DEF Left
<1> QED BY <1>1, VInvHolds, PTL DEF Spec, LeftStateIsBackedUp

===============================================================================
