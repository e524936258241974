----------------------------- MODULE CardVersions -----------------------------
(***************************************************************************)
(* One installed native card on the desktop: its row, state, backups and   *)
(* grants in the database; the card the WorkspaceController holds; its     *)
(* view in the main window or its detached window; the version change that *)
(* CardCatalogController and CardVersionLifecycle carry out; the queue of  *)
(* permission prompts; and restarts of the application.                    *)
(*                                                                         *)
(* The desktop is one event loop: an action is what runs between two       *)
(* awaits.  Card state is told apart by its last edit and the version that *)
(* made it.                                                                *)
(*                                                                         *)
(* Next to some definitions stands a variant with a plausible slip.  No    *)
(* specification uses it; put in place of the definition, it breaks the    *)
(* property that guards against the slip.                                  *)
(***************************************************************************)
EXTENDS Integers, Sequences, FiniteSets

CONSTANTS LatestVersion,  \* display versions of the card: 1..LatestVersion
          SchemaOf,       \* stateSchemaVersion of each version
          Declared,       \* capabilities each version's manifest declares
          AutoGranted,    \* granted at installation: storage, window.manageSelf
          MaxBackups,     \* backups kept for a card, 10 in the code
          MaxEdits, MaxSwitches, MaxPrompts, MaxQueued, MaxRestarts  \* bounds

Versions == 1..LatestVersion

ASSUME CardVersionsAssumption ==
    /\ LatestVersion \in Nat \ {0}
    /\ SchemaOf \in [Versions -> Nat]
    /\ DOMAIN Declared = Versions
    /\ MaxBackups \in Nat \ {0}
    /\ {MaxEdits, MaxSwitches, MaxPrompts, MaxQueued, MaxRestarts} \subseteq Nat

VARIABLES db,        \* the SQLite database: row, state, backups, grants
          card,      \* the card in the WorkspaceController
          view,      \* the card's view in the main window
          window,    \* the card's detached window
          page,      \* which page the main window shows
          change,    \* the version change in progress
          prompts,   \* PermissionRequestController: the queue, current first
          approved,  \* history: capabilities the user, or installation, granted
          used       \* bounds: edits, switches, builds, restarts so far

vars == <<db, card, view, window, page, change, prompts, approved, used>>

Capabilities == UNION {Declared[v] : v \in Versions}
Namespaces   == 0..MaxSwitches
Data         == [edit : 0..MaxEdits, by : {0} \cup Versions]
Nothing      == [edit |-> 0, by |-> 0]

Compatible(v, w) == SchemaOf[v] = SchemaOf[w]

\* Grants of d for version v, as the broker of a card of that version uses them.
GrantedTo(d, v) == {g.cap : g \in {h \in d.grants : h.version = v}}

BuiltKeepingBroker(d) ==
    [version   |-> d.row.version, ns |-> d.row.ns, place |-> d.row.place,
     persisted |-> d.state[d.row.ns], broker |-> card.broker, build |-> used.builds + 1]

\* InstalledWorkspaceCardFactory.create: the card built from the row and its state.
Built(d) == [version   |-> d.row.version, ns |-> d.row.ns, place |-> d.row.place,
             persisted |-> d.state[d.row.ns],
             broker    |-> GrantedTo(d, d.row.version),
             build     |-> used.builds + 1]

NoView   == [on |-> FALSE, data |-> Nothing, dirty |-> FALSE]
NoWindow == [phase |-> "closed", version |-> 0, data |-> Nothing, sent |-> <<>>]
NoChange == [stage |-> "none", from |-> 0, to |-> 0, rollback |-> FALSE]

\* A view starts from the state the card was built or last updated with.
ViewOf(c) == [on |-> TRUE, data |-> c.persisted, dirty |-> FALSE]

Init ==
    \E v \in Versions :
      /\ db = [row     |-> [version |-> v, ns |-> 0, place |-> "main"],
               state   |-> [n \in Namespaces |-> Nothing],
               backups |-> <<>>,
               grants  |-> {[version |-> v, cap |-> c] : c \in AutoGranted \cap Declared[v]}]
      /\ card = [version |-> v, ns |-> 0, place |-> "main", persisted |-> Nothing,
                 broker |-> AutoGranted \cap Declared[v], build |-> 0]
      /\ view = ViewOf(card)
      /\ window = NoWindow
      /\ page = "workspace"
      /\ change = NoChange
      /\ prompts = <<>>
      /\ approved = AutoGranted
      /\ used = [edits |-> 0, switches |-> 0, builds |-> 0, restarts |-> 0]

-----------------------------------------------------------------------------
(* State edits and how they reach the database. *)

NextEdit(v) == [edit |-> used.edits + 1, by |-> v]

Edited == used.edits < MaxEdits /\ used' = [used EXCEPT !.edits = @ + 1]

\* An action of the card: a gesture, a timer or a capability's answer.
EditInView ==
    /\ view.on
    /\ Edited
    /\ view' = [view EXCEPT !.data = NextEdit(card.version), !.dirty = TRUE]
    /\ UNCHANGED <<db, card, window, page, change, prompts, approved>>

\* NativeCardStatePersistence.flush: only the database learns of the state.
Flushed == IF view.dirty THEN [db EXCEPT !.state[card.ns] = view.data] ELSE db

\* The debounce timer fires.
Flush ==
    /\ view.dirty
    /\ db' = Flushed
    /\ view' = [view EXCEPT !.dirty = FALSE]
    /\ UNCHANGED <<card, window, page, change, prompts, approved, used>>

EditInWindow ==
    /\ window.phase \in {"shown", "open"}
    /\ Len(window.sent) < MaxQueued
    /\ Edited
    /\ window' = [window EXCEPT !.data = NextEdit(window.version),
                                !.sent = Append(@, NextEdit(window.version))]
    /\ UNCHANGED <<db, card, view, page, change, prompts, approved>>

\* stateChanged arrives: the instance, and so the namespace, is looked up now.
Deliver ==
    /\ window.sent # <<>>
    /\ db' = [db EXCEPT !.state[db.row.ns] = Head(window.sent)]
    /\ card' = [card EXCEPT !.persisted = Head(window.sent)]
    /\ window' = [window EXCEPT !.sent = Tail(@)]
    /\ UNCHANGED <<view, page, change, prompts, approved, used>>

-----------------------------------------------------------------------------
(* Moving the card between the main window and a window of its own. *)

\* detach: the snapshot for the new window is read before the window exists.
StartDetach ==
    /\ view.on
    /\ window = NoWindow
    /\ window' = [phase |-> "opening", version |-> card.version,
                  data |-> db.state[card.ns], sent |-> <<>>]
    /\ UNCHANGED <<db, card, view, page, change, prompts, approved, used>>

\* The window exists and its messages are accepted; the card has not moved yet.
ShowWindow ==
    /\ window.phase = "opening"
    /\ window' = [window EXCEPT !.phase = "shown"]
    /\ UNCHANGED <<db, card, view, page, change, prompts, approved, used>>

\* The move leaves the main window's view without a card: it is disposed of.
MoveToWindow ==
    /\ window.phase = "shown"
    /\ db' = [Flushed EXCEPT !.row.place = "window"]
    /\ card' = [card EXCEPT !.place = "window"]
    /\ view' = NoView
    /\ window' = [window EXCEPT !.phase = "open"]
    /\ UNCHANGED <<page, change, prompts, approved, used>>

MoveToMain ==
    /\ db' = [db EXCEPT !.row.place = "main"]
    /\ card' = [card EXCEPT !.place = "main"]
    /\ view' = IF page = "workspace" THEN ViewOf(card) ELSE NoView
    /\ window' = NoWindow
    /\ UNCHANGED <<page, change, prompts, approved, used>>

\* windowCloseRequested: the binding of the window is released with the move,
\* and messages still under way are refused.
CloseWindow == window.phase = "open" /\ MoveToMain

\* dock, asked for by the card: first the window is closed, then the card moved.
StartDock ==
    /\ window.phase = "open"
    /\ window' = [NoWindow EXCEPT !.phase = "docking"]
    /\ UNCHANGED <<db, card, view, page, change, prompts, approved, used>>

EndDock == window.phase = "docking" /\ MoveToMain

-----------------------------------------------------------------------------
(* Permission prompts. *)

\* CapabilityBroker.invoke without a matching grant.  A window's request is
\* answered by the broker of the card in the controller, whatever version the
\* window shows.
AskPermission(cap) ==
    /\ view.on \/ window.phase \in {"shown", "open"}
    /\ cap \in Declared[card.version] \ (card.broker \cup AutoGranted)
    /\ Len(prompts) < MaxPrompts
    /\ prompts' = Append(prompts, [version |-> card.version, cap |-> cap, build |-> card.build])
    /\ UNCHANGED <<db, card, view, window, page, change, approved, used>>

\* The prompt covers the pages; the dialog of a version change covers the prompt.
Answerable == prompts # <<>> /\ change.stage # "dialog"

\* The answer goes to the broker that asked; the row names the version that did.
Approve ==
    LET p == Head(prompts)
    IN  /\ Answerable
        /\ db' = [db EXCEPT !.grants = @ \cup {[version |-> p.version, cap |-> p.cap]}]
        /\ card' = IF p.build = card.build THEN [card EXCEPT !.broker = @ \cup {p.cap}] ELSE card
        /\ approved' = approved \cup {p.cap}
        /\ prompts' = Tail(prompts)
        /\ UNCHANGED <<view, window, page, change, used>>

Deny ==
    /\ Answerable
    /\ prompts' = Tail(prompts)
    /\ UNCHANGED <<db, card, view, window, page, change, approved, used>>

-----------------------------------------------------------------------------
(* The pages of the main window. *)

PagesReachable == prompts = <<>> /\ change.stage # "dialog"

\* Leaving the workspace disposes of the view.
LeaveWorkspace ==
    /\ PagesReachable
    /\ page = "workspace"
    /\ page' = "versions"
    /\ db' = Flushed
    /\ view' = NoView
    /\ UNCHANGED <<card, window, change, prompts, approved, used>>

\* The view comes back from the card as it was built or last updated.  A
\* preparation under way has lost its page for good.
ReturnToWorkspace ==
    /\ PagesReachable
    /\ page = "versions"
    /\ page' = "workspace"
    /\ view' = IF card.place = "main" THEN ViewOf(card) ELSE NoView
    /\ change' = IF change.stage = "preparing" THEN [change EXCEPT !.stage = "unattended"] ELSE change
    /\ UNCHANGED <<db, card, window, prompts, approved, used>>

-----------------------------------------------------------------------------
(* The transaction switchInstalledInstanceVersion. *)

CarriedWithoutTarget(d, to) == {g.cap : g \in d.grants}

\* Capabilities granted under whatever version, as far as the target declares them.
Carried(d, to) == {g.cap : g \in d.grants} \cap Declared[to]

Added(c) == Declared[c.to] \ Declared[c.from]

\* Where the backups of version v are, and what is in its newest one.
BackupsOf(d, v) == {i \in 1..Len(d.backups) : d.backups[i].version = v}

NewestOf(d, v) ==
    d.backups[CHOOSE i \in BackupsOf(d, v) : \A j \in BackupsOf(d, v) : j <= i].data

WithBackupUnpruned(backups, b) == Append(backups, b)

\* Insert a backup; of those of the card the newest MaxBackups stay.
WithBackup(backups, b) ==
    LET all == Append(backups, b)
    IN  IF Len(all) > MaxBackups THEN Tail(all) ELSE all

SwitchWithoutBackup(d, to, ns, data, grants) ==
    IF Compatible(d.row.version, to)
    THEN [d EXCEPT !.row.version = to, !.grants = grants]
    ELSE [d EXCEPT !.row.version = to, !.row.ns = ns, !.state[ns] = data, !.grants = grants]

\* Compatible versions share the state.  Otherwise it is backed up, and the
\* instance gets the namespace ns with the given data.
Switch(d, to, ns, data, grants) ==
    IF Compatible(d.row.version, to)
    THEN [d EXCEPT !.row.version = to, !.grants = grants]
    ELSE [d EXCEPT !.row.version = to, !.row.ns = ns, !.state[ns] = data, !.grants = grants,
                   !.backups = WithBackup(@, [version |-> d.row.version,
                                              data |-> d.state[d.row.ns]])]

\* apply: an upgrade resets an incompatible state, a rollback restores the
\* newest backup of the target, if there is one.
Applied(c) ==
    LET data == IF c.rollback /\ BackupsOf(db, c.to) # {} THEN NewestOf(db, c.to) ELSE Nothing
    IN  Switch(db, c.to, used.switches + 1, data,
               {[version |-> c.to, cap |-> cap] : cap \in Carried(db, c.to) \cup Added(c)})

ForeignGrants(d) == \E g \in d.grants : g.version # d.row.version

\* The old version cannot be restored without a backup, if it needs one, and the
\* transaction is rolled back over a grant of another version.
Unrestorable(switched, c) ==
    \/ ForeignGrants(db)
    \/ ~Compatible(c.from, c.to) /\ BackupsOf(switched, c.from) = {}

RestoredWithoutGrants(switched, c) ==
    Switch(switched, c.from, db.row.ns, NewestOf(switched, c.from), {})

\* _restoreAfterActivationFailure: a second switch, back to the old version,
\* its namespace, its newest backup and its grants.
Restored(switched, c) ==
    Switch(switched, c.from, db.row.ns, NewestOf(switched, c.from), db.grants)

-----------------------------------------------------------------------------
(* A version change. *)

\* The button of a version.  It names an upgrade or a rollback by the version
\* of the card in the controller.
StartChange(to) ==
    /\ PagesReachable
    /\ page = "versions"
    /\ change.stage = "none"
    /\ used.switches < MaxSwitches
    /\ to # card.version
    /\ change' = [stage |-> "preparing", from |-> 0, to |-> to, rollback |-> to < card.version]
    /\ UNCHANGED <<db, card, view, window, page, prompts, approved, used>>

\* The artifact is downloaded and registered, and prepare compares it with the
\* row.  Without its page nobody shows the dialog, and nobody ends the change.
FinishPreparing ==
    /\ change.stage \in {"preparing", "unattended"}
    /\ db.row.version # change.to
    /\ change' = [change EXCEPT !.from  = db.row.version,
                                !.stage = IF @ = "preparing" /\ page = "versions"
                                          THEN "dialog" ELSE "abandoned"]
    /\ UNCHANGED <<db, card, view, window, page, prompts, approved, used>>

\* A failed download, or VERSION_ALREADY_ACTIVE.
FailPreparing ==
    /\ change.stage \in {"preparing", "unattended"}
    /\ change' = NoChange
    /\ UNCHANGED <<db, card, view, window, page, prompts, approved, used>>

\* The user cancels, or confirms a change that is refused before it touches
\* anything: the snapshot is too large for a backup.
GiveUpChange ==
    /\ change.stage = "dialog"
    /\ change' = NoChange
    /\ UNCHANGED <<db, card, view, window, page, prompts, approved, used>>

\* applyAndActivate, after the dialog; the row is still as it was prepared.
Confirmed ==
    /\ change.stage = "dialog"
    /\ db.row.version = change.from
    /\ change' = NoChange
    /\ approved' = approved \cup Added(change)
    /\ UNCHANGED <<view, window, page, prompts>>

\* The card is built and replaces the one in the controller.
Activate ==
    /\ Confirmed
    /\ db' = Applied(change)
    /\ card' = Built(db')
    /\ used' = [used EXCEPT !.switches = @ + 1, !.builds = @ + 1]

\* The card cannot be built: the old version is restored, if that is possible.
FailActivation ==
    /\ Confirmed
    /\ LET switched == Applied(change)
       IN  db' = IF Unrestorable(switched, change) THEN switched ELSE Restored(switched, change)
    /\ UNCHANGED card
    /\ used' = [used EXCEPT !.switches = @ + 1]

\* The application ends, by whatever cause, and starts again from the database.
Restart ==
    /\ used.restarts < MaxRestarts
    /\ used' = [used EXCEPT !.restarts = @ + 1, !.builds = @ + 1]
    /\ card' = Built(db)
    /\ page' = "workspace"
    /\ change' = NoChange
    /\ prompts' = <<>>
    /\ IF db.row.place = "main"
       THEN view' = ViewOf(card') /\ window' = NoWindow
       ELSE /\ view' = NoView
            /\ window' = [phase |-> "open", version |-> db.row.version,
                          data |-> db.state[db.row.ns], sent |-> <<>>]
    /\ UNCHANGED <<db, approved>>

-----------------------------------------------------------------------------
Next ==
    \/ EditInView \/ Flush \/ EditInWindow \/ Deliver
    \/ StartDetach \/ ShowWindow \/ MoveToWindow \/ CloseWindow \/ StartDock \/ EndDock
    \/ \E cap \in Capabilities : AskPermission(cap)
    \/ Approve \/ Deny
    \/ LeaveWorkspace \/ ReturnToWorkspace
    \/ \E to \in Versions : StartChange(to)
    \/ FinishPreparing \/ FailPreparing \/ GiveUpChange \/ Activate \/ FailActivation
    \/ Restart

Spec == Init /\ [][Next]_vars

-----------------------------------------------------------------------------
Row      == [version : Versions, ns : Namespaces, place : {"main", "window"}]
Backup   == [version : Versions, data : Data]
Grant    == [version : Versions, cap : Capabilities]
Database == [row : Row, state : [Namespaces -> Data], backups : Seq(Backup), grants : SUBSET Grant]

Builds == 0..(MaxSwitches + MaxRestarts)
Card   == [version : Versions, ns : Namespaces, place : {"main", "window"}, persisted : Data,
           broker : SUBSET Capabilities, build : Builds]
View   == [on : BOOLEAN, data : Data, dirty : BOOLEAN]
Window == [phase : {"closed", "opening", "shown", "open", "docking"},
           version : {0} \cup Versions, data : Data, sent : Seq(Data)]
Change == [stage : {"none", "preparing", "unattended", "dialog", "abandoned"},
           from : {0} \cup Versions, to : {0} \cup Versions, rollback : BOOLEAN]
Prompt == [version : Versions, cap : Capabilities, build : Builds]

TypeOK ==
    /\ db \in Database /\ Len(db.backups) <= MaxBackups
    /\ card \in Card
    /\ view \in View
    /\ window \in Window /\ Len(window.sent) <= MaxQueued
    /\ page \in {"workspace", "versions"}
    /\ change \in Change
    /\ prompts \in Seq(Prompt) /\ Len(prompts) <= MaxPrompts
    /\ approved \subseteq Capabilities \cup AutoGranted
    /\ used \in [edits : 0..MaxEdits, switches : 0..MaxSwitches, builds : Builds,
                 restarts : 0..MaxRestarts]

\* Whatever was switched back and forth, a grant is for a capability that its
\* version declares and that the user, or the installation, said yes to:
\* carrying grants over adds neither.
GrantsAreApproved ==
    \A g \in db.grants : g.cap \in Declared[g.version] /\ g.cap \in approved

\* While the row and the card agree on the version, the card's broker uses no
\* grant that the database does not hold, however late a prompt is answered.
BrokerHasRows ==
    card.version = db.row.version => card.broker \subseteq GrantedTo(db, card.version)

\* The dialog of a change ends with the new version in the row and in the
\* controller, or with the old card, its row, its state and its grants as they
\* were.  The one exception is a grant of another version, see RowIsRunning.
NoHalfSwitch ==
    [][change.stage = "dialog" /\ change'.stage = "none" /\ ~ForeignGrants(db) =>
         \/ /\ card'.build # card.build
            /\ card'.version = db'.row.version /\ card'.ns = db'.row.ns
            /\ card'.persisted = db'.state[db'.row.ns]
         \/ /\ UNCHANGED <<card, view, window>>
            /\ db'.row = db.row /\ db'.grants = db.grants
            /\ db'.state[db.row.ns] = db.state[db.row.ns]]_vars

\* An instance never leaves a state behind that is not in its newest backups.
LeftStateIsBackedUp ==
    [][db'.row.ns # db.row.ns =>
         \E i \in 1..Len(db'.backups) :
            db'.backups[i] = [version |-> db.row.version, data |-> db.state[db.row.ns]]]_vars

-----------------------------------------------------------------------------
(* What the repository's documents say, and a run refutes. *)

\* "the old version keeps working": the row names the version that runs.
RowIsRunning == db.row.version = card.version

\* "no state is lost between surfaces": what the card shows is never older than
\* what the database has stored for it.
ShownIsNotOlder ==
    /\ view.on => view.data.edit >= db.state[card.ns].edit
    /\ window.phase = "open" => window.data.edit >= db.state[db.row.ns].edit

\* "state is reused only for the same stateSchemaVersion".
StateFitsSchema ==
    LET data == db.state[db.row.ns]
    IN  data # Nothing => Compatible(data.by, db.row.version)

=============================================================================
