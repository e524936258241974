----------------------------- MODULE AgentStudio -----------------------------
(***************************************************************************)
(* AgentStudioController on the desktop with the generation API it calls:  *)
(* submit, confirm and cancel as calls whose answers come later, the       *)
(* followers that _follow leaves running, and startFromVersion, which      *)
(* resets the controller while calls and followers are under way.          *)
(*                                                                         *)
(* The desktop is one event loop: an action is what runs between two       *)
(* awaits.  A session generates one version, which the session stands      *)
(* for.  _lastEventId is the id of the last shown event, or 0: the code    *)
(* sets and clears the two together.                                       *)
(***************************************************************************)
EXTENDS EventStream, FiniteSetsExt

CONSTANTS MaxFailures,   \* failures in a row that end a follower, 3 in the code
          MaxSessions,   \* bound: sessions the user can start; they are numbered
          Calls,         \* calls that can be under way at once
          MaxMessages,   \* bound: events of a session that still collects messages
          MaxEvents,     \* bound: events of all sessions when a worker goes on
          MaxResets,     \* bound: startFromVersion
          MaxErrors      \* bound: calls, streams and installations that fail

ASSUME AgentStudioAssumption ==
    /\ {MaxSessions, MaxMessages, MaxEvents, MaxResets, MaxErrors} \subseteq Nat
    /\ MaxFailures \in Nat \ {0}
    /\ Sessions = 1..MaxSessions

None == 0    \* no session, no call

VARIABLES phase,      \* _phase
          session,    \* _session
          shown,      \* _events: session and id of each
          handled,    \* _handledReadyVersion
          call,       \* the calls of submit, confirm and cancel under way
          follower,   \* the run of _follow for each session
          installed,  \* the sessions whose card onReady has put in the workspace
          resets,     \* bound: calls of startFromVersion so far
          errors      \* bound: what has failed so far

studioVars == <<phase, session, shown, handled, call, follower, installed, resets, errors>>
vars == <<events, stream, studioVars>>

Phases == {"idle", "submitting", "awaiting_confirmation", "queued", "generating",
           "validating", "ready", "failed", "cancelled", "error"}

Snapshot == [id : Sessions, status : Statuses]
NoSession == [id |-> None, status |-> "none"]

\* answer: Pending until the service has handled the call, then a snapshot of
\* the session, or Error.
Pending == [id |-> None, status |-> "pending"]
Error   == [id |-> None, status |-> "error"]
NoCall == [op |-> "none", id |-> None, answer |-> Pending]
CallTypes == {NoCall} \cup
             [op : {"create", "addMessage", "confirm", "cancel"}, id : Sessions \cup {None},
              answer : Snapshot \cup {Pending, Error}]

\* at: where the loop of _follow awaits.  after: the last event id it asked
\* for the stream with.  status: what get has answered.
NotFollowed == [at |-> "none", failures |-> 0, after |-> 0, status |-> "none"]
Followers == [at : {"none", "connect", "stream", "get", "got", "install", "delay", "done", "gaveUp"},
              failures : 0..MaxFailures, after : Nat, status : Statuses \cup {"none"}]

ShownEvents == [session : Sessions, id : Nat \ {0}]

LastEventId == IF shown = <<>> THEN 0 ELSE shown[Len(shown)].id

\* Slip: a stage without a phase of its own is taken for one.
PhaseIsStage(stage) == stage

PhaseForStage(stage) ==
    IF stage \in {"requirements", "awaiting_confirmation"} THEN "submitting" ELSE stage

Current(s) == [id |-> s, status |-> Status(s)]

Init ==
    /\ StreamInit
    /\ phase = "idle" /\ session = NoSession /\ shown = <<>> /\ handled = None
    /\ call = [c \in Calls |-> NoCall]
    /\ follower = [s \in Sessions |-> NotFollowed]
    /\ installed = {} /\ resets = 0 /\ errors = 0

-----------------------------------------------------------------------------
(* The user.  The buttons ask for the phase, the controller for the session. *)

\* Slip: the phase stays.
ResetKeepingPhase ==
    /\ session' = NoSession /\ shown' = <<>> /\ handled' = None /\ phase' = phase

Reset ==
    /\ session' = NoSession /\ shown' = <<>> /\ handled' = None /\ phase' = "idle"

StartFromVersion ==
    /\ resets < MaxResets
    /\ Reset
    /\ resets' = resets + 1
    /\ UNCHANGED <<events, stream, call, follower, installed, errors>>

Request(c, op, id) ==
    /\ call[c] = NoCall
    /\ call' = [call EXCEPT ![c] = [op |-> op, id |-> id, answer |-> Pending]]
    /\ UNCHANGED <<events, stream, session, shown, handled, follower, installed, resets, errors>>

Submit(c) ==
    /\ phase \in {"idle", "awaiting_confirmation", "error"}
    /\ phase' = "submitting"
    /\ IF session.status # "awaiting_confirmation"
       THEN Request(c, "create", None)
       ELSE /\ Len(events[session.id]) < MaxMessages
            /\ Request(c, "addMessage", session.id)

Confirm(c) ==
    /\ phase = "awaiting_confirmation"
    /\ session.status = "awaiting_confirmation"
    /\ Request(c, "confirm", session.id)
    /\ UNCHANGED phase

Cancel(c) ==
    /\ phase = "awaiting_confirmation"
    /\ session # NoSession /\ session.status \notin Terminal
    /\ Request(c, "cancel", session.id)
    /\ UNCHANGED phase

-----------------------------------------------------------------------------
(* The service handles a call, and the answer arrives. *)

CountError == errors < MaxErrors /\ errors' = errors + 1

Answered(c, answer) ==
    /\ call' = [call EXCEPT ![c] = [@ EXCEPT !.answer = answer]]
    /\ UNCHANGED <<phase, session, shown, handled, follower, installed, resets>>

ServeCreate(c) ==
    \E s \in Sessions :
        /\ call[c].op = "create" /\ call[c].answer = Pending
        /\ ~Exists(s) /\ \A t \in 1..(s - 1) : Exists(t)
        /\ Write(s, "requirements")
        /\ Answered(c, [id |-> s, status |-> "awaiting_confirmation"])
        /\ UNCHANGED errors

\* Stage that a call on an existing session appends to its events.
StageOf(op) ==
    CASE op = "addMessage" -> "awaiting_confirmation"
      [] op = "confirm"    -> "queued"
      [] op = "cancel"     -> "cancelled"

Allows(op, status) ==
    IF op = "cancel" THEN status \notin Terminal ELSE status = "awaiting_confirmation"

Serve(c) ==
    LET s == call[c].id IN
    /\ call[c].id # None /\ call[c].answer = Pending
    /\ UNCHANGED errors
    /\ IF Allows(call[c].op, Status(s))
       THEN /\ Write(s, StageOf(call[c].op))
            /\ Answered(c, [id |-> s, status |-> StageOf(call[c].op)])
       ELSE /\ UNCHANGED streamVars
            /\ Answered(c, IF call[c].op = "cancel" /\ Status(s) = "cancelled"
                           THEN Current(s) ELSE Error)

\* The call, or its answer, is lost.
LoseCall(c) ==
    /\ call[c] # NoCall /\ call[c].answer # Error
    /\ Answered(c, Error) /\ CountError
    /\ UNCHANGED streamVars

Following(s) == [at |-> "connect", failures |-> 0, after |-> LastEventId, status |-> "none"]

Receive(c) ==
    /\ call[c].answer \in Snapshot
    /\ session' = call[c].answer /\ phase' = call[c].answer.status
    /\ follower' = IF call[c].op = "confirm"
                   THEN [follower EXCEPT ![call[c].id] = Following(call[c].id)]
                   ELSE follower
    /\ call' = [call EXCEPT ![c] = NoCall]
    /\ UNCHANGED <<events, stream, shown, handled, installed, resets, errors>>

CaptureError(c) ==
    /\ call[c].answer = Error
    /\ phase' = "error"
    /\ call' = [call EXCEPT ![c] = NoCall]
    /\ UNCHANGED <<events, stream, session, shown, handled, follower, installed, resets, errors>>

-----------------------------------------------------------------------------
(* The loop of _follow for session s. *)

\* Each await of the loop leaves behind only the count of failures.
At(s, where) ==
    [at |-> where, failures |-> follower[s].failures, after |-> 0, status |-> "none"]

GoTo(s, where) == follower' = [follower EXCEPT ![s] = At(s, where)]

\* The catch of the loop: as many failures as allowed without a round between them end it.
Caught(s) ==
    [At(s, IF follower[s].failures + 1 >= MaxFailures THEN "gaveUp" ELSE "delay")
        EXCEPT !.failures = @ + 1]

Fail(s) ==
    /\ follower' = [follower EXCEPT ![s] = Caught(s)]
    /\ phase' = IF Caught(s).at = "gaveUp" THEN "error" ELSE phase

\* Slip: only a ready session ends the loop.
DecideReadyOnly(s, status) ==
    follower' = [follower EXCEPT ![s] =
        IF status = "ready" THEN At(s, "done")
        ELSE [At(s, "delay") EXCEPT !.failures = 0]]

\* The status asked for ends the loop, any other starts a new round.
Decide(s, status) ==
    follower' = [follower EXCEPT ![s] =
        IF status \in Terminal THEN At(s, "done")
        ELSE [At(s, "delay") EXCEPT !.failures = 0]]

FollowUnchanged == UNCHANGED <<call, resets, errors>>

Connect(s) ==
    /\ follower[s].at = "connect"
    /\ SubscribeEvents(s, follower[s].after)
    /\ GoTo(s, "stream")
    /\ UNCHANGED <<phase, session, shown, handled, installed>> /\ FollowUnchanged

\* An event whose id is not above the last one shown is skipped.
TakeEvent(s) ==
    LET id == Head(stream[s].channel) IN
    /\ follower[s].at = "stream"
    /\ Take(s)
    /\ IF id <= LastEventId
       THEN UNCHANGED <<shown, phase>>
       ELSE /\ shown' = Append(shown, [session |-> s, id |-> id])
            /\ phase' = PhaseForStage(events[s][id])
    /\ UNCHANGED <<session, handled, follower, installed>> /\ FollowUnchanged

\* The server's time limits end every stream; the client has what was sent.
EndOfStream(s) ==
    /\ follower[s].at = "stream" /\ stream[s].channel = <<>>
    /\ Unsubscribe(s)
    /\ GoTo(s, "get")
    /\ UNCHANGED <<phase, session, shown, handled, installed>> /\ FollowUnchanged

\* The connection, the stream or the request for the session fails.
Break(s) ==
    /\ follower[s].at \in {"connect", "stream", "get", "got"}
    /\ Unsubscribe(s)
    /\ Fail(s) /\ CountError
    /\ UNCHANGED <<session, shown, handled, installed, call, resets>>

ServeGet(s) ==
    /\ follower[s].at = "get"
    /\ follower' = [follower EXCEPT ![s] = [At(s, "got") EXCEPT !.status = Status(s)]]
    /\ UNCHANGED <<events, stream, phase, session, shown, handled, installed>>
    /\ FollowUnchanged

Got(s) ==
    LET status == follower[s].status IN
    /\ follower[s].at = "got"
    /\ session' = [id |-> s, status |-> status] /\ phase' = status
    /\ IF status = "ready" /\ handled # s THEN GoTo(s, "install") ELSE Decide(s, status)
    /\ UNCHANGED <<events, stream, shown, handled, installed>> /\ FollowUnchanged

\* onReady returns.  A reset meanwhile leaves no session to look at, which
\* throws; another session decides in place of the one that was installed.
InstallDone(s) ==
    /\ follower[s].at = "install"
    /\ installed' = installed \cup {s} /\ handled' = s
    /\ IF session = NoSession
       THEN Fail(s)
       ELSE Decide(s, session.status) /\ UNCHANGED phase
    /\ UNCHANGED <<events, stream, session, shown>> /\ FollowUnchanged

\* Slip: the version counts as handled before it is installed.
InstallForgotten(s) ==
    /\ follower[s].at = "install"
    /\ handled' = s
    /\ Fail(s) /\ CountError
    /\ UNCHANGED <<events, stream, session, shown, installed, call, resets>>

InstallFails(s) ==
    /\ follower[s].at = "install"
    /\ Fail(s) /\ CountError
    /\ UNCHANGED <<events, stream, session, shown, handled, installed, call, resets>>

DelayOver(s) ==
    /\ follower[s].at = "delay"
    /\ follower' = [follower EXCEPT ![s] = [At(s, "connect") EXCEPT !.after = LastEventId]]
    /\ UNCHANGED <<events, stream, phase, session, shown, handled, installed>>
    /\ FollowUnchanged

-----------------------------------------------------------------------------
EventCount == MapThenSumSet(LAMBDA s : Len(events[s]), Sessions)

Service(s) ==
    /\ \/ EventCount < MaxEvents /\ Work(s)
       \/ PollRead(s)
       \/ PollPublish(s)
    /\ UNCHANGED studioVars

Follow(s) ==
    \/ Connect(s) \/ TakeEvent(s) \/ EndOfStream(s) \/ Break(s)
    \/ ServeGet(s) \/ Got(s)
    \/ InstallDone(s) \/ InstallFails(s) \/ DelayOver(s)

User(c) == Submit(c) \/ Confirm(c) \/ Cancel(c)

Answer(c) == ServeCreate(c) \/ Serve(c) \/ LoseCall(c) \/ Receive(c) \/ CaptureError(c)

Next ==
    \/ StartFromVersion
    \/ \E c \in Calls : User(c) \/ Answer(c)
    \/ \E s \in Sessions : Service(s) \/ Follow(s)

\* Requests and streams end by their time limits, in an answer or an error,
\* and timers fire.  Nobody need press a button, and no worker need run.
Spec == Init /\ [][Next]_vars /\ \A s \in Sessions : WF_vars(Follow(s))

-----------------------------------------------------------------------------
TypeOK ==
    /\ StreamTypeOK
    /\ phase \in Phases
    /\ session \in Snapshot \cup {NoSession}
    /\ shown \in Seq(ShownEvents)
    /\ handled \in Sessions \cup {None}
    /\ call \in [Calls -> CallTypes]
    /\ follower \in [Sessions -> Followers]
    /\ installed \subseteq Sessions
    /\ resets \in 0..MaxResets /\ errors \in 0..MaxErrors

\* While only one session has been followed, and nothing was reset, the list
\* the panel shows is the beginning of that session's events, without a gap or
\* a repetition, however often the stream broke and was opened again.
\* (_follow and its lastEventId, SubscribeEvents.)
ShownIsHistory ==
    \A s \in Sessions :
        resets = 0 /\ (\A t \in Sessions \ {s} : follower[t] = NotFollowed)
            => shown = [i \in 1..Len(shown) |-> [session |-> s, id |-> i]]

\* A follower that ends without an error has not lost its card: if the session
\* was ready, its card is in the workspace, also after installations that
\* failed, resets, and other sessions in between.  (onReady and
\* _handledReadyVersion in _follow.)
QuietMeansInstalled ==
    \A s \in Sessions :
        follower[s].at = "done" /\ Status(s) = "ready" => s \in installed

\* The panel that asks for a confirmation has a session that can be confirmed:
\* its buttons are not dead, whatever answers and events have come in.
\* (_setPhase in submit, confirm, cancel, reset and _follow.)
AwaitingIsConfirmable ==
    phase = "awaiting_confirmation" => session.status = "awaiting_confirmation"

\* No session that is over is followed for ever: its follower comes to an end,
\* and with it the requests to the service, whatever else the user has started
\* since.  (The exits of _follow.)
FollowsEnd ==
    <>[](\A s \in Sessions :
            Exists(s) /\ Status(s) \in Terminal
                => follower[s].at \in {"none", "done", "gaveUp"})

=============================================================================
