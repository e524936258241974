--------------------------- MODULE PostgresSessions ---------------------------
(***************************************************************************)
(* PostgresRepository: how one generation session is kept in four tables,  *)
(* its row, its messages, its events and its job, and how the processes    *)
(* of a deployment read and change it there. A change is a transaction of  *)
(* several statements (read committed): it locks the row, loads messages   *)
(* and events, applies a change of the Service, and writes what is new. A  *)
(* read is three statements without a transaction, so that another         *)
(* process's commit may fall between them. GenerationSession is the atomic *)
(* session all of this implements.                                         *)
(*                                                                         *)
(* Within a process streamMu lets one change at a time through; two        *)
(* connections that change the session belong to two processes. What a     *)
(* transaction has written and not committed is kept with its connection.  *)
(***************************************************************************)
EXTENDS Integers, GenerationConstants

CONSTANTS
  Connections,     \* connections to the database
  NoConnection,
  MaxMessages      \* bound: messages of the session

ASSUME PostgresSessionsAssumption ==
  /\ NoConnection \notin Connections
  /\ MaxMessages \in Nat \ {0}

VARIABLES
  row,        \* the row of generation_sessions
  messages,   \* how many rows of generation_messages the session has
  events,     \* the rows of generation_events
  job,        \* whether generation_jobs has a row of the session
  holder,     \* the connection that holds the lock on the row
  conn        \* what each connection is doing

sessionRows == <<row, messages, events, job, holder, conn>>

\* The session as the tables have it.
Stored == [status |-> row.status, messages |-> messages,
           requirement |-> row.requirement, version |-> row.version]

Service ==
  INSTANCE GenerationSession WITH
    Sessions <- {"session"}, session <- [s \in {"session"} |-> Stored]

Columns == [status : Service!SessionStatus, requirement : 0..MaxMessages,
            version : VersionIds \union {NoVersion}]

NoColumns == [status |-> "absent", requirement |-> 0, version |-> NoVersion]

\* An event of the session and the status it tells (its stage; the first one's
\* is called requirements).
Event == [id : Nat \ {0}, status : Service!SessionStatus]

Updates == {"message", "confirm", "cancel", "start", "validate", "ready", "fail"}
Calls == Updates \union {"create", "get"}

\* loaded: how many of the statements of loadSession have run; session and seen
\* what they returned, and after the change what it made of it; fresh: the
\* event the change has added.
Connection == [pc : {"idle", "load", "write", "commit", "returned"},
               call : Calls, loaded : 0..3, session : Service!Session,
               seen : SUBSET Event, fresh : SUBSET Event]

Idle == [pc |-> "idle", call |-> "get", loaded |-> 0,
         session |-> Service!NoSessionYet, seen |-> {}, fresh |-> {}]

SessionsInit ==
  /\ row = NoColumns
  /\ messages = 0
  /\ events = {}
  /\ job = FALSE
  /\ holder = NoConnection
  /\ conn = [c \in Connections |-> Idle]

Doing(c, pc) == conn[c].pc = pc
Becomes(c, state) == conn' = [conn EXCEPT ![c] = state]
Unlock(c) == holder' = IF holder = c THEN NoConnection ELSE holder

\* Mutant: the events are not written in the transaction.
RollBackKeepingEvents(c) ==
  /\ events' = events \union conn[c].fresh
  /\ Becomes(c, Idle) /\ Unlock(c)
  /\ UNCHANGED <<row, messages, job>>

\* Mutant: the job is not inserted in the transaction.
RollBackKeepingJob(c) ==
  /\ job' = (job \/ (Doing(c, "commit") /\ conn[c].call = "confirm"))
  /\ Becomes(c, Idle) /\ Unlock(c)
  /\ UNCHANGED <<row, messages, events>>

RollBack(c) ==
  /\ Becomes(c, Idle) /\ Unlock(c)
  /\ UNCHANGED <<row, messages, events, job>>

------------------------------------------------------------------------------
(* loadSession.                                                             *)

\* A session is made in memory; anything else starts by loading it.
BeginCall(c, call) ==
  /\ Doing(c, "idle")
  /\ Becomes(c, [Idle EXCEPT !.pc = IF call = "create" THEN "write" ELSE "load",
                             !.call = call])
  /\ UNCHANGED <<row, messages, events, job, holder>>

\* Mutant: the row is read after what hangs on it.
LoadOrderRowLast == <<"messages", "events", "row">>

LoadOrder == <<"row", "messages", "events">>

Loads(c, table) ==
  Doing(c, "load") /\ conn[c].loaded < 3 /\ LoadOrder[conn[c].loaded + 1] = table

\* After the third statement a read returns, and an update changes the session.
AfterLoad(state) ==
  IF state.loaded < 2 THEN "load" ELSE IF state.call = "get" THEN "returned" ELSE "write"

Loaded(state, session, seen) ==
  [state EXCEPT !.pc = AfterLoad(state), !.loaded = state.loaded + 1,
                !.session = session, !.seen = seen]

\* FOR UPDATE in a transaction: it waits for the lock and reads the row as it
\* is then.
LoadRow(c) ==
  /\ Loads(c, "row")
  /\ IF conn[c].call = "get" THEN UNCHANGED holder
                             ELSE holder = NoConnection /\ holder' = c
  /\ row.status # "absent"
  /\ Becomes(c, Loaded(conn[c], [Stored EXCEPT !.messages = 0], {}))
  /\ UNCHANGED <<row, messages, events, job>>

\* ErrNotFound.
LoadNothing(c) ==
  /\ Loads(c, "row")
  /\ row.status = "absent"
  /\ RollBack(c)

LoadMessages(c) ==
  /\ Loads(c, "messages")
  /\ Becomes(c, Loaded(conn[c], [conn[c].session EXCEPT !.messages = messages], {}))
  /\ UNCHANGED <<row, messages, events, job, holder>>

LoadEvents(c) ==
  /\ Loads(c, "events")
  /\ Becomes(c, Loaded(conn[c], conn[c].session, events))
  /\ UNCHANGED <<row, messages, events, job, holder>>

Return(c) ==
  /\ Doing(c, "returned")
  /\ Becomes(c, Idle)
  /\ UNCHANGED <<row, messages, events, job, holder>>

------------------------------------------------------------------------------
(* updateInTransaction.                                                     *)

NextStatus == [create |-> "awaiting_confirmation", confirm |-> "queued",
               cancel |-> "cancelled", start |-> "generating",
               validate |-> "validating", ready |-> "ready", fail |-> "failed"]

\* The change of a call turns session s into t; no t when it is refused.
Change(call, s, t) ==
  \/ /\ call = "message"
     /\ s.status = "awaiting_confirmation"
     /\ s.messages < MaxMessages
     /\ t = [s EXCEPT !.messages = @ + 1]
  \/ /\ \/ call = "fail" /\ s.status \in Service!TerminalSession
        \/ call = "cancel" /\ s.status = "cancelled"
     /\ t = s
  \/ /\ call \in DOMAIN NextStatus
     /\ <<s.status, NextStatus[call]>> \in Service!allowedTransitions
     /\ t.status = NextStatus[call]
     /\ t.messages = IF call = "create" THEN 1 ELSE s.messages
     /\ IF call = "confirm"
        THEN s.requirement = 0 /\ t.requirement = s.messages
        ELSE t.requirement = s.requirement
     /\ IF call = "ready" THEN t.version # NoVersion ELSE t.version = s.version

\* enforceConfirmedRequirementWriteOnce.
WriteOnce(s, t) ==
  t.requirement # s.requirement =>
    s.requirement = 0 /\ s.status = "awaiting_confirmation" /\ t.status = "queued"

\* nextEventID: the id of the last event loaded.
NextEventId(seen) ==
  CHOOSE id \in {event.id : event \in seen} \union {0} : \A event \in seen : event.id <= id

FreshEvents(seen, s, t) ==
  IF t = s THEN {} ELSE {[id |-> NextEventId(seen) + 1, status |-> t.status]}

\* INSERT or UPDATE of the row, which holds its lock, and the inserts of what
\* is new under their keys. None is visible to others before the commit.
Write(c, t) ==
  /\ Doing(c, "write")
  /\ holder \in {NoConnection, c}
  /\ Change(conn[c].call, conn[c].session, t)
  /\ WriteOnce(conn[c].session, t)
  /\ LET fresh == FreshEvents(conn[c].seen, conn[c].session, t)
     IN  IF \/ conn[c].call = "create" /\ row.status # "absent"
            \/ t.messages > conn[c].session.messages /\ t.messages <= messages
            \/ \E event \in fresh : event.id \in {old.id : old \in events}
            \/ conn[c].call = "confirm" /\ job
         THEN RollBack(c)
         ELSE /\ Becomes(c, [conn[c] EXCEPT !.pc = "commit", !.session = t, !.fresh = fresh])
              /\ holder' = c
              /\ UNCHANGED <<row, messages, events, job>>

\* The Service or the write-once rule turns the change down.
Refuse(c) ==
  /\ Doing(c, "write")
  /\ ~\E t \in Service!Session :
        Change(conn[c].call, conn[c].session, t) /\ WriteOnce(conn[c].session, t)
  /\ RollBack(c)

\* Mutant: the UPDATE leaves a column out.
ColumnsWithoutVersion(session) ==
  [status |-> session.status, requirement |-> session.requirement, version |-> row.version]

ColumnsOf(session) ==
  [status |-> session.status, requirement |-> session.requirement, version |-> session.version]

\* ConfirmAndEnqueue inserts the job in the same transaction.
JobOf(call) == job \/ call = "confirm"

\* The caller need not learn of it: a connection that is lost while it commits
\* has committed or has rolled back.
Commit(c) ==
  /\ Doing(c, "commit")
  /\ row' = ColumnsOf(conn[c].session)
  /\ messages' = conn[c].session.messages
  /\ events' = events \union conn[c].fresh
  /\ job' = JobOf(conn[c].call)
  /\ Becomes(c, Idle) /\ Unlock(c)

\* The process dies, the request's context ends or the database closes the
\* connection: it rolls back.
LoseSession(c) == ~Doing(c, "idle") /\ RollBack(c)

------------------------------------------------------------------------------
SessionStep(c) ==
  \/ \E call \in Calls : BeginCall(c, call)
  \/ LoadRow(c) \/ LoadNothing(c) \/ LoadMessages(c) \/ LoadEvents(c) \/ Return(c)
  \/ \E t \in Service!Session : Write(c, t)
  \/ Refuse(c) \/ Commit(c) \/ LoseSession(c)

SessionsNext == \E c \in Connections : SessionStep(c)

SessionsSpec == SessionsInit /\ [][SessionsNext]_sessionRows

------------------------------------------------------------------------------
(* Properties.                                                              *)

\* Types.
SessionsTypeOK ==
  /\ row \in Columns
  /\ messages \in 0..MaxMessages
  /\ events \subseteq Event
  /\ job \in BOOLEAN
  /\ holder \in Connections \union {NoConnection}
  /\ conn \in [Connections -> Connection]

\* Transactions of several processes on the rows of a session amount to the
\* atomic operations of the Service, one at a time (update, ConfirmAndEnqueue).
ImplementsSession == Service!SessionSpec

\* The three tables agree: ids go up one by one and the last event tells the
\* status of the row, whatever was rolled back (insertEvents, and the streams
\* that read it).
EventsTellStatus ==
  LET last == NextEventId(events)
  IN  /\ {event.id : event \in events} = 1..last
      /\ \A event, other \in events : event.id = other.id => event = other
      /\ \A event \in events : event.id = last => event.status = row.status
      /\ events = {} <=> row.status = "absent"

\* A session is confirmed with a job or not at all (ConfirmAndEnqueue).
ConfirmedHasJob == job <=> row.requirement # 0

\* A read is made of parts of different ages, and yet never tells a status it
\* has no event for, nor a requirement whose messages it lacks (loadSession).
ReadsAreCovered ==
  \A c \in Connections :
    Doing(c, "returned") =>
      /\ \E event \in conn[c].seen : event.status = conn[c].session.status
      /\ conn[c].session.requirement <= conn[c].session.messages
==============================================================================
