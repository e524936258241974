------------------------- MODULE PostgresSessionsProofs -------------------------
(***************************************************************************)
(* Proofs about PostgresSessions, for any set of connections and any       *)
(* number of messages. The invariant says what the row lock is good for:   *)
(* while a connection holds it, what the connection has loaded is what the *)
(* tables have, and what it is about to commit is a change of the Service. *)
(* A read has no lock; it is covered because the row, which it reads       *)
(* first, lags behind messages and events, and these only grow.            *)
(***************************************************************************)
EXTENDS PostgresSessions, TLAPS

Tables == <<row, messages, events, job>>

\* The events are numbered 1..n, and the last one tells the status.
Told(n) ==
  /\ {event.id : event \in events} = 1..n
  /\ \A event, other \in events : event.id = other.id => event = other
  /\ \A event \in events : event.id = n => event.status = row.status
  /\ n = 0 <=> row.status = "absent"

TablesAgree ==
  /\ \E n \in Nat : Told(n)
  /\ ConfirmedHasJob
  /\ row.requirement <= messages
  /\ row.status = "absent" => Stored = Service!NoSessionYet
  /\ row.status # "absent" => messages >= 1

\* What connection c has loaded under the lock, or is about to commit.
LockKept(c) ==
  /\ conn[c].pc = "load" => conn[c].call # "create"
  /\ conn[c].pc = "load" /\ conn[c].call # "get" /\ conn[c].loaded >= 1 =>
       /\ holder = c
       /\ conn[c].session.status = row.status
       /\ conn[c].session.requirement = row.requirement
       /\ conn[c].session.version = row.version
       /\ conn[c].loaded >= 2 => conn[c].session.messages = messages
  /\ conn[c].pc = "write" =>
       IF conn[c].call = "create"
       THEN conn[c].session = Service!NoSessionYet /\ conn[c].seen = {}
       ELSE holder = c /\ conn[c].session = Stored /\ conn[c].seen = events
  /\ conn[c].pc = "commit" =>
       /\ holder = c
       /\ Change(conn[c].call, Stored, conn[c].session)
       /\ conn[c].fresh = FreshEvents(events, Stored, conn[c].session)

\* What connection c has read without a lock.
ReadCovered(c) ==
  /\ conn[c].pc = "load" /\ conn[c].call = "get" /\ conn[c].loaded >= 1 =>
       /\ \E event \in events : event.status = conn[c].session.status
       /\ conn[c].session.requirement <= messages
       /\ conn[c].loaded >= 2 => conn[c].session.requirement <= conn[c].session.messages
  /\ conn[c].pc = "returned" =>
       /\ \E event \in conn[c].seen : event.status = conn[c].session.status
       /\ conn[c].session.requirement <= conn[c].session.messages

SInv ==
  /\ SessionsTypeOK
  /\ TablesAgree
  /\ \A c \in Connections : LockKept(c) /\ ReadCovered(c)

-------------------------------------------------------------------------------
(* What a change of the Service does to a session.                           *)

LEMMA StoredTyped ==
  ASSUME SessionsTypeOK
  PROVE  Stored \in Service!Session
BY DEF SessionsTypeOK, Stored, Columns, Service!Session

LEMMA ChangeFacts ==
  ASSUME NEW s \in Service!Session, NEW t \in Service!Session, NEW call,
         s.status = "absent" => s = Service!NoSessionYet,
         Change(call, s, t)
  PROVE  /\ t.messages >= s.messages
         /\ \/ t.requirement = s.requirement /\ call # "confirm"
            \/ call = "confirm" /\ s.status # "absent" /\ t.requirement = s.messages
         /\ t.status # "absent"
         /\ s.status = "absent" => t.messages = 1 /\ t.requirement = s.requirement
         /\ t = s => s.status # "absent"
<1>1. /\ s.messages \in Nat /\ t.messages \in Nat
      /\ s.status \in Service!SessionStatus
  BY PostgresSessionsAssumption DEF Service!Session
<1>2. CASE call = "message"
  BY <1>1, <1>2 DEF Change, NextStatus, Service!Session
<1>3. CASE t = s
  BY <1>1, <1>3 DEF Change, NextStatus, Service!Session, Service!TerminalSession, Service!allowedTransitions
<1>4. CASE /\ call \in DOMAIN NextStatus
           /\ <<s.status, NextStatus[call]>> \in Service!allowedTransitions
           /\ t.status = NextStatus[call]
           /\ t.messages = IF call = "create" THEN 1 ELSE s.messages
           /\ IF call = "confirm"
              THEN s.requirement = 0 /\ t.requirement = s.messages
              ELSE t.requirement = s.requirement
  <2>1. call \in {"create", "confirm", "cancel", "start", "validate", "ready", "fail"}
    BY <1>4 DEF NextStatus
  <2>2. call # "create" => s.status # "absent"
    BY <1>4, <2>1 DEF NextStatus, Service!allowedTransitions
  <2>3. call = "create" => s.status = "absent"
    BY <1>4, <2>1 DEF NextStatus, Service!allowedTransitions
  <2>4. NextStatus[call] # "absent"
    BY <2>1 DEF NextStatus
  <2> QED
    BY <1>1, <1>4, <2>1, <2>2, <2>3, <2>4 DEF Service!NoSessionYet
<1> QED
  BY <1>2, <1>3, <1>4 DEF Change

LEMMA NextIdOfTold ==
  ASSUME SessionsTypeOK, NEW n \in Nat, Told(n)
  PROVE  NextEventId(events) = n
<1> DEFINE Ids == {event.id : event \in events} \union {0}
           Last(id) == id \in Ids /\ \A event \in events : event.id <= id
<1>1. \A event \in events : event.id \in 1..n
  BY DEF Told
<1>2. Last(n)
  <2>1. n \in Ids
    BY DEF Told
  <2> QED
    BY <1>1, <2>1
<1>3. ASSUME NEW id, Last(id)  PROVE id = n
  <2>1. id \in 0..n
    BY <1>3 DEF Told
  <2>2. n = 0 \/ n \in {event.id : event \in events}
    BY DEF Told
  <2>3. n <= id
    BY <1>3, <2>1, <2>2
  <2> QED
    BY <2>1, <2>3
<1> QED
  BY <1>2, <1>3 DEF NextEventId

LEMMA NoEventYet ==
  NextEventId({}) = 0
BY DEF NextEventId

\* The event of a change goes on where the events loaded end.
LEMMA FreshTyped ==
  ASSUME NEW seen, NextEventId(seen) \in Nat,
         NEW s \in Service!Session, NEW t \in Service!Session
  PROVE  FreshEvents(seen, s, t) \subseteq Event
BY DEF FreshEvents, Event, Service!Session

-------------------------------------------------------------------------------
(* Steps that leave the tables alone.                                        *)

LEMMA QuietStep ==
  ASSUME SInv, NEW c \in Connections, NEW k \in Connection,
         conn' = [conn EXCEPT ![c] = k],
         UNCHANGED Tables,
         holder' \in Connections \union {NoConnection},
         \A d \in Connections \ {c} : holder = d => holder' = d,
         LockKept(c)', ReadCovered(c)'
  PROVE  SInv'
<1>1. SessionsTypeOK'
  BY DEF SInv, SessionsTypeOK, Tables
<1>2. TablesAgree'
  BY DEF SInv, TablesAgree, Told, ConfirmedHasJob, Stored, Tables
<1>3. ASSUME NEW d \in Connections, d # c  PROVE LockKept(d)' /\ ReadCovered(d)'
  <2>1. conn'[d] = conn[d]
    BY <1>3 DEF SInv, SessionsTypeOK
  <2>2. LockKept(d) /\ ReadCovered(d)
    BY DEF SInv
  <2>3. Stored' = Stored
    BY DEF Stored, Tables
  <2>4. holder = d => holder' = d
    BY <1>3
  <2>5. LockKept(d)'
    BY <2>1, <2>2, <2>3, <2>4 DEF LockKept, Tables
  <2>6. ReadCovered(d)'
    BY <2>1, <2>2 DEF ReadCovered, Tables
  <2> QED
    BY <2>5, <2>6
<1> QED
  BY <1>1, <1>2, <1>3 DEF SInv

LEMMA IdleTyped ==
  Idle \in Connection
BY PostgresSessionsAssumption
DEF Idle, Connection, Calls, Service!Session, Service!NoSessionYet, Service!SessionStatus

LEMMA IdleHarmless ==
  ASSUME NEW c \in Connections, SessionsTypeOK, conn' = [conn EXCEPT ![c] = Idle]
  PROVE  LockKept(c)' /\ ReadCovered(c)'
<1>1. conn'[c] = Idle
  BY DEF SessionsTypeOK
<1> QED
  BY <1>1 DEF LockKept, ReadCovered, Idle

LEMMA RollBackStep ==
  ASSUME SInv, NEW c \in Connections, RollBack(c)
  PROVE  SInv'
<1>1. conn' = [conn EXCEPT ![c] = Idle] /\ UNCHANGED Tables
  BY DEF RollBack, Becomes, Tables
<1>2. /\ holder' \in Connections \union {NoConnection}
      /\ \A d \in Connections \ {c} : holder = d => holder' = d
  BY DEF RollBack, Unlock, SInv, SessionsTypeOK
<1>3. Idle \in Connection /\ LockKept(c)' /\ ReadCovered(c)'
  BY <1>1, IdleTyped, IdleHarmless DEF SInv
<1> QED
  BY <1>1, <1>2, <1>3, QuietStep

LEMMA BeginCallStep ==
  ASSUME SInv, NEW c \in Connections, NEW call \in Calls, BeginCall(c, call)
  PROVE  SInv'
<1> DEFINE k == [Idle EXCEPT !.pc = IF call = "create" THEN "write" ELSE "load", !.call = call]
<1>1. conn' = [conn EXCEPT ![c] = k] /\ UNCHANGED Tables /\ holder' = holder
  BY DEF BeginCall, Becomes, Tables
<1>2. k \in Connection
  BY IdleTyped DEF Connection
<1>3. conn'[c] = k
  BY <1>1 DEF SInv, SessionsTypeOK
<1>4. /\ k.pc = IF call = "create" THEN "write" ELSE "load"
      /\ k.call = call /\ k.loaded = 0
      /\ k.session = Service!NoSessionYet /\ k.seen = {}
  BY DEF Idle
<1> HIDE DEF k
<1>5. LockKept(c)' /\ ReadCovered(c)'
  BY <1>3, <1>4 DEF LockKept, ReadCovered
<1> QED
  BY <1>1, <1>2, <1>5, QuietStep DEF SInv, SessionsTypeOK

LEMMA Tables3 ==
  ASSUME NEW c \in Connections, SessionsTypeOK
  PROVE  /\ Loads(c, "row") => conn[c].loaded = 0
         /\ Loads(c, "messages") => conn[c].loaded = 1
         /\ Loads(c, "events") => conn[c].loaded = 2
<1>1. conn[c].loaded \in 0..3
  BY DEF SessionsTypeOK, Connection
<1> QED
  BY <1>1 DEF Loads, LoadOrder

LEMMA LoadedFacts ==
  ASSUME NEW state \in Connection, state.loaded \in 0..2,
         NEW session \in Service!Session, NEW seen \in SUBSET Event,
         NEW k, k = Loaded(state, session, seen)
  PROVE  /\ k \in Connection
         /\ k.loaded = state.loaded + 1
         /\ k.pc = AfterLoad(state)
         /\ k.call = state.call
         /\ k.session = session
         /\ k.seen = seen
<1>1. AfterLoad(state) \in {"load", "write", "returned"}
  BY DEF AfterLoad
<1>2. state.loaded + 1 \in 0..3
  OBVIOUS
<1> QED
  BY <1>1, <1>2 DEF Loaded, Connection

LEMMA LoadRowStep ==
  ASSUME SInv, NEW c \in Connections, LoadRow(c)
  PROVE  SInv'
<1> DEFINE s == [Stored EXCEPT !.messages = 0]
           k == Loaded(conn[c], s, {})
<1>1. conn' = [conn EXCEPT ![c] = k] /\ UNCHANGED Tables
  BY DEF LoadRow, Becomes, Tables
<1>2. conn[c] \in Connection /\ conn[c].pc = "load" /\ conn[c].loaded = 0
  BY Tables3 DEF LoadRow, Loads, Doing, SInv, SessionsTypeOK
<1>3. /\ s \in Service!Session
      /\ s.status = row.status /\ s.requirement = row.requirement /\ s.version = row.version
  BY StoredTyped, PostgresSessionsAssumption DEF SInv, Stored, Service!Session
<1>4. /\ k.pc = "load" /\ k.loaded = 1 /\ k.call = conn[c].call
      /\ k.session = s
      /\ k \in Connection
  <2> HIDE DEF s
  <2> QED
    BY <1>2, <1>3, LoadedFacts DEF AfterLoad
<1>5. conn'[c] = k
  BY <1>1 DEF SInv, SessionsTypeOK
<1> HIDE DEF k, s
<1>6. LockKept(c)'
  BY <1>1, <1>2, <1>3, <1>4, <1>5 DEF LockKept, LoadRow, SInv, Tables
<1>7. ReadCovered(c)'
  <2>1. PICK n \in Nat : Told(n)
    BY DEF SInv, TablesAgree
  <2>2. n # 0
    BY <2>1 DEF Told, LoadRow
  <2>3. n \in {event.id : event \in events}
    BY <2>1, <2>2 DEF Told
  <2>4. \E event \in events : event.status = row.status
    BY <2>1, <2>3 DEF Told
  <2> QED
    BY <1>1, <1>3, <1>4, <1>5, <2>4 DEF ReadCovered, Tables, SInv, TablesAgree
<1>8. /\ holder' \in Connections \union {NoConnection}
      /\ \A d \in Connections \ {c} : holder = d => holder' = d
  BY PostgresSessionsAssumption DEF LoadRow, SInv, SessionsTypeOK
<1> QED
  BY <1>1, <1>4, <1>6, <1>7, <1>8, QuietStep

LEMMA LoadMessagesStep ==
  ASSUME SInv, NEW c \in Connections, LoadMessages(c)
  PROVE  SInv'
<1> DEFINE s == [conn[c].session EXCEPT !.messages = messages]
           k == Loaded(conn[c], s, {})
<1>1. conn' = [conn EXCEPT ![c] = k] /\ UNCHANGED Tables /\ holder' = holder
  BY DEF LoadMessages, Becomes, Tables
<1>2. conn[c] \in Connection /\ conn[c].pc = "load" /\ conn[c].loaded = 1
  BY Tables3 DEF LoadMessages, Loads, Doing, SInv, SessionsTypeOK
<1>3. conn[c].session \in Service!Session /\ messages \in 0..MaxMessages
  BY <1>2 DEF Connection, SInv, SessionsTypeOK
<1>4. /\ s \in Service!Session
      /\ s.status = conn[c].session.status
      /\ s.requirement = conn[c].session.requirement
      /\ s.version = conn[c].session.version
      /\ s.messages = messages
  BY <1>3 DEF Service!Session
<1>5. /\ k.pc = "load" /\ k.loaded = 2 /\ k.call = conn[c].call
      /\ k.session = s
      /\ k \in Connection
  <2> HIDE DEF s
  <2> QED
    BY <1>2, <1>4, LoadedFacts DEF AfterLoad
<1>6. conn'[c] = k
  BY <1>1 DEF SInv, SessionsTypeOK
<1>7. LockKept(c) /\ ReadCovered(c)
  BY DEF SInv
<1> HIDE DEF k, s
<1>8. LockKept(c)'
  BY <1>1, <1>2, <1>4, <1>5, <1>6, <1>7 DEF LockKept, Tables
<1>9. ReadCovered(c)'
  BY <1>1, <1>2, <1>4, <1>5, <1>6, <1>7 DEF ReadCovered, Tables
<1> QED
  BY <1>1, <1>5, <1>8, <1>9, QuietStep DEF SInv, SessionsTypeOK

LEMMA LoadEventsStep ==
  ASSUME SInv, NEW c \in Connections, LoadEvents(c)
  PROVE  SInv'
<1> DEFINE k == Loaded(conn[c], conn[c].session, events)
<1>1. conn' = [conn EXCEPT ![c] = k] /\ UNCHANGED Tables /\ holder' = holder
  BY DEF LoadEvents, Becomes, Tables
<1>2. conn[c] \in Connection /\ conn[c].pc = "load" /\ conn[c].loaded = 2
  BY Tables3 DEF LoadEvents, Loads, Doing, SInv, SessionsTypeOK
<1>3. conn[c].session \in Service!Session /\ events \in SUBSET Event
  BY <1>2 DEF Connection, SInv, SessionsTypeOK
<1>4. /\ k.pc = IF conn[c].call = "get" THEN "returned" ELSE "write"
      /\ k.call = conn[c].call
      /\ k.session = conn[c].session
      /\ k.seen = events
      /\ k \in Connection
  BY <1>2, <1>3, LoadedFacts DEF AfterLoad
<1>5. conn'[c] = k
  BY <1>1 DEF SInv, SessionsTypeOK
<1> HIDE DEF k
<1>6. LockKept(c) /\ ReadCovered(c)
  BY DEF SInv
<1>7. conn[c].call # "get" => conn[c].session = Stored
  BY <1>2, <1>3, <1>6 DEF LockKept, Service!Session, Stored
<1>8. Stored' = Stored
  BY <1>1 DEF Stored, Tables
<1>9. LockKept(c)'
  BY <1>1, <1>2, <1>4, <1>5, <1>6, <1>7, <1>8 DEF LockKept, Tables
<1>10. ReadCovered(c)'
  BY <1>1, <1>2, <1>4, <1>5, <1>6 DEF ReadCovered, Tables
<1> QED
  BY <1>1, <1>4, <1>9, <1>10, QuietStep DEF SInv, SessionsTypeOK

LEMMA ReturnStep ==
  ASSUME SInv, NEW c \in Connections, Return(c)
  PROVE  SInv'
<1>1. conn' = [conn EXCEPT ![c] = Idle] /\ UNCHANGED Tables /\ holder' = holder
  BY DEF Return, Becomes, Tables
<1>2. LockKept(c)' /\ ReadCovered(c)'
  BY <1>1, IdleHarmless DEF SInv
<1> QED
  BY <1>1, <1>2, IdleTyped, QuietStep DEF SInv, SessionsTypeOK

\* What a connection writes is a change of the session that the tables have.
LEMMA WriteStep ==
  ASSUME SInv, NEW c \in Connections, NEW t \in Service!Session, Write(c, t)
  PROVE  SInv'
<1> DEFINE fresh == FreshEvents(conn[c].seen, conn[c].session, t)
           k == [conn[c] EXCEPT !.pc = "commit", !.session = t, !.fresh = fresh]
<1>1. CASE RollBack(c)
  BY <1>1, RollBackStep
<1>2. CASE ~RollBack(c)
  <2>1. /\ conn' = [conn EXCEPT ![c] = k] /\ holder' = c /\ UNCHANGED Tables
        /\ conn[c].pc = "write" /\ holder \in {NoConnection, c}
        /\ Change(conn[c].call, conn[c].session, t)
        /\ conn[c].call = "create" => row.status = "absent"
    BY <1>2 DEF Write, Becomes, Doing, Tables
  <2>2. PICK n \in Nat : Told(n)
    BY DEF SInv, TablesAgree
  <2>3. conn[c].session = Stored /\ conn[c].seen = events
    <3>1. CASE conn[c].call # "create"
      BY <2>1, <3>1 DEF SInv, LockKept
    <3>2. CASE conn[c].call = "create"
      <4>1. n = 0
        BY <2>1, <2>2, <3>2 DEF Told
      <4>2. events = {}
        BY <2>2, <4>1 DEF Told
      <4> QED
        BY <2>1, <3>2, <4>2 DEF SInv, LockKept, TablesAgree
    <3> QED
      BY <3>1, <3>2
  <2>4. fresh = FreshEvents(events, Stored, t) /\ fresh \subseteq Event
    BY <2>2, <2>3, NextIdOfTold, FreshTyped, StoredTyped DEF SInv
  <2>5. conn[c] \in Connection
    BY DEF SInv, SessionsTypeOK
  <2> HIDE DEF fresh
  <2>6. /\ k \in Connection /\ k.pc = "commit" /\ k.call = conn[c].call
        /\ k.session = t /\ k.fresh = fresh
    BY <2>4, <2>5 DEF Connection
  <2>7. conn'[c] = k
    BY <2>1 DEF SInv, SessionsTypeOK
  <2>8. Stored' = Stored /\ events' = events
    BY <2>1 DEF Stored, Tables
  <2> HIDE DEF k
  <2>9. Change(k.call, Stored, k.session) /\ k.fresh = FreshEvents(events, Stored, k.session)
    BY <2>1, <2>3, <2>4, <2>6
  <2>10. /\ Change(conn[c].call, Stored, conn[c].session)'
         /\ conn'[c].fresh = FreshEvents(events, Stored, conn[c].session)'
    BY <2>7, <2>8, <2>9 DEF Change, FreshEvents
  <2>11. LockKept(c)' /\ ReadCovered(c)'
    BY <2>1, <2>6, <2>7, <2>8, <2>10 DEF LockKept, ReadCovered
  <2>12. \A d \in Connections \ {c} : holder = d => holder' = d
    BY <2>1, PostgresSessionsAssumption
  <2> QED
    BY <2>1, <2>6, <2>11, <2>12, QuietStep
<1> QED
  BY <1>1, <1>2

-------------------------------------------------------------------------------
(* The commit, which changes the tables.                                     *)

LEMMA CommitFacts ==
  ASSUME SInv, NEW c \in Connections, Commit(c)
  PROVE  /\ conn[c].session \in Service!Session
         /\ Change(conn[c].call, Stored, conn[c].session)
         /\ Stored' = conn[c].session
         /\ events' = events \union FreshEvents(events, Stored, conn[c].session)
         /\ holder = c
         /\ Stored \in Service!Session
         /\ Stored.status = "absent" => Stored = Service!NoSessionYet
<1>1. conn[c] \in Connection /\ LockKept(c)
  BY DEF SInv, SessionsTypeOK
<1>2. conn[c].session \in Service!Session
  BY <1>1 DEF Connection
<1>3. Stored' = conn[c].session
  BY <1>2 DEF Commit, Stored, ColumnsOf, Service!Session
<1> QED
  BY <1>1, <1>2, <1>3, StoredTyped DEF LockKept, Commit, Doing, SInv, TablesAgree, Stored

LEMMA CommitKeepsTables ==
  ASSUME SInv, NEW c \in Connections, Commit(c)
  PROVE  SessionsTypeOK' /\ TablesAgree' /\ messages <= messages' /\ events \subseteq events'
<1> DEFINE s == Stored
           t == conn[c].session
<1>1. /\ s \in Service!Session /\ t \in Service!Session
      /\ Change(conn[c].call, s, t)
      /\ s.status = "absent" => s = Service!NoSessionYet
      /\ events' = events \union FreshEvents(events, s, t)
      /\ Stored' = t
  BY CommitFacts
<1>2. /\ s.status = row.status /\ s.messages = messages
      /\ s.requirement = row.requirement /\ s.version = row.version
  BY DEF Stored
<1>3. /\ row'.status = t.status /\ row'.requirement = t.requirement
      /\ row' = [status |-> t.status, requirement |-> t.requirement, version |-> t.version]
      /\ messages' = t.messages /\ job' = (job \/ conn[c].call = "confirm")
  BY DEF Commit, ColumnsOf, JobOf
<1> HIDE DEF s, t
<1>4. /\ t.messages >= s.messages
      /\ \/ t.requirement = s.requirement /\ conn[c].call # "confirm"
         \/ conn[c].call = "confirm" /\ s.status # "absent" /\ t.requirement = s.messages
      /\ t.status # "absent"
      /\ s.status = "absent" => t.messages = 1 /\ t.requirement = s.requirement
      /\ t = s => s.status # "absent"
  BY <1>1, ChangeFacts
<1>5. /\ messages \in Nat /\ messages' \in Nat
      /\ row.requirement \in Nat
  BY <1>1, <1>3, PostgresSessionsAssumption DEF SInv, SessionsTypeOK, Columns, Service!Session
<1>6. PICK n \in Nat : Told(n)
  BY DEF SInv, TablesAgree
<1>7. NextEventId(events) = n
  BY <1>6, NextIdOfTold DEF SInv
<1>8. SessionsTypeOK'
  <2>1. row' \in Columns /\ messages' \in 0..MaxMessages
    BY <1>1, <1>3 DEF Columns, Service!Session
  <2>2. events' \subseteq Event
    BY <1>1, <1>7, FreshTyped DEF SInv, SessionsTypeOK
  <2>3. job' \in BOOLEAN
    BY <1>3 DEF SInv, SessionsTypeOK
  <2>4. holder' \in Connections \union {NoConnection}
    BY DEF Commit, Unlock, SInv, SessionsTypeOK
  <2>5. conn' \in [Connections -> Connection]
    BY IdleTyped DEF Commit, Becomes, SInv, SessionsTypeOK
  <2> QED
    BY <2>1, <2>2, <2>3, <2>4, <2>5 DEF SessionsTypeOK
<1>9. \E m \in Nat : Told(m)'
  <2>1. CASE t = s
    <3>1. events' = events /\ row'.status = row.status
      BY <1>1, <1>2, <1>3, <2>1 DEF FreshEvents
    <3> QED
      BY <1>6, <3>1 DEF Told
  <2>2. CASE t # s
    <3> DEFINE new == [id |-> n + 1, status |-> t.status]
    <3>1. events' = events \union {new}
      BY <1>1, <1>7, <2>2 DEF FreshEvents
    <3>2. \A event \in events : event.id \in 1..n
      BY <1>6 DEF Told
    <3>3. {event.id : event \in events'} = 1..(n + 1)
      <4>1. {event.id : event \in events} = 1..n
        BY <1>6 DEF Told
      <4>2. new.id = n + 1
        OBVIOUS
      <4> HIDE DEF new
      <4>3. {event.id : event \in events'} = (1..n) \union {n + 1}
        BY <3>1, <4>1, <4>2
      <4>4. (1..n) \union {n + 1} = 1..(n + 1)
        OBVIOUS
      <4> QED
        BY <4>3, <4>4
    <3>4. \A event, other \in events' : event.id = other.id => event = other
      BY <1>6, <3>1, <3>2 DEF Told
    <3>5. \A event \in events' : event.id = n + 1 => event.status = row'.status
      BY <1>3, <3>1, <3>2
    <3>6. n + 1 \in Nat /\ n + 1 # 0 /\ row'.status # "absent"
      BY <1>3, <1>4
    <3> QED
      BY <3>3, <3>4, <3>5, <3>6 DEF Told
  <2> QED
    BY <2>1, <2>2
<1>10. ConfirmedHasJob'
  <2>1. job <=> row.requirement # 0
    BY DEF SInv, TablesAgree, ConfirmedHasJob
  <2>2. s.status # "absent" => messages >= 1
    BY <1>2 DEF SInv, TablesAgree
  <2>3. CASE conn[c].call = "confirm"
    <3>1. row'.requirement # 0
      BY <1>2, <1>3, <1>4, <1>5, <2>2, <2>3
    <3> QED
      BY <1>3, <2>3, <3>1 DEF ConfirmedHasJob
  <2>4. CASE conn[c].call # "confirm"
    <3>1. row'.requirement = row.requirement
      BY <1>2, <1>3, <1>4, <2>4
    <3> QED
      BY <1>3, <2>1, <2>4, <3>1, Zenon DEF ConfirmedHasJob
  <2> QED
    BY <2>3, <2>4
<1>11. /\ row'.requirement <= messages'
       /\ row'.status # "absent"
       /\ messages' >= 1
  BY <1>2, <1>3, <1>4, <1>5 DEF SInv, TablesAgree
<1> QED
  BY <1>1, <1>2, <1>3, <1>4, <1>5, <1>8, <1>9, <1>10, <1>11 DEF TablesAgree

LEMMA CommitStep ==
  ASSUME SInv, NEW c \in Connections, Commit(c)
  PROVE  SInv'
<1>1. SessionsTypeOK' /\ TablesAgree' /\ messages <= messages' /\ events \subseteq events'
  BY CommitKeepsTables
<1>2. holder = c /\ conn' = [conn EXCEPT ![c] = Idle]
  BY CommitFacts DEF Commit, Becomes
<1>3. LockKept(c)' /\ ReadCovered(c)'
  BY <1>2, IdleHarmless DEF SInv
<1>4. ASSUME NEW d \in Connections, d # c  PROVE LockKept(d)' /\ ReadCovered(d)'
  <2>1. conn'[d] = conn[d] /\ conn[d] \in Connection
    BY <1>2, <1>4 DEF SInv, SessionsTypeOK
  <2>2. LockKept(d) /\ ReadCovered(d)
    BY DEF SInv
  <2>3. LockKept(d)'
    BY <1>2, <1>4, <2>1, <2>2 DEF LockKept
  <2>4. /\ conn[d].session.requirement \in Nat
        /\ messages \in Nat /\ messages' \in Nat
    BY <1>1, <2>1, PostgresSessionsAssumption
    DEF Connection, Service!Session, SInv, SessionsTypeOK
  <2>5. ReadCovered(d)'
    BY <1>1, <2>1, <2>2, <2>4 DEF ReadCovered
  <2> QED
    BY <2>3, <2>5
<1> QED
  BY <1>1, <1>3, <1>4 DEF SInv

-------------------------------------------------------------------------------
(* The theorems.                                                             *)

LEMMA SInvInit ==
  ASSUME SessionsInit
  PROVE  SInv
<1>1. SessionsTypeOK
  <2>1. NoColumns \in Columns
    BY PostgresSessionsAssumption DEF Columns, NoColumns, Service!SessionStatus
  <2>2. 0 \in 0..MaxMessages
    BY PostgresSessionsAssumption
  <2>3. [c \in Connections |-> Idle] \in [Connections -> Connection]
    BY IdleTyped
  <2> QED
    BY <2>1, <2>2, <2>3 DEF SessionsInit, SessionsTypeOK
<1>2. TablesAgree
  <2>1. Told(0)
    BY DEF SessionsInit, Told, NoColumns
  <2>2. ConfirmedHasJob /\ row.requirement <= messages /\ row.status = "absent"
    BY DEF SessionsInit, ConfirmedHasJob, NoColumns
  <2>3. Stored = Service!NoSessionYet
    BY DEF SessionsInit, Stored, NoColumns, Service!NoSessionYet
  <2> QED
    BY <2>1, <2>2, <2>3 DEF TablesAgree
<1>3. \A c \in Connections : LockKept(c) /\ ReadCovered(c)
  BY DEF SessionsInit, LockKept, ReadCovered, Idle
<1> QED
  BY <1>1, <1>2, <1>3 DEF SInv

LEMMA SInvNext ==
  ASSUME SInv, [SessionsNext]_sessionRows
  PROVE  SInv'
<1>1. CASE UNCHANGED sessionRows
  <2>1. UNCHANGED <<row, messages, events, job, holder, conn>> /\ Stored' = Stored
    BY <1>1 DEF sessionRows, Stored
  <2>2. SessionsTypeOK'
    BY <2>1 DEF SInv, SessionsTypeOK
  <2>3. TablesAgree'
    BY <2>1 DEF SInv, TablesAgree, Told, ConfirmedHasJob
  <2>4. ASSUME NEW c \in Connections  PROVE LockKept(c)' /\ ReadCovered(c)'
    <3>1. LockKept(c) /\ ReadCovered(c)
      BY DEF SInv
    <3>2. Change(conn[c].call, Stored, conn[c].session)
            => Change(conn[c].call, Stored, conn[c].session)'
      BY <2>1 DEF Change
    <3>3. FreshEvents(events, Stored, conn[c].session)'
            = FreshEvents(events, Stored, conn[c].session)
      BY <2>1 DEF FreshEvents
    <3>4. LockKept(c)'
      BY <2>1, <3>1, <3>2, <3>3 DEF LockKept
    <3>5. ReadCovered(c)'
      BY <2>1, <3>1 DEF ReadCovered
    <3> QED
      BY <3>4, <3>5
  <2> QED
    BY <2>2, <2>3, <2>4 DEF SInv
<1>2. CASE SessionsNext
  <2>1. PICK c \in Connections : SessionStep(c)
    BY <1>2 DEF SessionsNext
  <2>2. CASE \E call \in Calls : BeginCall(c, call)
    BY <2>2, BeginCallStep
  <2>3. CASE LoadRow(c)
    BY <2>3, LoadRowStep
  <2>4. CASE LoadNothing(c)
    BY <2>4, RollBackStep DEF LoadNothing
  <2>5. CASE LoadMessages(c)
    BY <2>5, LoadMessagesStep
  <2>6. CASE LoadEvents(c)
    BY <2>6, LoadEventsStep
  <2>7. CASE Return(c)
    BY <2>7, ReturnStep
  <2>8. CASE \E t \in Service!Session : Write(c, t)
    BY <2>8, WriteStep
  <2>9. CASE Refuse(c) \/ LoseSession(c)
    BY <2>9, RollBackStep DEF Refuse, LoseSession
  <2>10. CASE Commit(c)
    BY <2>10, CommitStep
  <2> QED
    BY <2>1, <2>2, <2>3, <2>4, <2>5, <2>6, <2>7, <2>8, <2>9, <2>10 DEF SessionStep
<1> QED
  BY <1>1, <1>2

\* The invariant holds in every behaviour.
THEOREM SessionsInvariant ==
  SessionsSpec => []SInv
BY SInvInit, SInvNext, PTL DEF SessionsSpec

\* Ids go up one by one and the last event tells the status of the row, with
\* any number of processes and any of their transactions rolled back
\* (updateInTransaction, insertEvents).
THEOREM EventsAgreeWithRow ==
  SessionsSpec => []EventsTellStatus
<1>1. ASSUME SInv  PROVE EventsTellStatus
  <2>1. PICK n \in Nat : Told(n)
    BY <1>1 DEF SInv, TablesAgree
  <2>2. NextEventId(events) = n
    BY <1>1, <2>1, NextIdOfTold DEF SInv
  <2>3. events = {} <=> n = 0
    BY <2>1 DEF Told
  <2> QED
    BY <2>1, <2>2, <2>3 DEF EventsTellStatus, Told
<1> QED
  BY <1>1, SessionsInvariant, PTL

\* A session is confirmed with a job or not at all (ConfirmAndEnqueue).
THEOREM ConfirmedWithJob ==
  SessionsSpec => []ConfirmedHasJob
<1>1. ASSUME SInv  PROVE ConfirmedHasJob
  BY <1>1 DEF SInv, TablesAgree
<1> QED
  BY <1>1, SessionsInvariant, PTL

\* A read without a transaction has an event for its status and the messages
\* of its requirement, whatever was committed while it was under way
\* (loadSession).
THEOREM ReadsCovered ==
  SessionsSpec => []ReadsAreCovered
<1>1. ASSUME SInv  PROVE ReadsAreCovered
  BY <1>1 DEF SInv, ReadsAreCovered, ReadCovered, Doing
<1> QED
  BY <1>1, SessionsInvariant, PTL

-------------------------------------------------------------------------------
(* The refinement.                                                           *)

\* Only a commit changes the tables.
LEMMA StepsOnTables ==
  ASSUME [SessionsNext]_sessionRows, ~UNCHANGED Tables
  PROVE  \E c \in Connections : Commit(c)
BY DEF sessionRows, Tables, SessionsNext, SessionStep, BeginCall, LoadRow, LoadNothing,
       LoadMessages, LoadEvents, Return, Write, Refuse, LoseSession, RollBack

\* A change of the stored session is one of the Service's operations on it.
LEMMA ChangeIsServiceStep ==
  ASSUME Stored \in Service!Session, NEW call, NEW t \in Service!Session,
         Stored.status = "absent" => Stored = Service!NoSessionYet,
         Change(call, Stored, t), Stored' = t
  PROVE  Service!SessionNext \/ Stored' = Stored
<1> DEFINE s == Stored
           now == [x \in {"session"} |-> s]
           next == [x \in {"session"} |-> t]
<1>1. s \in Service!Session /\ now["session"] = s
  OBVIOUS
<1>2. [x \in {"session"} |-> Stored'] = next
  OBVIOUS
<1> SUFFICES ASSUME t # s  PROVE Service!SessionNext
  OBVIOUS
<1>3. \A u : next = [now EXCEPT !["session"] = u] <=> u = t
  OBVIOUS
<1>4. CASE /\ call = "message"
           /\ s.status = "awaiting_confirmation"
           /\ s.messages < MaxMessages
           /\ t = [s EXCEPT !.messages = @ + 1]
  <2>1. Service!AddMessage("session")
    BY <1>2, <1>4 DEF Service!AddMessage
  <2> QED
    BY <2>1 DEF Service!SessionNext
<1>5. CASE /\ call \in DOMAIN NextStatus
           /\ <<s.status, NextStatus[call]>> \in Service!allowedTransitions
           /\ t.status = NextStatus[call]
           /\ t.messages = IF call = "create" THEN 1 ELSE s.messages
           /\ IF call = "confirm"
              THEN s.requirement = 0 /\ t.requirement = s.messages
              ELSE t.requirement = s.requirement
           /\ IF call = "ready" THEN t.version # NoVersion ELSE t.version = s.version
  <2>1. call \in {"create", "confirm", "cancel", "start", "validate", "ready", "fail"}
    BY <1>5 DEF NextStatus
  <2>2. t.status = NextStatus[call] /\ <<s.status, t.status>> \in Service!allowedTransitions
    BY <1>5
  <2>3. CASE call = "create"
    <3>1. t = [s EXCEPT !.status = "awaiting_confirmation", !.messages = 1]
      BY <1>1, <1>5, <2>2, <2>3 DEF Service!Session, NextStatus
    <3>2. Service!Create("session")
      BY <1>2, <2>2, <2>3, <3>1 DEF Service!Create, Service!CanTransition, NextStatus
    <3> QED
      BY <3>2 DEF Service!SessionNext
  <2>4. CASE call = "confirm"
    <3>1. t = [s EXCEPT !.status = "queued", !.requirement = s.messages]
      BY <1>1, <1>5, <2>2, <2>4 DEF Service!Session, NextStatus
    <3>2. s.status = "awaiting_confirmation"
      BY <2>2, <2>4 DEF Service!allowedTransitions, NextStatus
    <3>3. Service!Confirm("session")
      BY <1>2, <1>5, <2>2, <2>4, <3>1, <3>2 DEF Service!Confirm, Service!CanTransition, NextStatus
    <3> QED
      BY <3>3 DEF Service!SessionNext
  <2>5. CASE call = "ready"
    <3>1. t = [s EXCEPT !.status = "ready", !.version = t.version] /\ t.version \in VersionIds
      BY <1>1, <1>5, <2>2, <2>5 DEF Service!Session, NextStatus
    <3>2. Service!MarkReady("session", t.version)
      BY <1>2, <2>2, <2>5, <3>1 DEF Service!MarkReady, Service!CanTransition, NextStatus
    <3> QED
      BY <3>1, <3>2 DEF Service!SessionNext
  <2>6. CASE call \in {"cancel", "start", "validate", "fail"}
    <3>1. t = [s EXCEPT !.status = NextStatus[call]]
      BY <1>1, <1>5, <2>2, <2>6 DEF Service!Session
    <3>2. Service!Transition("session", NextStatus[call])
      BY <1>2, <1>5, <3>1 DEF Service!Transition, Service!CanTransition
    <3>3. call = "fail" => s.status \notin Service!TerminalSession
      BY <2>2 DEF Service!allowedTransitions, Service!TerminalSession, NextStatus
    <3> QED
      BY <2>6, <3>2, <3>3
      DEF Service!SessionNext, Service!Cancel, Service!StartGenerating,
          Service!StartValidating, Service!MarkFailed, NextStatus
  <2> QED
    BY <2>1, <2>3, <2>4, <2>5, <2>6
<1> QED
  BY <1>4, <1>5 DEF Change

\* Transactions of any number of processes amount to the atomic operations of
\* the Service, one at a time.
THEOREM TablesImplementSession ==
  SessionsSpec => ImplementsSession
<1>1. SessionsInit => Service!SessionInit
  BY DEF SessionsInit, Service!SessionInit, Stored, NoColumns, Service!NoSessionYet
<1>2. SInv /\ [SessionsNext]_sessionRows
        => [Service!SessionNext]_([s \in {"session"} |-> Stored])
  <2> SUFFICES ASSUME SInv, [SessionsNext]_sessionRows
               PROVE  Service!SessionNext \/ Stored' = Stored
    OBVIOUS
  <2>1. CASE UNCHANGED Tables
    BY <2>1 DEF Tables, Stored
  <2>2. CASE ~UNCHANGED Tables
    <3>1. PICK c \in Connections : Commit(c)
      BY <2>2, StepsOnTables
    <3> QED
      BY <3>1, CommitFacts, ChangeIsServiceStep
  <2> QED
    BY <2>1, <2>2
<1> QED
  BY <1>1, <1>2, SessionsInvariant, PTL DEF SessionsSpec, ImplementsSession, Service!SessionSpec

-------------------------------------------------------------------------------
(* What the user has confirmed.                                              *)

\* The requirement is confirmed when it is all the messages there are, a session
\* that still takes messages has none, and a version comes with ready only.
ConfirmedShape ==
  /\ row.status \in {"absent", "awaiting_confirmation"} => row.requirement = 0
  /\ row.requirement # 0 => row.requirement = messages
  /\ row.status = "ready" <=> row.version # NoVersion

\* A confirmed session keeps its requirement and gets no other message.
ConfirmationStays ==
  row.requirement # 0 => row'.requirement = row.requirement /\ messages' = messages

\* A change of the Service keeps both.
LEMMA ChangeKeepsConfirmation ==
  ASSUME Stored \in Service!Session, NEW call, NEW t \in Service!Session,
         ConfirmedShape, Change(call, Stored, t), Stored' = t
  PROVE  ConfirmedShape' /\ ConfirmationStays
<1> DEFINE s == Stored
<1>1. /\ s.status = row.status /\ s.requirement = row.requirement
      /\ s.messages = messages /\ s.version = row.version
      /\ t.status = row'.status /\ t.requirement = row'.requirement
      /\ t.messages = messages' /\ t.version = row'.version
  BY DEF Stored
<1>2. /\ messages \in Nat /\ messages' \in Nat
      /\ row.requirement \in Nat /\ row'.requirement \in Nat
  BY <1>1, PostgresSessionsAssumption DEF Service!Session
<1> HIDE DEF s
<1>3. CASE s.status = "awaiting_confirmation" /\ t = [s EXCEPT !.messages = @ + 1]
  <2>1. t.status = s.status /\ t.requirement = s.requirement /\ t.version = s.version
    BY <1>3 DEF Service!Session, s
  <2> QED
    BY <1>1, <1>3, <2>1 DEF ConfirmedShape, ConfirmationStays
<1>4. CASE t = s
  BY <1>1, <1>4 DEF ConfirmedShape, ConfirmationStays
<1>5. CASE /\ call \in DOMAIN NextStatus
           /\ <<s.status, NextStatus[call]>> \in Service!allowedTransitions
           /\ t.status = NextStatus[call]
           /\ t.messages = IF call = "create" THEN 1 ELSE s.messages
           /\ IF call = "confirm"
              THEN s.requirement = 0 /\ t.requirement = s.messages
              ELSE t.requirement = s.requirement
           /\ IF call = "ready" THEN t.version # NoVersion ELSE t.version = s.version
  <2>1. call \in {"create", "confirm", "cancel", "start", "validate", "ready", "fail"}
    BY <1>5 DEF NextStatus
  <2>2. /\ s.status \in {"absent", "awaiting_confirmation", "queued", "generating", "validating"}
        /\ t.status = "awaiting_confirmation" <=> call = "create"
        /\ t.status = "ready" <=> call = "ready"
        /\ t.status # "absent"
        /\ call = "create" => s.status = "absent"
    BY <1>5, <2>1 DEF NextStatus, Service!allowedTransitions
  <2> QED
    BY <1>1, <1>2, <1>5, <2>2 DEF ConfirmedShape, ConfirmationStays
<1> QED
  BY <1>3, <1>4, <1>5 DEF Change, s

\* The requirement that is confirmed is all the user has written, and however
\* the transactions of other processes fall, none adds a message to a confirmed
\* session or confirms it again (AddMessage, Confirm, and
\* enforceConfirmedRequirementWriteOnce).
THEOREM ConfirmationIsFinal ==
  SessionsSpec => []ConfirmedShape /\ [][ConfirmationStays]_sessionRows
<1>1. SessionsInit => ConfirmedShape
  BY DEF SessionsInit, NoColumns, ConfirmedShape
<1>2. SInv /\ ConfirmedShape /\ [SessionsNext]_sessionRows => ConfirmedShape' /\ ConfirmationStays
  <2> SUFFICES ASSUME SInv, ConfirmedShape, [SessionsNext]_sessionRows
               PROVE  ConfirmedShape' /\ ConfirmationStays
    OBVIOUS
  <2>1. CASE UNCHANGED Tables
    BY <2>1 DEF Tables, ConfirmedShape, ConfirmationStays
  <2>2. CASE ~UNCHANGED Tables
    <3>1. PICK c \in Connections : Commit(c)
      BY <2>2, StepsOnTables
    <3> QED
      BY <3>1, CommitFacts, ChangeKeepsConfirmation
  <2> QED
    BY <2>1, <2>2
<1> QED
  BY <1>1, <1>2, SessionsInvariant, PTL DEF SessionsSpec
===============================================================================
