-------------------------- MODULE AgentStudioProofs --------------------------
(***************************************************************************)
(* Theorems about the agent studio and the event streams it follows, for   *)
(* any numbers of sessions, calls, resets and errors.                      *)
(*                                                                         *)
(* What a stream has to send are the ids between the last one taken and    *)
(* its cursor (GoodStream); a session's history only grows, and a terminal *)
(* status stays (HistoryKept); so what a follower has learned about its    *)
(* session stays true while it waits (Knows).                              *)
(***************************************************************************)
EXTENDS AgentStudio, SequenceTheorems, TLAPS

-----------------------------------------------------------------------------
(* Runs of ids. *)

IsRun(f, a, b) ==
    f \in Seq(Nat) /\ Len(f) = b - a /\ \A i \in 1..(b - a) : f[i] = a + i

\* The ids between two numbers are a sequence; it is empty when they are equal.
LEMMA IdsSeq ==
  \A a, b \in Nat : a <= b =>
      /\ IsRun(Ids(a, b), a, b)
      /\ Ids(a, b) \in Seq(Nat)
      /\ Ids(a, b) = <<>> <=> a = b
<1> SUFFICES ASSUME NEW a \in Nat, NEW b \in Nat, a <= b
             PROVE  /\ IsRun(Ids(a, b), a, b)
                    /\ Ids(a, b) \in Seq(Nat)
                    /\ Ids(a, b) = <<>> <=> a = b
  OBVIOUS
<1> DEFINE f == Ids(a, b)
<1>1. f = [i \in 1..(b - a) |-> a + i] /\ b - a \in Nat
  BY DEF Ids
<1>2. \A i \in 1..(b - a) : a + i \in Nat
  OBVIOUS
<1>3. f \in Seq(Nat) /\ Len(f) = b - a
  BY <1>1, <1>2, IsASeq
<1>4. f = <<>> <=> Len(f) = 0
  BY <1>3, EmptySeq
<1> QED BY <1>1, <1>3, <1>4 DEF IsRun

\* Two runs of which the second starts where the first ends are one.
LEMMA IdsJoin ==
  \A a, b, c \in Nat : a <= b /\ b <= c => Ids(a, b) \o Ids(b, c) = Ids(a, c)
<1> SUFFICES ASSUME NEW a \in Nat, NEW b \in Nat, NEW c \in Nat, a <= b, b <= c
             PROVE  Ids(a, b) \o Ids(b, c) = Ids(a, c)
  OBVIOUS
<1> DEFINE f == Ids(a, b)
           g == Ids(b, c)
           h == Ids(a, c)
<1>1. IsRun(f, a, b) /\ IsRun(g, b, c) /\ IsRun(h, a, c)
  <2>1. a <= c
    OBVIOUS
  <2>2. IsRun(f, a, b)
    BY IdsSeq
  <2>3. IsRun(g, b, c)
    BY IdsSeq
  <2>4. IsRun(h, a, c)
    BY <2>1, IdsSeq
  <2> QED BY <2>2, <2>3, <2>4
<1> HIDE DEF f, g, h
<1>2. f \in Seq(Nat) /\ g \in Seq(Nat) /\ h \in Seq(Nat)
  BY <1>1 DEF IsRun
<1>3. Len(f) = b - a /\ Len(g) = c - b /\ Len(h) = c - a
  BY <1>1 DEF IsRun
<1>4. /\ f \o g \in Seq(Nat) /\ Len(f \o g) = Len(f) + Len(g)
      /\ \A i \in 1..(Len(f) + Len(g)) :
            (f \o g)[i] = IF i <= Len(f) THEN f[i] ELSE g[i - Len(f)]
  BY <1>2, ConcatProperties
<1>5. Len(f \o g) = Len(h)
  BY <1>3, <1>4
<1>6. ASSUME NEW i \in 1..Len(h)
      PROVE  (f \o g)[i] = h[i]
  <2>1. h[i] = a + i
    BY <1>1, <1>3 DEF IsRun
  <2>2. (f \o g)[i] = IF i <= Len(f) THEN f[i] ELSE g[i - Len(f)]
    BY <1>4, <1>5
  <2>3. CASE i <= b - a
    <3>1. i \in 1..(b - a)
      BY <2>3
    <3>2. f[i] = a + i
      BY <1>1, <3>1 DEF IsRun
    <3> QED BY <1>3, <2>1, <2>2, <2>3, <3>2
  <2>4. CASE ~(i <= b - a)
    <3>1. i - (b - a) \in 1..(c - b)
      BY <1>3, <2>4
    <3>2. g[i - (b - a)] = b + (i - (b - a))
      BY <1>1, <3>1 DEF IsRun
    <3>3. b + (i - (b - a)) = a + i
      OBVIOUS
    <3>4. (f \o g)[i] = g[i - (b - a)]
      BY <1>3, <2>2, <2>4
    <3> QED BY <2>1, <3>2, <3>3, <3>4
  <2> QED BY <2>3, <2>4
<1>7. f \o g = h
  BY <1>2, <1>4, <1>5, <1>6, SeqEqual
<1> QED BY <1>7 DEF f, g, h

\* What is left of a run when its first id is taken.
LEMMA IdsTail ==
  \A a, b \in Nat : a < b => /\ Head(Ids(a, b)) = a + 1
                             /\ Tail(Ids(a, b)) = Ids(a + 1, b)
<1> SUFFICES ASSUME NEW a \in Nat, NEW b \in Nat, a < b
             PROVE  Head(Ids(a, b)) = a + 1 /\ Tail(Ids(a, b)) = Ids(a + 1, b)
  OBVIOUS
<1> DEFINE f == Ids(a, b)
           h == Ids(a + 1, b)
<1>1. IsRun(f, a, b) /\ f # <<>> /\ IsRun(h, a + 1, b)
  <2>1. a <= b /\ a # b /\ a + 1 <= b /\ a + 1 \in Nat
    OBVIOUS
  <2>2. IsRun(f, a, b) /\ f # <<>>
    BY <2>1, IdsSeq
  <2>3. IsRun(h, a + 1, b)
    BY <2>1, IdsSeq
  <2> QED BY <2>2, <2>3
<1> HIDE DEF f, h
<1>2. /\ f \in Seq(Nat) /\ Len(f) = b - a /\ \A i \in 1..(b - a) : f[i] = a + i
      /\ h \in Seq(Nat) /\ Len(h) = b - (a + 1) /\ \A i \in 1..(b - (a + 1)) : h[i] = a + 1 + i
  BY <1>1 DEF IsRun
<1>3. /\ Tail(f) \in Seq(Nat) /\ Len(Tail(f)) = Len(f) - 1
      /\ \A i \in 1..Len(Tail(f)) : Tail(f)[i] = f[i + 1]
  BY <1>1, <1>2, HeadTailProperties
<1>4. Len(Tail(f)) = Len(h) /\ \A i \in 1..Len(h) : Tail(f)[i] = h[i]
  BY <1>2, <1>3
<1>5. Tail(f) = h
  BY <1>2, <1>3, <1>4, SeqEqual
<1>6. Head(f) = a + 1
  BY <1>2
<1> QED BY <1>5, <1>6 DEF f, h

-----------------------------------------------------------------------------
(* One stream and the n events of its session. *)

GoodStream(t, n) ==
    /\ t \in Streams
    /\ t.taken <= t.cursor
    /\ t.open => t.channel = Ids(t.taken, t.cursor)
    /\ ~t.open => t.channel = <<>>
    /\ t.channel # <<>> => t.cursor <= n
    /\ t.read <= n

\* Publishing some of the events sends the ids that were missing.
LEMMA PublishedGood ==
  ASSUME NEW n \in Nat, NEW m \in Nat, NEW k \in Nat, n <= m, k <= m,
         NEW t \in Streams, GoodStream(t, n)
  PROVE  /\ GoodStream(Published(t, k), m)
         /\ Published(t, k).taken = t.taken /\ Published(t, k).open = t.open
         /\ Published(t, k).read = t.read
<1>1. CASE ~t.open \/ k <= t.cursor
  BY <1>1 DEF Published, GoodStream, Streams
<1>2. CASE t.open /\ k > t.cursor
  <2> DEFINE q == [t EXCEPT !.channel = t.channel \o Ids(t.cursor, k)]
             p == [q EXCEPT !.cursor = k]
  <2>1. Published(t, k) = p
    BY <1>2 DEF Published, Streams
  <2>2. t.taken \in Nat /\ t.cursor \in Nat /\ t.taken <= t.cursor /\ t.cursor <= k
    BY <1>2 DEF GoodStream, Streams
  <2>3. t.channel \o Ids(t.cursor, k) = Ids(t.taken, k) /\ Ids(t.taken, k) \in Seq(Nat)
    <3>1. t.channel = Ids(t.taken, t.cursor)
      BY <1>2 DEF GoodStream
    <3>2. t.taken <= k /\ k \in Nat
      BY <2>2
    <3>3. Ids(t.taken, t.cursor) \o Ids(t.cursor, k) = Ids(t.taken, k)
      BY <2>2, <3>2, IdsJoin
    <3>4. Ids(t.taken, k) \in Seq(Nat)
      BY <2>2, <3>2, IdsSeq
    <3> QED BY <3>1, <3>3, <3>4
  <2>4. /\ p \in Streams /\ p.cursor = k /\ p.channel = Ids(t.taken, k)
        /\ p.open /\ p.taken = t.taken /\ p.read = t.read
    BY <1>2, <2>3 DEF Streams
  <2> HIDE DEF p
  <2>5. t.read <= m
    BY DEF GoodStream, Streams
  <2>6. GoodStream(p, m)
    BY <2>2, <2>4, <2>5, <1>2 DEF GoodStream
  <2> QED BY <2>1, <2>4, <2>6, <1>2
<1> QED BY <1>1, <1>2 DEF Streams

\* Closed, and opened again after any id.
LEMMA OpenedGood ==
  ASSUME NEW n \in Nat, NEW after \in Nat
  PROVE  /\ GoodStream(NoStream, n)
         /\ GoodStream(OpenAt(after), n) /\ OpenAt(after) \in Streams
         /\ OpenAt(after).open /\ OpenAt(after).taken = after
<1>1. /\ OpenAt(after) \in Streams /\ OpenAt(after).open /\ OpenAt(after).taken = after
      /\ OpenAt(after).cursor = after /\ OpenAt(after).channel = <<>> /\ OpenAt(after).read = 0
  BY DEF OpenAt, Streams
<1>2. /\ NoStream \in Streams /\ ~NoStream.open /\ NoStream.taken = 0 /\ NoStream.cursor = 0
      /\ NoStream.channel = <<>> /\ NoStream.read = 0
  BY DEF NoStream, Streams
<1>3. Ids(after, after) = <<>>
  BY after <= after, IdsSeq
<1> QED BY <1>1, <1>2, <1>3 DEF GoodStream

\* The next id of a stream is the one after the last one taken, and has an event.
LEMMA TakenGood ==
  ASSUME NEW n \in Nat, NEW t \in Streams, GoodStream(t, n), t.channel # <<>>
  PROVE  /\ t.open /\ Head(t.channel) = t.taken + 1 /\ Head(t.channel) \in 1..n
         /\ GoodStream(Taken(t), n)
         /\ Taken(t).open /\ Taken(t).taken = t.taken + 1
<1>1. /\ t.open /\ t.taken \in Nat /\ t.cursor \in Nat
      /\ t.channel = Ids(t.taken, t.cursor) /\ t.taken <= t.cursor /\ t.cursor <= n
  BY DEF GoodStream, Streams
<1>2. t.taken < t.cursor
  <2>1. t.taken # t.cursor
    BY <1>1, IdsSeq
  <2> QED BY <1>1, <2>1
<1>3. Head(t.channel) = t.taken + 1 /\ Tail(t.channel) = Ids(t.taken + 1, t.cursor)
  <2>1. Head(Ids(t.taken, t.cursor)) = t.taken + 1
    BY <1>1, <1>2, IdsTail
  <2>2. Tail(Ids(t.taken, t.cursor)) = Ids(t.taken + 1, t.cursor)
    BY <1>1, <1>2, IdsTail
  <2> QED BY <1>1, <2>1, <2>2
<1> DEFINE q == [t EXCEPT !.taken = t.taken + 1]
           p == [q EXCEPT !.channel = Ids(t.taken + 1, t.cursor)]
<1>4. Taken(t) = p
  BY <1>3 DEF Taken, Streams
<1>5. Ids(t.taken + 1, t.cursor) \in Seq(Nat)
  <2>1. t.taken + 1 \in Nat /\ t.taken + 1 <= t.cursor
    BY <1>1, <1>2
  <2> QED BY <1>1, <2>1, IdsSeq
<1>6. /\ p \in Streams /\ p.cursor = t.cursor /\ p.channel = Ids(t.taken + 1, t.cursor)
      /\ p.open /\ p.taken = t.taken + 1 /\ p.read = t.read
  <2> DEFINE ids == Ids(t.taken + 1, t.cursor)
             next == t.taken + 1
  <2>1. ids \in Seq(Nat) /\ next \in Nat
    BY <1>1, <1>5
  <2> HIDE DEF ids, next
  <2> DEFINE u == [t EXCEPT !.taken = next]
             v == [u EXCEPT !.channel = ids]
  <2>2. /\ v \in Streams /\ v.cursor = t.cursor /\ v.channel = ids
        /\ v.open = t.open /\ v.taken = next /\ v.read = t.read
    BY <2>1 DEF Streams
  <2>3. v = p
    BY DEF ids, next
  <2> HIDE DEF v, p
  <2> QED BY <1>1, <2>2, <2>3 DEF ids, next
<1> HIDE DEF p
<1>7. t.read <= n
  BY DEF GoodStream
<1>8. GoodStream(p, n)
  BY <1>1, <1>2, <1>6, <1>7 DEF GoodStream
<1> QED BY <1>1, <1>2, <1>3, <1>4, <1>6, <1>8

-----------------------------------------------------------------------------
(* All streams and the histories of all sessions. *)

StreamsGood ==
    /\ StreamTypeOK
    /\ \A s \in Sessions : GoodStream(stream[s], Len(events[s]))

\* What a step does to the histories: they only grow, and the end of one stays.
HistoryKept ==
    \A s \in Sessions : Exists(s) =>
        /\ Exists(s)'
        /\ Status(s) \in Terminal => Status(s)' = Status(s)

\* The status of a session that has begun.
LEMMA StatusTyped ==
  ASSUME StreamTypeOK, NEW s \in Sessions, Exists(s)
  PROVE  Status(s) \in Statuses
<1>1. events[s] \in Seq(Stages) /\ events[s] # <<>>
  BY DEF StreamTypeOK, Exists
<1>2. Len(events[s]) \in 1..Len(events[s])
  BY <1>1
<1>3. events[s][Len(events[s])] \in Stages
  BY <1>1, <1>2, ElementOfSeq
<1> QED BY <1>3 DEF Status, StatusAt, Stages, Statuses

\* Every step leaves streams alone that it does not name.
LEMMA StreamsOfOthers ==
  ASSUME StreamsGood, NEW s \in Sessions, NEW t \in Streams,
         stream' = [stream EXCEPT ![s] = t], UNCHANGED events,
         GoodStream(t, Len(events[s]))
  PROVE  StreamsGood' /\ HistoryKept
<1>1. stream' \in [Sessions -> Streams] /\ events' \in [Sessions -> Seq(Stages)]
  BY DEF StreamsGood, StreamTypeOK
<1>2. \A u \in Sessions : GoodStream(stream'[u], Len(events'[u]))
  BY DEF StreamsGood, StreamTypeOK
<1>3. HistoryKept
  BY DEF HistoryKept, Exists, Status
<1> QED BY <1>1, <1>2, <1>3 DEF StreamsGood, StreamTypeOK

\* A change of a session, published here or left to the polls.
LEMMA WriteGood ==
  ASSUME StreamsGood, NEW s \in Sessions, NEW stage \in Stages,
         Write(s, stage) \/ WriteElsewhere(s, stage),
         Exists(s) => Status(s) \notin Terminal
  PROVE  StreamsGood' /\ HistoryKept /\ Exists(s)' /\ Status(s)' = StatusAt(stage)
<1> DEFINE n == Len(events[s])
<1>1. /\ events \in [Sessions -> Seq(Stages)] /\ stream \in [Sessions -> Streams]
      /\ GoodStream(stream[s], n) /\ n \in Nat
  BY DEF StreamsGood, StreamTypeOK
<1>2. /\ events'[s] = Append(events[s], stage)
      /\ events' \in [Sessions -> Seq(Stages)]
      /\ \A t \in Sessions \ {s} : events'[t] = events[t]
  <2>1. Append(events[s], stage) \in Seq(Stages)
    BY <1>1, AppendProperties
  <2>2. events' = [events EXCEPT ![s] = Append(events[s], stage)]
    BY DEF Write, WriteElsewhere
  <2> DEFINE longer == Append(events[s], stage)
  <2> HIDE DEF longer
  <2>3. events' = [events EXCEPT ![s] = longer] /\ longer \in Seq(Stages)
    BY <2>1, <2>2 DEF longer
  <2>4. /\ events'[s] = longer /\ events' \in [Sessions -> Seq(Stages)]
        /\ \A t \in Sessions \ {s} : events'[t] = events[t]
    BY <1>1, <2>3
  <2> QED BY <2>4 DEF longer
<1>3. Len(events'[s]) = n + 1 /\ events'[s][n + 1] = stage /\ events'[s] # <<>>
  BY <1>1, <1>2, AppendProperties
<1>4. Exists(s)' /\ Status(s)' = StatusAt(stage)
  BY <1>3 DEF Exists, Status
<1>5. HistoryKept
  BY <1>2, <1>4 DEF HistoryKept, Exists, Status
<1>6. /\ stream' \in [Sessions -> Streams]
      /\ GoodStream(stream'[s], n + 1)
      /\ \A t \in Sessions \ {s} : stream'[t] = stream[t]
  <2>1. GoodStream(Published(stream[s], n + 1), n + 1) /\ GoodStream(stream[s], n + 1)
    <3>1. n + 1 \in Nat /\ n <= n + 1 /\ n + 1 <= n + 1 /\ stream[s] \in Streams
      BY <1>1
    <3>2. GoodStream(Published(stream[s], n + 1), n + 1)
      BY <1>1, <3>1, PublishedGood
    <3>3. GoodStream(stream[s], n + 1)
      BY <1>1 DEF GoodStream, Streams
    <3> QED BY <3>2, <3>3
  <2>2. Published(stream[s], n + 1) \in Streams
    BY <2>1 DEF GoodStream
  <2>3. CASE Write(s, stage)
    BY <1>1, <2>1, <2>2, <2>3 DEF Write
  <2>4. CASE WriteElsewhere(s, stage)
    BY <1>1, <2>1, <2>4 DEF WriteElsewhere
  <2> QED BY <2>3, <2>4
<1>7. ASSUME NEW t \in Sessions
      PROVE  GoodStream(stream'[t], Len(events'[t]))
  BY <1>2, <1>3, <1>6 DEF StreamsGood
<1> QED BY <1>2, <1>4, <1>5, <1>6, <1>7 DEF StreamsGood, StreamTypeOK

\* The steps of the service beside the calls.
LEMMA ServiceGood ==
  ASSUME StreamsGood, NEW s \in Sessions, Service(s)
  PROVE  StreamsGood' /\ HistoryKept
<1> DEFINE n == Len(events[s])
<1>1. /\ events \in [Sessions -> Seq(Stages)] /\ stream \in [Sessions -> Streams]
      /\ GoodStream(stream[s], n) /\ n \in Nat /\ stream[s] \in Streams
  BY DEF StreamsGood, StreamTypeOK
<1>2. CASE Work(s)
  <2>1. PICK stage \in Stages : /\ Exists(s) /\ <<Status(s), stage>> \in WorkerTransitions
                                /\ Write(s, stage) \/ WriteElsewhere(s, stage)
    BY <1>2 DEF Work
  <2>2. Status(s) \notin Terminal
    BY <2>1 DEF WorkerTransitions, Terminal
  <2> QED BY <2>1, <2>2, WriteGood
<1>3. CASE PollRead(s)
  <2> DEFINE t == [stream[s] EXCEPT !.read = n]
  <2>1. stream' = [stream EXCEPT ![s] = t] /\ UNCHANGED events
    BY <1>1, <1>3 DEF PollRead
  <2>2. /\ t \in Streams /\ t.read = n /\ t.open = stream[s].open /\ t.taken = stream[s].taken
        /\ t.cursor = stream[s].cursor /\ t.channel = stream[s].channel
    BY <1>1 DEF Streams
  <2> HIDE DEF t
  <2>3. GoodStream(t, n)
    BY <1>1, <2>2 DEF GoodStream
  <2> QED BY <2>1, <2>2, <2>3, StreamsOfOthers
<1>4. CASE PollPublish(s)
  <2> DEFINE q == Published(stream[s], stream[s].read)
             t == [q EXCEPT !.read = 0]
  <2>1. stream' = [stream EXCEPT ![s] = t] /\ UNCHANGED events
    BY <1>1, <1>4 DEF PollPublish
  <2>2. GoodStream(q, n)
    <3>1. stream[s].read \in Nat /\ stream[s].read <= n /\ n <= n
      BY <1>1 DEF GoodStream, Streams
    <3> QED BY <1>1, <3>1, PublishedGood
  <2> HIDE DEF q
  <2>3. q \in Streams
    BY <2>2 DEF GoodStream
  <2>4. /\ t \in Streams /\ t.read = 0 /\ t.open = q.open /\ t.taken = q.taken
        /\ t.cursor = q.cursor /\ t.channel = q.channel
    BY <2>3 DEF Streams
  <2> HIDE DEF t
  <2>5. GoodStream(t, n)
    BY <1>1, <2>2, <2>4 DEF GoodStream
  <2> QED BY <2>1, <2>4, <2>5, StreamsOfOthers
<1> QED BY <1>2, <1>3, <1>4 DEF Service

-----------------------------------------------------------------------------
(* The controller. *)

\* What a call, the session of the panel and a follower rely on.
CallsKnow ==
    \A c \in Calls :
        /\ call[c].id = None <=> call[c].op \in {"none", "create"}
        /\ call[c].id # None => Exists(call[c].id)
        /\ call[c].answer \in Snapshot => Exists(call[c].answer.id)

SessionKnown == session # NoSession => Exists(session.id)

\* What follower f of session s knows stays true while it waits.
Knows(f, s) ==
    /\ f.at # "none" => Exists(s)
    /\ f.at # "gaveUp" => f.failures < MaxFailures
    /\ f.at = "got" => /\ f.status \in Statuses
                       /\ f.status \in Terminal => Status(s) = f.status
    /\ f.at = "install" => Status(s) = "ready"
    /\ f.at = "done" => s \in installed \/ Status(s) \in {"failed", "cancelled"}

FollowersKnow == \A s \in Sessions : Knows(follower[s], s)

HandledIsInstalled == handled # None => handled \in installed

SInv ==
    /\ TypeOK /\ StreamsGood
    /\ CallsKnow /\ SessionKnown /\ FollowersKnow /\ HandledIsInstalled
    /\ AwaitingIsConfirmable

\* The variables of the controller have their types.
StudioTyped ==
    /\ phase \in Phases
    /\ session \in Snapshot \cup {NoSession}
    /\ shown \in Seq(ShownEvents)
    /\ handled \in Sessions \cup {None}
    /\ call \in [Calls -> CallTypes]
    /\ follower \in [Sessions -> Followers]
    /\ installed \subseteq Sessions
    /\ resets \in 0..MaxResets /\ errors \in 0..MaxErrors

LEMMA TypeSplit == TypeOK <=> StreamTypeOK /\ StudioTyped
  BY Zenon DEF TypeOK, StudioTyped

LEMMA Numbers ==
  /\ None \notin Sessions /\ Sessions \subseteq Nat
  /\ MaxFailures \in Nat /\ MaxFailures > 0
  /\ MaxResets \in Nat /\ MaxErrors \in Nat
<1>1. Sessions = 1..MaxSessions /\ MaxSessions \in Nat
  BY AgentStudioAssumption
<1> QED BY <1>1, AgentStudioAssumption DEF None

\* The record sets, without their fields.
LEMMA Records ==
  /\ NoSession \notin Snapshot /\ Pending \notin Snapshot /\ Error \notin Snapshot
  /\ Pending # Error /\ NoCall \in CallTypes /\ NotFollowed \in Followers
  /\ NoSession.status = "none" /\ NoCall.answer = Pending
  /\ NoCall.id = None /\ NoCall.op = "none" /\ NotFollowed.at = "none"
  /\ NotFollowed.failures = 0
<1>1. NoSession.id = None /\ Pending.id = None /\ Error.id = None
  BY DEF NoSession, Pending, Error
<1>2. \A x \in Snapshot : x.id \in Sessions
  BY DEF Snapshot
<1>3. NoSession \notin Snapshot /\ Pending \notin Snapshot /\ Error \notin Snapshot
  BY <1>1, <1>2, Numbers
<1>4. Pending # Error
  <2>1. Pending.status = "pending" /\ Error.status = "error"
    BY DEF Pending, Error
  <2> QED BY <2>1
<1>5. NotFollowed \in Followers
  BY Numbers DEF NotFollowed, Followers
<1>6. NoCall \in CallTypes
  BY DEF CallTypes
<1>7. /\ NoSession.status = "none" /\ NoCall.answer = Pending
      /\ NoCall.id = None /\ NoCall.op = "none" /\ NotFollowed.at = "none"
      /\ NotFollowed.failures = 0
  BY DEF NoSession, NoCall, NotFollowed
<1> QED BY <1>3, <1>4, <1>5, <1>6, <1>7

\* The fields of what is stored.
LEMMA Fields ==
  ASSUME StudioTyped
  PROVE  /\ \A c \in Calls :
               /\ call[c].op \in {"none", "create", "addMessage", "confirm", "cancel"}
               /\ call[c].id \in Sessions \cup {None}
               /\ call[c].answer \in Snapshot \cup {Pending, Error}
         /\ session.status # "none" => session \in Snapshot
         /\ \A x \in Snapshot : x.id \in Sessions /\ x.status \in Statuses
         /\ \A s \in Sessions : /\ follower[s] \in Followers
                                /\ follower[s].failures \in 0..MaxFailures
                                /\ follower[s].after \in Nat
<1>1. ASSUME NEW c \in Calls
      PROVE  /\ call[c].op \in {"none", "create", "addMessage", "confirm", "cancel"}
             /\ call[c].id \in Sessions \cup {None}
             /\ call[c].answer \in Snapshot \cup {Pending, Error}
  <2>1. CASE call[c] = NoCall
    BY <2>1, Records
  <2>2. CASE call[c] # NoCall
    <3> DEFINE answers == Snapshot \cup {Pending, Error}
    <3> HIDE DEF answers
    <3>1. call[c] \in [op : {"create", "addMessage", "confirm", "cancel"},
                       id : Sessions \cup {None}, answer : answers]
      BY <2>2 DEF StudioTyped, CallTypes, answers
    <3>2. call[c].answer \in answers
      BY <3>1
    <3>3. /\ call[c].op \in {"none", "create", "addMessage", "confirm", "cancel"}
          /\ call[c].id \in Sessions \cup {None}
      BY <3>1
    <3> QED BY <3>2, <3>3 DEF answers
  <2> QED BY <2>1, <2>2
<1>2. session.status # "none" => session \in Snapshot
  BY Records DEF StudioTyped
<1>3. \A x \in Snapshot : x.id \in Sessions /\ x.status \in Statuses
  BY DEF Snapshot
<1>4. ASSUME NEW s \in Sessions
      PROVE  /\ follower[s] \in Followers
             /\ follower[s].failures \in 0..MaxFailures
             /\ follower[s].after \in Nat
  BY DEF StudioTyped, Followers
<1> QED BY <1>1, <1>2, <1>3, <1>4

\* The id of the last shown event.
LEMMA LastIdTyped ==
  ASSUME shown \in Seq(ShownEvents)
  PROVE  LastEventId \in Nat
<1>1. CASE shown = <<>>
  BY <1>1 DEF LastEventId
<1>2. CASE shown # <<>>
  <2>1. shown[Len(shown)] \in ShownEvents
    BY <1>2, ElementOfSeq
  <2>2. shown[Len(shown)].id \in Nat
    BY <2>1 DEF ShownEvents
  <2> QED BY <1>2, <2>2 DEF LastEventId
<1> QED BY <1>1, <1>2

\* What was known stays known when the histories are kept.
LEMMA KnowledgeSurvives ==
  ASSUME SInv, HistoryKept
  PROVE  /\ UNCHANGED call => CallsKnow'
         /\ UNCHANGED session => SessionKnown'
         /\ UNCHANGED <<follower, installed>> => FollowersKnow'
         /\ UNCHANGED <<handled, installed>> => HandledIsInstalled'
         /\ UNCHANGED <<phase, session>> => AwaitingIsConfirmable'
<1>1. StudioTyped
  BY TypeSplit DEF SInv
<1>2. \A s \in Sessions : Exists(s) => Exists(s)' /\ (Status(s) \in Terminal => Status(s)' = Status(s))
  BY DEF HistoryKept
<1>3. ASSUME UNCHANGED call
      PROVE  CallsKnow'
  <2> SUFFICES ASSUME NEW c \in Calls
               PROVE  /\ call'[c].id = None <=> call'[c].op \in {"none", "create"}
                      /\ call'[c].id # None => events'[call'[c].id] # <<>>
                      /\ call'[c].answer \in Snapshot => events'[call'[c].answer.id] # <<>>
    BY DEF CallsKnow, Exists
  <2>1. /\ call[c].id = None <=> call[c].op \in {"none", "create"}
        /\ call[c].id # None => events[call[c].id] # <<>>
        /\ call[c].answer \in Snapshot => events[call[c].answer.id] # <<>>
    BY DEF SInv, CallsKnow, Exists
  <2>2. \A x \in Sessions : events[x] # <<>> => events'[x] # <<>>
    BY <1>2 DEF Exists
  <2>3. /\ call[c].id \in Sessions \cup {None}
        /\ call[c].answer \in Snapshot => call[c].answer.id \in Sessions
    BY <1>1, Fields
  <2> QED BY <1>3, <2>1, <2>2, <2>3
<1>4. ASSUME UNCHANGED session
      PROVE  SessionKnown'
  <2>1. session = NoSession \/ (session.id \in Sessions /\ events[session.id] # <<>>)
    BY <1>1, Fields DEF SInv, SessionKnown, Exists, StudioTyped
  <2>2. \A x \in Sessions : events[x] # <<>> => events'[x] # <<>>
    BY <1>2 DEF Exists
  <2> QED BY <1>4, <2>1, <2>2 DEF SessionKnown, Exists
<1>5. ASSUME UNCHANGED <<follower, installed>>, NEW s \in Sessions
      PROVE  Knows(follower[s], s)'
  <2>1. Knows(follower[s], s)
    BY DEF SInv, FollowersKnow
  <2>2. Knows(follower[s], s) => Exists(s) \/ follower[s].at = "none"
    BY DEF Knows
  <2>3. \/ Exists(s)' /\ (Status(s) \in Terminal => Status(s)' = Status(s))
        \/ follower[s].at = "none"
    BY <1>2, <2>1, <2>2
  <2> QED BY <1>5, <2>1, <2>3 DEF Knows, Terminal
<1>6. UNCHANGED <<handled, installed>> => HandledIsInstalled'
  BY DEF SInv, HandledIsInstalled
<1>7. UNCHANGED <<phase, session>> => AwaitingIsConfirmable'
  BY DEF SInv, AwaitingIsConfirmable
<1> QED BY <1>3, <1>4, <1>5, <1>6, <1>7 DEF FollowersKnow

\* A follower goes to where it may.
LEMMA FollowerGoes ==
  ASSUME SInv, HistoryKept, NEW s \in Sessions, NEW f \in Followers,
         follower' = [follower EXCEPT ![s] = f], Knows(f, s)',
         installed \subseteq installed'
  PROVE  follower' \in [Sessions -> Followers] /\ FollowersKnow'
<1>1. follower \in [Sessions -> Followers]
  BY TypeSplit DEF SInv, StudioTyped
<1>2. follower' \in [Sessions -> Followers]
  BY <1>1
<1>3. ASSUME NEW t \in Sessions
      PROVE  Knows(follower[t], t)'
  <2>1. CASE t = s
    BY <1>1, <2>1
  <2>2. CASE t # s
    <3>1. follower'[t] = follower[t] /\ Knows(follower[t], t)
      BY <1>1, <2>2 DEF SInv, FollowersKnow
    <3>2. \/ Exists(t)' /\ (Status(t) \in Terminal => Status(t)' = Status(t))
          \/ follower[t].at = "none"
      BY <3>1 DEF HistoryKept, Knows
    <3> QED BY <3>1, <3>2 DEF Knows, Terminal
  <2> QED BY <2>1, <2>2
<1> QED BY <1>2, <1>3 DEF FollowersKnow

\* The places At sends a follower to.
LEMMA AtTyped ==
  ASSUME StudioTyped, NEW s \in Sessions,
         NEW where \in {"stream", "get", "got", "install", "delay", "done", "connect"}
  PROVE  /\ At(s, where) \in Followers
         /\ At(s, where).at = where
         /\ At(s, where).failures = follower[s].failures
<1>1. follower[s].failures \in 0..MaxFailures
  BY Fields
<1> QED BY <1>1 DEF At, Followers

\* A failure ends the follower, or leaves one more to try.
LEMMA CaughtTyped ==
  ASSUME SInv, NEW s \in Sessions, follower[s].at \notin {"none", "gaveUp"}
  PROVE  /\ Caught(s) \in Followers
         /\ Caught(s).at \in {"delay", "gaveUp"}
         /\ Caught(s).at # "gaveUp" => Caught(s).failures < MaxFailures
<1>1. /\ follower[s].failures \in 0..MaxFailures /\ follower[s].failures < MaxFailures
      /\ MaxFailures \in Nat
  BY TypeSplit, Fields, Numbers DEF SInv, FollowersKnow, Knows
<1> DEFINE n == follower[s].failures
           where == IF n + 1 >= MaxFailures THEN "gaveUp" ELSE "delay"
           f == [at |-> where, failures |-> n, after |-> 0, status |-> "none"]
           g == [f EXCEPT !.failures = n + 1]
<1>2. Caught(s) = g
  BY DEF Caught, At
<1>3. n + 1 \in 0..MaxFailures /\ (where # "gaveUp" => n + 1 < MaxFailures)
  BY <1>1
<1> HIDE DEF n, where
<1>4. g.at = where /\ g.failures = n + 1 /\ g.after = 0 /\ g.status = "none"
  OBVIOUS
<1>5. where \in {"delay", "gaveUp"}
  BY DEF where
<1>6. g \in Followers
  BY <1>3, <1>5 DEF Followers
<1> QED BY <1>2, <1>3, <1>4, <1>5, <1>6

LEMMA Put ==
  ASSUME StreamsGood', StudioTyped', CallsKnow', SessionKnown', FollowersKnow',
         HandledIsInstalled', AwaitingIsConfirmable'
  PROVE  SInv'
BY Zenon DEF SInv, TypeOK, StudioTyped, StreamsGood

\* A step that leaves the streams alone keeps them and the histories.
LEMMA StreamsUnchanged ==
  ASSUME StreamsGood, UNCHANGED streamVars
  PROVE  StreamsGood' /\ HistoryKept
BY DEF StreamsGood, StreamTypeOK, HistoryKept, Exists, Status, streamVars

\* The user, and the service beside the calls.
LEMMA UserKeeps ==
  ASSUME SInv, StartFromVersion \/ \E c \in Calls : User(c)
  PROVE  SInv'
<1>1. StudioTyped /\ StreamsGood
  BY TypeSplit DEF SInv
<1>2. UNCHANGED streamVars
  BY DEF StartFromVersion, User, Submit, Confirm, Cancel, Request, streamVars
<1>3. StreamsGood' /\ HistoryKept
  BY <1>1, <1>2, StreamsUnchanged
<1>4. CASE StartFromVersion
  <2>1. StudioTyped'
    <3>1. <<>> \in Seq(ShownEvents)
      OBVIOUS
    <3>2. resets' \in 0..MaxResets
      BY <1>1, <1>4, Numbers DEF StudioTyped, StartFromVersion
    <3> QED BY <1>1, <1>4, <3>1, <3>2 DEF StudioTyped, StartFromVersion, Reset, Phases
  <2>2. SessionKnown' /\ HandledIsInstalled' /\ AwaitingIsConfirmable'
    BY <1>4 DEF StartFromVersion, Reset, SessionKnown, HandledIsInstalled, AwaitingIsConfirmable
  <2>3. CallsKnow' /\ FollowersKnow'
    BY <1>3, <1>4, KnowledgeSurvives DEF StartFromVersion
  <2> QED BY <1>3, <2>1, <2>2, <2>3, Put
<1>5. ASSUME NEW c \in Calls, User(c)
      PROVE  SInv'
  <2>1. PICK op \in {"create", "addMessage", "confirm", "cancel"}, id \in Sessions \cup {None} :
            /\ Request(c, op, id)
            /\ id = None <=> op = "create"
            /\ id # None => Exists(id)
    <3>1. CASE Submit(c)
      <4>1. CASE session.status # "awaiting_confirmation"
        BY <3>1, <4>1 DEF Submit
      <4>2. CASE session.status = "awaiting_confirmation"
        <5>1. session.id \in Sessions /\ Exists(session.id) /\ session.id # None
          BY <1>1, <4>2, Fields, Records, Numbers DEF SInv, SessionKnown
        <5> QED BY <3>1, <4>2, <5>1 DEF Submit
      <4> QED BY <4>1, <4>2
    <3>2. CASE Confirm(c)
      <4>1. session.id \in Sessions /\ Exists(session.id) /\ session.id # None
        BY <1>1, <3>2, Fields, Records, Numbers DEF SInv, SessionKnown, Confirm
      <4> QED BY <3>2, <4>1 DEF Confirm
    <3>3. CASE Cancel(c)
      <4>1. session.id \in Sessions /\ Exists(session.id) /\ session.id # None
        BY <1>1, <3>3, Fields, Records, Numbers DEF SInv, SessionKnown, Cancel, StudioTyped
      <4> QED BY <3>3, <4>1 DEF Cancel
    <3> QED BY <1>5, <3>1, <3>2, <3>3 DEF User
  <2> DEFINE new == [op |-> op, id |-> id, answer |-> Pending]
  <2>2. /\ new \in CallTypes /\ new.op = op /\ new.id = id /\ new.answer = Pending
    BY DEF CallTypes
  <2>3. call' = [call EXCEPT ![c] = new]
    BY <2>1 DEF Request
  <2> HIDE DEF new
  <2>4. /\ call' \in [Calls -> CallTypes] /\ call'[c] = new
        /\ \A d \in Calls \ {c} : call'[d] = call[d]
    BY <1>1, <2>2, <2>3 DEF StudioTyped
  <2>5. /\ phase' = "submitting" \/ phase' = phase
        /\ UNCHANGED <<events, session, shown, handled, follower, installed, resets, errors>>
    BY <1>5, <2>1 DEF User, Submit, Confirm, Cancel, Request
  <2>6. StudioTyped'
    BY <1>1, <2>4, <2>5 DEF StudioTyped, Phases
  <2>7. CallsKnow'
    <3>1. ASSUME NEW d \in Calls
          PROVE  /\ call'[d].id = None <=> call'[d].op \in {"none", "create"}
                 /\ call'[d].id # None => events[call'[d].id] # <<>>
                 /\ call'[d].answer \in Snapshot => events[call'[d].answer.id] # <<>>
      <4>1. CASE d = c
        BY <2>1, <2>2, <2>4, <4>1, Records DEF Exists
      <4>2. CASE d # c
        BY <2>4, <4>2 DEF SInv, CallsKnow, Exists
      <4> QED BY <4>1, <4>2
    <3> QED BY <2>5, <3>1 DEF CallsKnow, Exists
  <2>8. SessionKnown' /\ FollowersKnow' /\ HandledIsInstalled'
    BY <1>3, <2>5, KnowledgeSurvives
  <2>9. AwaitingIsConfirmable'
    BY <2>5 DEF SInv, AwaitingIsConfirmable
  <2> QED BY <1>3, <2>6, <2>7, <2>8, <2>9, Put
<1> QED BY <1>4, <1>5

LEMMA ServiceKeeps ==
  ASSUME SInv, NEW s \in Sessions, Service(s)
  PROVE  SInv'
<1>1. StudioTyped /\ StreamsGood
  BY TypeSplit DEF SInv
<1>2. StreamsGood' /\ HistoryKept
  BY <1>1, ServiceGood
<1>3. UNCHANGED studioVars
  BY DEF Service
<1>4. StudioTyped'
  BY <1>1, <1>3 DEF StudioTyped, studioVars
<1>5. /\ CallsKnow' /\ SessionKnown' /\ FollowersKnow' /\ HandledIsInstalled'
      /\ AwaitingIsConfirmable'
  BY <1>2, <1>3, KnowledgeSurvives DEF studioVars
<1> QED BY <1>2, <1>4, <1>5, Put

-----------------------------------------------------------------------------
(* The answers to calls. *)

\* A call gets an answer that is a session there is, or an error.
LEMMA AnswerKeeps ==
  ASSUME SInv, StreamsGood', HistoryKept, NEW c \in Calls,
         NEW answer \in Snapshot \cup {Error}, call[c] # NoCall,
         answer \in Snapshot => Exists(answer.id)',
         Answered(c, answer), errors' \in 0..MaxErrors
  PROVE  SInv'
<1>1. StudioTyped
  BY TypeSplit DEF SInv
<1> DEFINE answers == Snapshot \cup {Pending, Error}
           ops == {"create", "addMessage", "confirm", "cancel"}
           ids == Sessions \cup {None}
           new == [call[c] EXCEPT !.answer = answer]
<1>2. answer \in answers
  OBVIOUS
<1>3. CallTypes = {NoCall} \cup [op : ops, id : ids, answer : answers]
  BY DEF CallTypes
<1> HIDE DEF answers, ops, ids
<1>4. call[c] \in [op : ops, id : ids, answer : answers]
  BY <1>1, <1>3 DEF StudioTyped
<1>5. /\ new \in [op : ops, id : ids, answer : answers]
      /\ new.op = call[c].op /\ new.id = call[c].id /\ new.answer = answer
  BY <1>2, <1>4
<1>6. call' = [call EXCEPT ![c] = new] /\ call \in [Calls -> CallTypes]
  BY <1>1 DEF Answered, StudioTyped
<1> HIDE DEF new
<1>7. /\ call' \in [Calls -> CallTypes] /\ call'[c] = new
      /\ \A d \in Calls \ {c} : call'[d] = call[d]
  BY <1>3, <1>5, <1>6
<1>8. StudioTyped'
  BY <1>1, <1>7 DEF StudioTyped, Answered
<1>9. CallsKnow'
  <2> SUFFICES ASSUME NEW d \in Calls
               PROVE  /\ call'[d].id = None <=> call'[d].op \in {"none", "create"}
                      /\ call'[d].id # None => events'[call'[d].id] # <<>>
                      /\ call'[d].answer \in Snapshot => events'[call'[d].answer.id] # <<>>
    BY DEF CallsKnow, Exists
  <2>1. \A x \in Sessions : events[x] # <<>> => events'[x] # <<>>
    BY DEF HistoryKept, Exists
  <2>2. /\ call[d].id = None <=> call[d].op \in {"none", "create"}
        /\ call[d].id # None => events[call[d].id] # <<>>
        /\ call[d].answer \in Snapshot => events[call[d].answer.id] # <<>>
    BY DEF SInv, CallsKnow, Exists
  <2>3. /\ call[d].id \in Sessions \cup {None}
        /\ call[d].answer \in Snapshot => call[d].answer.id \in Sessions
    BY <1>1, Fields
  <2>4. CASE d = c
    BY <1>5, <1>7, <2>1, <2>2, <2>3, <2>4 DEF Exists
  <2>5. CASE d # c
    BY <1>7, <2>1, <2>2, <2>3, <2>5
  <2> QED BY <2>4, <2>5
<1>10. /\ SessionKnown' /\ FollowersKnow' /\ HandledIsInstalled' /\ AwaitingIsConfirmable'
  BY KnowledgeSurvives DEF Answered
<1> QED BY <1>8, <1>9, <1>10, Put

LEMMA SnapshotFields ==
  \A s \in Sessions, status \in Statuses :
      [id |-> s, status |-> status] \in Snapshot /\ [id |-> s, status |-> status].id = s
BY DEF Snapshot

LEMMA ServeKeeps ==
  ASSUME SInv, NEW c \in Calls, ServeCreate(c) \/ Serve(c) \/ LoseCall(c)
  PROVE  SInv'
<1>1. StudioTyped /\ StreamsGood /\ StreamTypeOK
  BY TypeSplit DEF SInv
<1>2. CASE ServeCreate(c)
  <2>1. PICK s \in Sessions : /\ call[c].op = "create" /\ ~Exists(s)
                              /\ Write(s, "requirements")
                              /\ Answered(c, [id |-> s, status |-> "awaiting_confirmation"])
                              /\ UNCHANGED errors
    BY <1>2 DEF ServeCreate
  <2>2. "requirements" \in Stages
    BY DEF Stages
  <2>3. StreamsGood' /\ HistoryKept /\ Exists(s)'
    BY <1>1, <2>1, <2>2, WriteGood
  <2>4. PICK answer \in Snapshot : /\ answer = [id |-> s, status |-> "awaiting_confirmation"]
                                   /\ answer.id = s
    <3>1. "awaiting_confirmation" \in Statuses
      BY DEF Statuses, Stages
    <3> QED BY <3>1, SnapshotFields
  <2>5. call[c] # NoCall /\ errors' \in 0..MaxErrors
    BY <1>1, <2>1, Records DEF StudioTyped
  <2>6. Exists(answer.id)'
    BY <2>3, <2>4
  <2>7. Answered(c, answer)
    BY <2>1, <2>4
  <2> QED BY <2>3, <2>5, <2>6, <2>7, AnswerKeeps
<1>3. CASE Serve(c)
  <2>1. call[c].id \in Sessions /\ call[c].op \in {"addMessage", "confirm", "cancel"}
        /\ Exists(call[c].id)
    BY <1>1, <1>3, Fields DEF Serve, SInv, CallsKnow
  <2>2. PICK s \in Sessions : s = call[c].id
    BY <2>1
  <2>3. Exists(s) /\ Status(s) \in Statuses
    BY <1>1, <2>1, <2>2, StatusTyped
  <2>4. call[c] # NoCall /\ errors' \in 0..MaxErrors
    BY <1>1, <1>3, <2>1, Records DEF StudioTyped, Serve
  <2>5. CASE Allows(call[c].op, Status(s))
    <3>1. Status(s) \notin Terminal
      BY <2>5 DEF Allows, Terminal
    <3>2. PICK stage \in Stages \cap Statuses : stage = StageOf(call[c].op)
      BY <2>1 DEF StageOf, Stages, Statuses
    <3>3. Write(s, stage) /\ Answered(c, [id |-> s, status |-> stage])
      BY <1>3, <2>2, <2>5, <3>2 DEF Serve
    <3>4. StreamsGood' /\ HistoryKept /\ Exists(s)'
      BY <1>1, <3>1, <3>3, WriteGood
    <3>5. PICK answer \in Snapshot : answer = [id |-> s, status |-> stage] /\ answer.id = s
      BY <3>2, SnapshotFields
    <3>6. Exists(answer.id)' /\ Answered(c, answer)
      BY <3>3, <3>4, <3>5
    <3> QED BY <2>4, <3>4, <3>6, AnswerKeeps
  <2>6. CASE ~Allows(call[c].op, Status(s))
    <3>1. UNCHANGED streamVars
      BY <1>3, <2>2, <2>6 DEF Serve
    <3>2. StreamsGood' /\ HistoryKept /\ Exists(s)'
      BY <1>1, <2>3, <3>1, StreamsUnchanged DEF HistoryKept
    <3>3. PICK now \in Snapshot : now = Current(s) /\ now.id = s
      BY <2>3, SnapshotFields DEF Current
    <3>4. PICK answer \in {now, Error} : Answered(c, answer)
      BY <1>3, <2>2, <2>6, <3>3 DEF Serve
    <3>5. answer \in Snapshot => Exists(answer.id)'
      BY <3>2, <3>3, <3>4, Records
    <3> QED BY <2>4, <3>2, <3>4, <3>5, AnswerKeeps
  <2> QED BY <2>5, <2>6
<1>4. CASE LoseCall(c)
  <2>1. StreamsGood' /\ HistoryKept
    BY <1>1, <1>4, StreamsUnchanged DEF LoseCall
  <2>2. errors' \in 0..MaxErrors
    BY <1>1, <1>4, Numbers DEF LoseCall, CountError, StudioTyped
  <2>3. call[c] # NoCall /\ Answered(c, Error) /\ Error \notin Snapshot
    BY <1>4, Records DEF LoseCall
  <2>4. PICK answer \in {Error} : Answered(c, answer) /\ answer \notin Snapshot
    BY <2>3
  <2> QED BY <2>1, <2>2, <2>3, <2>4, AnswerKeeps
<1> QED BY <1>2, <1>3, <1>4

\* The call is over.
LEMMA CallEnds ==
  ASSUME SInv, HistoryKept, NEW c \in Calls, call' = [call EXCEPT ![c] = NoCall]
  PROVE  call' \in [Calls -> CallTypes] /\ CallsKnow'
<1>1. StudioTyped
  BY TypeSplit DEF SInv
<1>2. /\ call' \in [Calls -> CallTypes] /\ call'[c] = NoCall
      /\ \A d \in Calls \ {c} : call'[d] = call[d]
  BY <1>1, Records DEF StudioTyped
<1>3. ASSUME NEW d \in Calls
      PROVE  /\ call'[d].id = None <=> call'[d].op \in {"none", "create"}
             /\ call'[d].id # None => events'[call'[d].id] # <<>>
             /\ call'[d].answer \in Snapshot => events'[call'[d].answer.id] # <<>>
  <2>1. \A x \in Sessions : events[x] # <<>> => events'[x] # <<>>
    BY DEF HistoryKept, Exists
  <2>2. /\ call[d].id = None <=> call[d].op \in {"none", "create"}
        /\ call[d].id # None => events[call[d].id] # <<>>
        /\ call[d].answer \in Snapshot => events[call[d].answer.id] # <<>>
    BY DEF SInv, CallsKnow, Exists
  <2>3. /\ call[d].id \in Sessions \cup {None}
        /\ call[d].answer \in Snapshot => call[d].answer.id \in Sessions
    BY <1>1, Fields
  <2>4. CASE d = c
    BY <1>2, <2>4, Records
  <2>5. CASE d # c
    BY <1>2, <2>1, <2>2, <2>3, <2>5
  <2> QED BY <2>4, <2>5
<1> QED BY <1>2, <1>3 DEF CallsKnow, Exists

LEMMA ReceiveKeeps ==
  ASSUME SInv, NEW c \in Calls, Receive(c) \/ CaptureError(c)
  PROVE  SInv'
<1>1. StudioTyped /\ StreamsGood
  BY TypeSplit DEF SInv
<1>2. StreamsGood' /\ HistoryKept
  <2>1. UNCHANGED streamVars
    BY DEF Receive, CaptureError, streamVars
  <2> QED BY <1>1, <2>1, StreamsUnchanged
<1>3. call' \in [Calls -> CallTypes] /\ CallsKnow'
  BY <1>2, CallEnds DEF Receive, CaptureError
<1>4. CASE Receive(c)
  <2>1. PICK x \in Snapshot : x = call[c].answer
    BY <1>4 DEF Receive
  <2>2. x.id \in Sessions /\ x.status \in Statuses /\ Exists(x.id)
    BY <1>1, <2>1, Fields DEF SInv, CallsKnow
  <2>3. session' = x /\ phase' = x.status /\ x.status \in Phases
    BY <1>4, <2>1, <2>2 DEF Receive, Statuses, Stages, Phases
  <2>4. SessionKnown' /\ AwaitingIsConfirmable'
    BY <1>2, <2>2, <2>3 DEF SessionKnown, AwaitingIsConfirmable, HistoryKept, Exists
  <2>5. follower' \in [Sessions -> Followers] /\ FollowersKnow'
    <3>1. CASE call[c].op = "confirm"
      <4>1. PICK s \in Sessions : s = call[c].id /\ Exists(s)
        BY <1>1, <3>1, Fields DEF SInv, CallsKnow
      <4>2. LastEventId \in Nat
        BY <1>1, LastIdTyped DEF StudioTyped
      <4>3. PICK f \in Followers : f = Following(s) /\ f.at = "connect" /\ f.failures = 0
        <5>1. /\ Following(s) \in Followers /\ Following(s).at = "connect"
              /\ Following(s).failures = 0
          BY <4>2, Numbers DEF Following, Followers
        <5> QED BY <5>1
      <4>4. follower' = [follower EXCEPT ![s] = f] /\ installed' = installed
        BY <1>4, <3>1, <4>1, <4>3 DEF Receive
      <4>5. Knows(f, s)'
        BY <1>2, <4>1, <4>3, Numbers DEF Knows, HistoryKept
      <4> QED BY <1>2, <4>4, <4>5, FollowerGoes
    <3>2. CASE call[c].op # "confirm"
      BY <1>1, <1>2, <1>4, <3>2, KnowledgeSurvives DEF Receive, StudioTyped
    <3> QED BY <3>1, <3>2
  <2>6. HandledIsInstalled'
    BY <1>2, <1>4, KnowledgeSurvives DEF Receive
  <2>7. StudioTyped'
    BY <1>1, <1>3, <1>4, <2>3, <2>5 DEF StudioTyped, Receive
  <2> QED BY <1>2, <1>3, <2>4, <2>5, <2>6, <2>7, Put
<1>5. CASE CaptureError(c)
  <2>1. StudioTyped'
    BY <1>1, <1>3, <1>5 DEF StudioTyped, CaptureError, Phases
  <2>2. SessionKnown' /\ FollowersKnow' /\ HandledIsInstalled'
    BY <1>2, <1>5, KnowledgeSurvives DEF CaptureError
  <2>3. AwaitingIsConfirmable'
    BY <1>5 DEF AwaitingIsConfirmable, CaptureError
  <2> QED BY <1>2, <1>3, <2>1, <2>2, <2>3, Put
<1> QED BY <1>4, <1>5

-----------------------------------------------------------------------------
(* The loop of a follower. *)

\* A round that goes on, and what it leaves alone.
LEMMA RoundKeeps ==
  ASSUME SInv, StreamsGood', HistoryKept, NEW s \in Sessions, NEW f \in Followers,
         follower' = [follower EXCEPT ![s] = f], Knows(f, s)',
         phase' \in Phases, session' \in Snapshot \cup {NoSession}, SessionKnown',
         AwaitingIsConfirmable', shown' = shown, call' = call, resets' = resets,
         errors' \in 0..MaxErrors,
         \/ handled' = handled /\ installed' = installed
         \/ handled' = s /\ installed' = installed \cup {s}
  PROVE  SInv'
<1>1. StudioTyped
  BY TypeSplit DEF SInv
<1>2. installed \subseteq installed' /\ installed' \subseteq Sessions
      /\ handled' \in Sessions \cup {None}
  BY <1>1 DEF StudioTyped
<1>3. follower' \in [Sessions -> Followers] /\ FollowersKnow'
  BY <1>2, FollowerGoes
<1>4. StudioTyped'
  BY <1>1, <1>2, <1>3 DEF StudioTyped
<1>5. CallsKnow'
  BY KnowledgeSurvives
<1>6. HandledIsInstalled'
  BY DEF HandledIsInstalled, SInv
<1> QED BY <1>3, <1>4, <1>5, <1>6, Put

\* A failure of the loop.
LEMMA FailKeeps ==
  ASSUME SInv, StreamsGood', HistoryKept, NEW s \in Sessions,
         follower[s].at \notin {"none", "gaveUp"}, Fail(s),
         UNCHANGED <<session, shown, call, resets>>, errors' \in 0..MaxErrors,
         \/ handled' = handled /\ installed' = installed
         \/ handled' = s /\ installed' = installed \cup {s}
  PROVE  SInv'
<1>1. StudioTyped
  BY TypeSplit DEF SInv
<1>2. PICK f \in Followers : /\ f = Caught(s) /\ f.at \in {"delay", "gaveUp"}
                             /\ f.at # "gaveUp" => f.failures < MaxFailures
  BY CaughtTyped
<1>3. follower' = [follower EXCEPT ![s] = f]
  BY <1>2 DEF Fail
<1>4. Knows(f, s)'
  BY <1>2 DEF Knows, SInv, FollowersKnow, HistoryKept
<1>5. phase' \in Phases /\ AwaitingIsConfirmable'
  BY <1>1 DEF Fail, StudioTyped, Phases, SInv, AwaitingIsConfirmable
<1>6. session' \in Snapshot \cup {NoSession} /\ SessionKnown'
  BY <1>1, KnowledgeSurvives DEF StudioTyped
<1> QED BY <1>3, <1>4, <1>5, <1>6, RoundKeeps

\* The status a round has found decides how the loop goes on.
LEMMA DecideKnows ==
  ASSUME SInv, StreamsGood', HistoryKept, NEW s \in Sessions, NEW status \in Statuses,
         follower[s].at \notin {"none", "gaveUp"}, Decide(s, status),
         status \in Terminal =>
            s \in installed' \/ Status(s)' \in {"failed", "cancelled"}
  PROVE  \E f \in Followers : follower' = [follower EXCEPT ![s] = f] /\ Knows(f, s)'
<1>1. StudioTyped /\ Exists(s)' /\ follower[s].failures < MaxFailures
  BY TypeSplit DEF SInv, FollowersKnow, Knows, HistoryKept
<1>2. CASE status \in Terminal
  <2>1. PICK f \in Followers : /\ f = At(s, "done") /\ f.at = "done"
                               /\ f.failures = follower[s].failures
    BY <1>1, AtTyped
  <2>2. follower' = [follower EXCEPT ![s] = f]
    BY <1>2, <2>1 DEF Decide
  <2>3. Knows(f, s)'
    BY <1>1, <1>2, <2>1 DEF Knows
  <2> QED BY <2>2, <2>3
<1>3. CASE status \notin Terminal
  <2>1. PICK g \in Followers : g = At(s, "delay") /\ g.at = "delay"
    BY <1>1, AtTyped
  <2>2. PICK f \in Followers : f = [g EXCEPT !.failures = 0] /\ f.at = "delay" /\ f.failures = 0
    <3> DEFINE h == [g EXCEPT !.failures = 0]
    <3>1. h \in Followers /\ h.at = "delay" /\ h.failures = 0
      BY <2>1, Numbers DEF Followers
    <3> QED BY <3>1
  <2>3. follower' = [follower EXCEPT ![s] = f]
    BY <1>3, <2>1, <2>2 DEF Decide
  <2>4. Knows(f, s)'
    BY <1>1, <2>2, Numbers DEF Knows
  <2> QED BY <2>3, <2>4
<1> QED BY <1>2, <1>3

\* The stream of s is opened, read and closed.
LEMMA StreamStepsGood ==
  ASSUME SInv, NEW s \in Sessions,
         \/ SubscribeEvents(s, follower[s].after)
         \/ Take(s)
         \/ Unsubscribe(s)
  PROVE  StreamsGood' /\ HistoryKept
<1>1. StudioTyped /\ StreamsGood /\ StreamTypeOK
  BY TypeSplit DEF SInv
<1>2. /\ stream \in [Sessions -> Streams] /\ events \in [Sessions -> Seq(Stages)]
      /\ GoodStream(stream[s], Len(events[s])) /\ stream[s] \in Streams
      /\ Len(events[s]) \in Nat
  BY <1>1 DEF StreamsGood, StreamTypeOK
<1>3. CASE SubscribeEvents(s, follower[s].after)
  <2>1. PICK after \in Nat : after = follower[s].after
    BY <1>1, Fields
  <2>2. GoodStream(OpenAt(after), Len(events[s])) /\ OpenAt(after) \in Streams
    BY <1>2, OpenedGood
  <2>3. Len(events[s]) <= Len(events[s])
    BY <1>2
  <2>4. GoodStream(Subscribed(s, after), Len(events[s]))
    BY <1>2, <2>2, <2>3, PublishedGood DEF Subscribed
  <2>5. Subscribed(s, after) \in Streams
    BY <2>4 DEF GoodStream
  <2>6. stream' = [stream EXCEPT ![s] = Subscribed(s, after)] /\ UNCHANGED events
    BY <1>3, <2>1 DEF SubscribeEvents
  <2> QED BY <1>1, <2>4, <2>5, <2>6, StreamsOfOthers
<1>4. CASE Take(s)
  <2>1. GoodStream(Taken(stream[s]), Len(events[s]))
    BY <1>2, <1>4, TakenGood DEF Take
  <2>2. Taken(stream[s]) \in Streams
    BY <2>1 DEF GoodStream
  <2>3. stream' = [stream EXCEPT ![s] = Taken(stream[s])] /\ UNCHANGED events
    BY <1>4 DEF Take
  <2> QED BY <1>1, <2>1, <2>2, <2>3, StreamsOfOthers
<1>5. CASE Unsubscribe(s)
  <2>1. GoodStream(NoStream, Len(events[s])) /\ NoStream \in Streams
    BY <1>2, OpenedGood DEF GoodStream
  <2> QED BY <1>1, <1>5, <2>1, StreamsOfOthers DEF Unsubscribe
<1> QED BY <1>3, <1>4, <1>5

\* The steps between connecting and the end of the stream.
LEMMA StreamingKeeps ==
  ASSUME SInv, NEW s \in Sessions, Connect(s) \/ TakeEvent(s) \/ EndOfStream(s)
  PROVE  SInv'
<1>1. StudioTyped /\ StreamsGood /\ StreamTypeOK
  BY TypeSplit DEF SInv
<1>2. StreamsGood' /\ HistoryKept
  BY StreamStepsGood DEF Connect, TakeEvent, EndOfStream
<1>3. /\ follower[s].at \notin {"none", "gaveUp"} /\ Exists(s)'
      /\ follower[s].failures < MaxFailures
  BY <1>2 DEF Connect, TakeEvent, EndOfStream, SInv, FollowersKnow, Knows, HistoryKept
<1>4. ASSUME NEW where \in {"stream", "get"}, GoTo(s, where),
             UNCHANGED <<phase, session, shown, handled, installed, call, resets, errors>>
      PROVE  SInv'
  <2>1. PICK f \in Followers : f = At(s, where) /\ f.at = where /\ f.failures = follower[s].failures
    BY <1>1, AtTyped
  <2>2. follower' = [follower EXCEPT ![s] = f]
    BY <1>4, <2>1 DEF GoTo
  <2>3. Knows(f, s)'
    BY <1>3, <2>1 DEF Knows
  <2>4. /\ phase' \in Phases /\ session' \in Snapshot \cup {NoSession} /\ errors' \in 0..MaxErrors
        /\ SessionKnown' /\ AwaitingIsConfirmable'
    BY <1>1, <1>2, <1>4, KnowledgeSurvives DEF StudioTyped
  <2> QED BY <1>2, <1>4, <2>2, <2>3, <2>4, RoundKeeps
<1>5. CASE Connect(s)
  BY <1>4, <1>5 DEF Connect, FollowUnchanged
<1>6. CASE EndOfStream(s)
  BY <1>4, <1>6 DEF EndOfStream, FollowUnchanged
<1>7. CASE TakeEvent(s)
  <2>1. PICK id \in Nat : id = Head(stream[s].channel) /\ id \in 1..Len(events[s])
    <3>1. /\ GoodStream(stream[s], Len(events[s])) /\ stream[s] \in Streams
          /\ stream[s].channel # <<>> /\ Len(events[s]) \in Nat
      BY <1>1, <1>7 DEF StreamsGood, StreamTypeOK, TakeEvent, Take
    <3>2. Head(stream[s].channel) \in 1..Len(events[s])
      BY <3>1, TakenGood
    <3> QED BY <3>1, <3>2
  <2>2. events[s][id] \in Stages
    BY <1>1, <2>1, ElementOfSeq DEF StreamTypeOK
  <2>3. PhaseForStage(events[s][id]) \in Phases \ {"awaiting_confirmation"}
    BY <2>2 DEF PhaseForStage, Stages, Phases
  <2>4. phase' = phase \/ phase' = PhaseForStage(events[s][id])
    BY <1>7, <2>1 DEF TakeEvent
  <2>5. shown' \in Seq(ShownEvents)
    <3>1. [session |-> s, id |-> id] \in ShownEvents
      BY <2>1 DEF ShownEvents
    <3>2. shown' = shown \/ shown' = Append(shown, [session |-> s, id |-> id])
      BY <1>7, <2>1 DEF TakeEvent
    <3>3. Append(shown, [session |-> s, id |-> id]) \in Seq(ShownEvents)
      BY <1>1, <3>1, AppendProperties DEF StudioTyped
    <3> QED BY <1>1, <3>2, <3>3 DEF StudioTyped
  <2>6. UNCHANGED <<session, handled, follower, installed, call, resets, errors>>
    BY <1>7 DEF TakeEvent, FollowUnchanged
  <2>7. StudioTyped'
    BY <1>1, <2>3, <2>4, <2>5, <2>6 DEF StudioTyped
  <2>8. CallsKnow' /\ SessionKnown' /\ FollowersKnow' /\ HandledIsInstalled'
    BY <1>2, <2>6, KnowledgeSurvives
  <2>9. AwaitingIsConfirmable'
    BY <2>3, <2>4, <2>6 DEF SInv, AwaitingIsConfirmable
  <2> QED BY <1>2, <2>7, <2>8, <2>9, Put
<1> QED BY <1>5, <1>6, <1>7

\* The steps from the request for the session to the delay before the next round.
LEMMA RoundsKeep ==
  ASSUME SInv, NEW s \in Sessions,
         \/ Break(s) \/ ServeGet(s) \/ Got(s) \/ InstallDone(s) \/ InstallFails(s) \/ DelayOver(s)
  PROVE  SInv'
<1>1. StudioTyped /\ StreamsGood /\ StreamTypeOK
  BY TypeSplit DEF SInv
<1>2. StreamsGood' /\ HistoryKept
  <2>1. CASE Break(s)
    BY <2>1, StreamStepsGood DEF Break
  <2>2. CASE ~Break(s)
    <3>1. UNCHANGED streamVars
      BY <2>2 DEF ServeGet, Got, InstallDone, InstallFails, DelayOver, streamVars
    <3> QED BY <1>1, <3>1, StreamsUnchanged
  <2> QED BY <2>1, <2>2
<1>3. /\ follower[s].at \notin {"none", "gaveUp"} /\ Exists(s) /\ Exists(s)'
      /\ follower[s].failures < MaxFailures
      /\ Status(s) \in Terminal => Status(s)' = Status(s)
  BY <1>2 DEF Break, ServeGet, Got, InstallDone, InstallFails, DelayOver, SInv, FollowersKnow,
              Knows, HistoryKept
<1>4. CASE Break(s) \/ InstallFails(s)
  <2>1. errors' \in 0..MaxErrors
    BY <1>1, <1>4, Numbers DEF Break, InstallFails, CountError, StudioTyped
  <2>2. /\ Fail(s) /\ UNCHANGED <<session, shown, call, resets>>
        /\ handled' = handled /\ installed' = installed
    BY <1>4 DEF Break, InstallFails
  <2> QED BY <1>2, <1>3, <2>1, <2>2, FailKeeps
<1>5. CASE ServeGet(s)
  <2>1. PICK status \in Statuses : status = Status(s)
    BY <1>1, <1>3, StatusTyped
  <2>2. PICK g \in Followers : g = At(s, "got") /\ g.at = "got" /\ g.failures = follower[s].failures
    BY <1>1, AtTyped
  <2>3. PICK f \in Followers : /\ f = [g EXCEPT !.status = status] /\ f.at = "got"
                               /\ f.failures = follower[s].failures /\ f.status = status
    <3> DEFINE h == [g EXCEPT !.status = status]
    <3>1. h \in Followers /\ h.at = "got" /\ h.failures = follower[s].failures /\ h.status = status
      BY <2>2 DEF Followers
    <3> QED BY <3>1
  <2>4. follower' = [follower EXCEPT ![s] = f]
    BY <1>5, <2>1, <2>2, <2>3 DEF ServeGet
  <2>5. Knows(f, s)'
    BY <1>3, <2>1, <2>3 DEF Knows
  <2>6. UNCHANGED <<phase, session, shown, handled, installed, call, resets, errors>>
    BY <1>5 DEF ServeGet, FollowUnchanged
  <2>7. /\ phase' \in Phases /\ session' \in Snapshot \cup {NoSession} /\ errors' \in 0..MaxErrors
        /\ SessionKnown' /\ AwaitingIsConfirmable'
    BY <1>1, <1>2, <2>6, KnowledgeSurvives DEF StudioTyped
  <2> QED BY <1>2, <2>4, <2>5, <2>6, <2>7, RoundKeeps
<1>6. CASE DelayOver(s)
  <2>1. PICK after \in Nat : after = LastEventId
    BY <1>1, LastIdTyped DEF StudioTyped
  <2>2. PICK g \in Followers : /\ g = At(s, "connect") /\ g.at = "connect"
                               /\ g.failures = follower[s].failures
    BY <1>1, AtTyped
  <2>3. PICK f \in Followers : /\ f = [g EXCEPT !.after = after] /\ f.at = "connect"
                               /\ f.failures = follower[s].failures
    <3> DEFINE h == [g EXCEPT !.after = after]
    <3>1. h \in Followers /\ h.at = "connect" /\ h.failures = follower[s].failures
      BY <2>2 DEF Followers
    <3> QED BY <3>1
  <2>4. follower' = [follower EXCEPT ![s] = f]
    BY <1>6, <2>1, <2>2, <2>3 DEF DelayOver
  <2>5. Knows(f, s)'
    BY <1>3, <2>3 DEF Knows
  <2>6. UNCHANGED <<phase, session, shown, handled, installed, call, resets, errors>>
    BY <1>6 DEF DelayOver, FollowUnchanged
  <2>7. /\ phase' \in Phases /\ session' \in Snapshot \cup {NoSession} /\ errors' \in 0..MaxErrors
        /\ SessionKnown' /\ AwaitingIsConfirmable'
    BY <1>1, <1>2, <2>6, KnowledgeSurvives DEF StudioTyped
  <2> QED BY <1>2, <2>4, <2>5, <2>6, <2>7, RoundKeeps
<1>7. CASE Got(s)
  <2>1. PICK status \in Statuses : /\ status = follower[s].status
                                   /\ status \in Terminal => Status(s) = status
    BY <1>7 DEF Got, SInv, FollowersKnow, Knows
  <2>2. PICK x \in Snapshot : x = [id |-> s, status |-> status] /\ x.id = s
    BY SnapshotFields
  <2>3. /\ session' = x /\ phase' = status /\ x.status = status
        /\ UNCHANGED <<shown, handled, installed, call, resets, errors>>
    BY <1>7, <2>1, <2>2 DEF Got, FollowUnchanged
  <2>4. SessionKnown' /\ AwaitingIsConfirmable' /\ phase' \in Phases
    BY <1>3, <2>2, <2>3 DEF SessionKnown, AwaitingIsConfirmable, Statuses, Stages, Phases, Exists
  <2>5. PICK f \in Followers : follower' = [follower EXCEPT ![s] = f] /\ Knows(f, s)'
    <3>1. CASE status = "ready" /\ handled # s
      <4>1. PICK f \in Followers : /\ f = At(s, "install") /\ f.at = "install"
                                   /\ f.failures = follower[s].failures
        BY <1>1, AtTyped
      <4>2. follower' = [follower EXCEPT ![s] = f]
        BY <1>7, <2>1, <3>1, <4>1 DEF Got, GoTo
      <4>3. Status(s)' = "ready"
        BY <1>3, <2>1, <3>1 DEF Terminal
      <4>4. Knows(f, s)'
        BY <1>3, <4>1, <4>3 DEF Knows
      <4> QED BY <4>2, <4>4
    <3>2. CASE ~(status = "ready" /\ handled # s)
      <4>1. Decide(s, status)
        BY <1>7, <2>1, <3>2 DEF Got
      <4>2. status \in Terminal => s \in installed' \/ Status(s)' \in {"failed", "cancelled"}
        BY <1>3, <2>1, <2>3, <3>2, Numbers DEF Terminal, SInv, HandledIsInstalled
      <4> QED BY <1>2, <1>3, <4>1, <4>2, DecideKnows
    <3> QED BY <3>1, <3>2
  <2>6. errors' \in 0..MaxErrors /\ session' \in Snapshot \cup {NoSession}
    BY <1>1, <2>3 DEF StudioTyped
  <2> QED BY <1>2, <2>3, <2>4, <2>5, <2>6, RoundKeeps
<1>8. CASE InstallDone(s)
  <2>1. /\ installed' = installed \cup {s} /\ handled' = s
        /\ UNCHANGED <<session, shown, call, resets, errors>>
    BY <1>8 DEF InstallDone, FollowUnchanged
  <2>2. errors' \in 0..MaxErrors
    BY <1>1, <2>1 DEF StudioTyped
  <2>3. CASE session = NoSession
    <3>1. Fail(s)
      BY <1>8, <2>3 DEF InstallDone
    <3> QED BY <1>2, <1>3, <2>1, <2>2, <3>1, FailKeeps
  <2>4. CASE session # NoSession
    <3>1. PICK status \in Statuses : status = session.status
      BY <1>1, <2>4, Fields DEF StudioTyped
    <3>2. Decide(s, status) /\ UNCHANGED phase
      BY <1>8, <2>4, <3>1 DEF InstallDone
    <3>3. PICK f \in Followers : follower' = [follower EXCEPT ![s] = f] /\ Knows(f, s)'
      BY <1>2, <1>3, <2>1, <3>2, DecideKnows
    <3>4. /\ phase' \in Phases /\ session' \in Snapshot \cup {NoSession}
          /\ SessionKnown' /\ AwaitingIsConfirmable'
      BY <1>1, <1>2, <2>1, <3>2, KnowledgeSurvives DEF StudioTyped
    <3> QED BY <1>2, <2>1, <2>2, <3>3, <3>4, RoundKeeps
  <2> QED BY <2>3, <2>4
<1> QED BY <1>4, <1>5, <1>6, <1>7, <1>8

-----------------------------------------------------------------------------
LEMMA NextKeeps ==
  SInv /\ [Next]_vars => SInv'
<1> SUFFICES ASSUME SInv, [Next]_vars
             PROVE  SInv'
  OBVIOUS
<1>1. CASE StartFromVersion
  BY <1>1, UserKeeps
<1>2. ASSUME NEW c \in Calls, User(c)
      PROVE  SInv'
  BY <1>2, UserKeeps
<1>3. ASSUME NEW c \in Calls, Answer(c)
      PROVE  SInv'
  BY <1>3, ServeKeeps, ReceiveKeeps DEF Answer
<1>4. ASSUME NEW s \in Sessions, Service(s)
      PROVE  SInv'
  BY <1>4, ServiceKeeps
<1>5. ASSUME NEW s \in Sessions, Follow(s)
      PROVE  SInv'
  BY <1>5, StreamingKeeps, RoundsKeep DEF Follow
<1>6. CASE UNCHANGED vars
  BY <1>6 DEF vars, streamVars, studioVars, SInv, TypeOK, StreamTypeOK, StreamsGood, CallsKnow,
              SessionKnown, FollowersKnow, Knows, HandledIsInstalled, AwaitingIsConfirmable,
              Exists, Status
<1> QED BY <1>1, <1>2, <1>3, <1>4, <1>5, <1>6 DEF Next

LEMMA InitHolds ==
  Init => SInv
<1> SUFFICES ASSUME Init
             PROVE  SInv
  OBVIOUS
<1>1. StreamsGood
  <2>1. \A s \in Sessions : events[s] = <<>> /\ stream[s] = NoStream
    BY DEF Init, StreamInit
  <2>2. \A s \in Sessions : GoodStream(stream[s], Len(events[s]))
    BY <2>1, OpenedGood
  <2>3. NoStream \in Streams
    BY DEF NoStream, Streams
  <2>4. <<>> \in Seq(Stages)
    OBVIOUS
  <2>5. StreamTypeOK
    BY <2>3, <2>4 DEF Init, StreamInit, StreamTypeOK
  <2> QED BY <2>2, <2>5 DEF StreamsGood
<1>2. StudioTyped
  BY Records, Numbers DEF Init, StudioTyped, Phases
<1>3. TypeOK
  BY <1>1, <1>2, TypeSplit DEF StreamsGood
<1>4. CallsKnow /\ SessionKnown /\ HandledIsInstalled /\ AwaitingIsConfirmable
  BY Records DEF Init, CallsKnow, SessionKnown, HandledIsInstalled, AwaitingIsConfirmable
<1>5. FollowersKnow
  BY Records, Numbers DEF Init, FollowersKnow, Knows
<1> QED BY <1>1, <1>3, <1>4, <1>5 DEF SInv

\* The inductive invariant: the types, what streams have still to send, and
\* what calls, the panel's session and the followers rely on.
THEOREM StudioInvariant == Spec => []SInv
  BY InitHolds, NextKeeps, PTL DEF Spec

\* The studio and the streams it follows keep their types.
THEOREM StudioIsTyped == Spec => []TypeOK
<1>1. SInv => TypeOK
  BY DEF SInv
<1> QED BY StudioInvariant, <1>1, PTL

\* A subscription sends every event after the id it was opened with, once and
\* in order, however publications, polls and reconnections overlap.
THEOREM StreamsContiguous == Spec => []StreamContiguous
<1>1. SInv => StreamContiguous
  BY DEF SInv, StreamsGood, GoodStream, StreamContiguous
<1> QED BY StudioInvariant, <1>1, PTL

\* A follower that ends without an error leaves no ready card uninstalled.
THEOREM QuietFollowersInstalled == Spec => []QuietMeansInstalled
<1>1. SInv => QuietMeansInstalled
  BY DEF SInv, FollowersKnow, Knows, QuietMeansInstalled
<1> QED BY StudioInvariant, <1>1, PTL

\* The panel asks for a confirmation only of a session that waits for one.
THEOREM AwaitingConfirmable == Spec => []AwaitingIsConfirmable
<1>1. SInv => AwaitingIsConfirmable
  BY DEF SInv
<1> QED BY StudioInvariant, <1>1, PTL

-----------------------------------------------------------------------------
(* What the panel shows while one session alone is followed. *)

Alone(s) == resets = 0 /\ \A t \in Sessions \ {s} : follower[t] = NotFollowed

\* The stream sends, and the next connection asks for, nothing beyond the event
\* after the last one shown.
ShownInv ==
    \A s \in Sessions : Alone(s) =>
        /\ shown = [i \in 1..Len(shown) |-> [session |-> s, id |-> i]]
        /\ follower[s].at = "connect" => follower[s].after <= LastEventId
        /\ stream[s].open => stream[s].taken <= LastEventId

\* Streams are opened and read by their followers only.
TakenKept ==
    \A s \in Sessions :
        stream'[s].open => stream[s].open /\ stream'[s].taken = stream[s].taken

LEMMA WriteKeepsTaken ==
  ASSUME StreamsGood, NEW s \in Sessions, NEW stage \in Stages,
         Write(s, stage) \/ WriteElsewhere(s, stage)
  PROVE  TakenKept
<1> DEFINE n == Len(events[s])
<1>1. /\ stream \in [Sessions -> Streams] /\ GoodStream(stream[s], n) /\ n \in Nat
      /\ stream[s] \in Streams /\ n + 1 \in Nat /\ n <= n + 1 /\ n + 1 <= n + 1
  BY DEF StreamsGood, StreamTypeOK
<1>2. /\ Published(stream[s], n + 1).taken = stream[s].taken
      /\ Published(stream[s], n + 1).open = stream[s].open
  BY <1>1, PublishedGood
<1> QED BY <1>1, <1>2 DEF Write, WriteElsewhere, TakenKept

LEMMA ServiceKeepsTaken ==
  ASSUME StreamsGood, NEW s \in Sessions, Service(s)
  PROVE  TakenKept
<1> DEFINE n == Len(events[s])
<1>1. /\ stream \in [Sessions -> Streams] /\ GoodStream(stream[s], n) /\ n \in Nat
      /\ stream[s] \in Streams
  BY DEF StreamsGood, StreamTypeOK
<1>2. CASE Work(s)
  BY <1>2, WriteKeepsTaken DEF Work
<1>3. CASE PollRead(s)
  <2> DEFINE t == [stream[s] EXCEPT !.read = n]
  <2>1. stream' = [stream EXCEPT ![s] = t]
    BY <1>3 DEF PollRead
  <2>2. t.open = stream[s].open /\ t.taken = stream[s].taken
    BY <1>1 DEF Streams
  <2> HIDE DEF t
  <2> QED BY <1>1, <2>1, <2>2 DEF TakenKept
<1>4. CASE PollPublish(s)
  <2> DEFINE q == Published(stream[s], stream[s].read)
             t == [q EXCEPT !.read = 0]
  <2>1. stream' = [stream EXCEPT ![s] = t]
    BY <1>4 DEF PollPublish
  <2>2. q.open = stream[s].open /\ q.taken = stream[s].taken /\ GoodStream(q, n)
    <3>1. stream[s].read \in Nat /\ stream[s].read <= n /\ n <= n
      BY <1>1 DEF GoodStream, Streams
    <3> QED BY <1>1, <3>1, PublishedGood
  <2> HIDE DEF q
  <2>3. q \in Streams
    BY <2>2 DEF GoodStream
  <2>4. t.open = q.open /\ t.taken = q.taken
    BY <2>3 DEF Streams
  <2> HIDE DEF t
  <2> QED BY <1>1, <2>1, <2>2, <2>4 DEF TakenKept
<1> QED BY <1>2, <1>3, <1>4 DEF Service

\* A session that is followed stays so, and connects again from the last event shown.
LEMMA FollowsOn ==
  ASSUME SInv, NEW s \in Sessions, Follow(s)
  PROVE  /\ follower[s].at # "none" /\ follower'[s].at # "none"
         /\ \A t \in Sessions \ {s} : follower'[t] = follower[t] /\ stream'[t] = stream[t]
         /\ follower'[s].at = "connect" => follower'[s].after = LastEventId
<1>1. StudioTyped /\ follower \in [Sessions -> Followers] /\ stream \in [Sessions -> Streams]
  BY TypeSplit DEF SInv, StudioTyped, StreamTypeOK
<1>2. follower[s].at # "none"
  BY DEF Follow, Connect, TakeEvent, EndOfStream, Break, ServeGet, Got, InstallDone, InstallFails,
         DelayOver
<1>3. \A t \in Sessions \ {s} : stream'[t] = stream[t]
  BY <1>1 DEF Follow, Connect, TakeEvent, EndOfStream, Break, ServeGet, Got, InstallDone,
         InstallFails, DelayOver, SubscribeEvents, Take, Unsubscribe
<1>4. ASSUME NEW where \in {"stream", "get", "install"}, GoTo(s, where)
      PROVE  /\ follower'[s].at # "none" /\ follower'[s].at # "connect"
             /\ \A t \in Sessions \ {s} : follower'[t] = follower[t]
  <2>1. At(s, where).at = where
    BY <1>1, AtTyped
  <2> QED BY <1>1, <1>4, <2>1 DEF GoTo
<1>5. ASSUME Fail(s), follower[s].at # "gaveUp"
      PROVE  /\ follower'[s].at # "none" /\ follower'[s].at # "connect"
             /\ \A t \in Sessions \ {s} : follower'[t] = follower[t]
  <2>1. Caught(s).at \in {"delay", "gaveUp"}
    BY <1>2, <1>5, CaughtTyped
  <2> QED BY <1>1, <1>5, <2>1 DEF Fail
<1>6. ASSUME NEW status, Decide(s, status)
      PROVE  /\ follower'[s].at # "none" /\ follower'[s].at # "connect"
             /\ \A t \in Sessions \ {s} : follower'[t] = follower[t]
  <2>1. At(s, "done").at = "done"
    BY <1>1, AtTyped
  <2>2. PICK g \in Followers : g = At(s, "delay") /\ g.at = "delay"
    BY <1>1, AtTyped
  <2> DEFINE h == [g EXCEPT !.failures = 0]
  <2>3. h.at = "delay"
    BY <2>2 DEF Followers
  <2>4. \/ follower' = [follower EXCEPT ![s] = At(s, "done")]
        \/ follower' = [follower EXCEPT ![s] = h]
    BY <1>6, <2>2 DEF Decide
  <2> HIDE DEF h
  <2> QED BY <1>1, <2>1, <2>3, <2>4
<1>7. CASE Connect(s) \/ EndOfStream(s)
  BY <1>2, <1>3, <1>4, <1>7 DEF Connect, EndOfStream
<1>8. CASE TakeEvent(s)
  BY <1>2, <1>3, <1>8 DEF TakeEvent
<1>9. CASE Break(s) \/ InstallFails(s)
  BY <1>2, <1>3, <1>5, <1>9 DEF Break, InstallFails
<1>10. CASE ServeGet(s)
  <2>1. PICK g \in Followers : g = At(s, "got") /\ g.at = "got"
    BY <1>1, AtTyped
  <2> DEFINE h == [g EXCEPT !.status = Status(s)]
  <2>2. h.at = "got"
    BY <2>1 DEF Followers
  <2>3. follower' = [follower EXCEPT ![s] = h]
    BY <1>10, <2>1 DEF ServeGet
  <2> HIDE DEF h
  <2> QED BY <1>1, <1>2, <1>3, <2>2, <2>3
<1>11. CASE Got(s)
  BY <1>2, <1>3, <1>4, <1>6, <1>11 DEF Got
<1>12. CASE InstallDone(s)
  BY <1>2, <1>3, <1>5, <1>6, <1>12 DEF InstallDone
<1>13. CASE DelayOver(s)
  <2>1. PICK g \in Followers : g = At(s, "connect") /\ g.at = "connect"
    BY <1>1, AtTyped
  <2> DEFINE h == [g EXCEPT !.after = LastEventId]
  <2>2. h.at = "connect" /\ h.after = LastEventId
    BY <2>1 DEF Followers
  <2>3. follower' = [follower EXCEPT ![s] = h]
    BY <1>13, <2>1 DEF DelayOver
  <2> HIDE DEF h
  <2> QED BY <1>1, <1>2, <1>3, <2>2, <2>3
<1> QED BY <1>7, <1>8, <1>9, <1>10, <1>11, <1>12, <1>13 DEF Follow

\* The last id shown when the list is the beginning of a session's history.
LEMMA LastIdIsLength ==
  ASSUME shown \in Seq(ShownEvents), NEW s \in Sessions,
         shown = [i \in 1..Len(shown) |-> [session |-> s, id |-> i]]
  PROVE  LastEventId = Len(shown)
<1>1. Len(shown) \in Nat
  OBVIOUS
<1>2. CASE shown = <<>>
  BY <1>2 DEF LastEventId
<1>3. CASE shown # <<>>
  <2>1. Len(shown) \in 1..Len(shown)
    BY <1>1, <1>3
  <2>2. shown[Len(shown)] = [session |-> s, id |-> Len(shown)]
    BY <2>1
  <2>3. shown[Len(shown)].id = Len(shown)
    BY <2>2
  <2> QED BY <1>3, <2>3 DEF LastEventId
<1> QED BY <1>2, <1>3

\* One more event of the same history.
LEMMA HistoryGrows ==
  ASSUME shown \in Seq(ShownEvents), NEW s \in Sessions,
         shown = [i \in 1..Len(shown) |-> [session |-> s, id |-> i]],
         NEW longer, longer = Append(shown, [session |-> s, id |-> Len(shown) + 1])
  PROVE  longer = [i \in 1..Len(longer) |-> [session |-> s, id |-> i]]
<1> DEFINE n == Len(shown)
           new == [session |-> s, id |-> n + 1]
           all == [i \in 1..(n + 1) |-> [session |-> s, id |-> i]]
<1>1. n \in Nat /\ new \in ShownEvents
  BY DEF ShownEvents
<1>2. /\ longer \in Seq(ShownEvents) /\ Len(longer) = n + 1 /\ longer[n + 1] = new
      /\ \A i \in 1..n : longer[i] = shown[i]
  BY <1>1, AppendProperties
<1>3. \A i \in 1..(n + 1) : [session |-> s, id |-> i] \in ShownEvents
  BY <1>1 DEF ShownEvents
<1>4. all \in Seq(ShownEvents) /\ Len(all) = n + 1
  BY <1>1, <1>3, IsASeq
<1>5. \A i \in 1..n : shown[i] = [session |-> s, id |-> i]
  OBVIOUS
<1>6. ASSUME NEW i \in 1..(n + 1)
      PROVE  longer[i] = all[i]
  <2>1. CASE i = n + 1
    BY <1>2, <2>1
  <2>2. CASE i # n + 1
    <3>1. i \in 1..n
      BY <1>1, <2>2
    <3> QED BY <1>2, <1>5, <3>1
  <2> QED BY <2>1, <2>2
<1> HIDE DEF all
<1>7. longer = all
  BY <1>2, <1>4, <1>6, SeqEqual
<1> QED BY <1>2, <1>7 DEF all

\* Steps that leave the list, the followers and the taken ids alone.
LEMMA ShownUnchanged ==
  ASSUME ShownInv, TakenKept, UNCHANGED <<shown, follower, resets>>
  PROVE  ShownInv'
BY DEF ShownInv, TakenKept, Alone, LastEventId

\* A step of a follower.
LEMMA FollowKeepsShown ==
  ASSUME SInv, ShownInv, NEW u \in Sessions, Follow(u)
  PROVE  ShownInv'
<1>1. StudioTyped /\ StreamsGood /\ LastEventId \in Nat
  BY TypeSplit, LastIdTyped DEF SInv, StudioTyped
<1>2. resets' = resets
  BY DEF Follow, Connect, TakeEvent, EndOfStream, Break, ServeGet, Got, InstallDone, InstallFails,
         DelayOver, FollowUnchanged
<1> SUFFICES ASSUME NEW s \in Sessions, Alone(s)'
             PROVE  /\ shown' = [i \in 1..Len(shown') |-> [session |-> s, id |-> i]]
                    /\ follower'[s].at = "connect" => follower'[s].after <= LastEventId'
                    /\ stream'[s].open => stream'[s].taken <= LastEventId'
  BY DEF ShownInv
<1>3. s = u
  BY FollowsOn, Records DEF Alone
<1>4. /\ Alone(s)
      /\ shown = [i \in 1..Len(shown) |-> [session |-> s, id |-> i]]
      /\ follower[s].at = "connect" => follower[s].after <= LastEventId
      /\ stream[s].open => stream[s].taken <= LastEventId
  BY <1>2, <1>3, FollowsOn DEF Alone, ShownInv
<1>5. follower'[s].at = "connect" => follower'[s].after <= LastEventId
  BY <1>1, <1>3, FollowsOn
<1>6. CASE TakeEvent(s)
  <2>1. /\ GoodStream(stream[s], Len(events[s])) /\ stream[s] \in Streams
        /\ stream[s].channel # <<>> /\ Len(events[s]) \in Nat
        /\ stream \in [Sessions -> Streams] /\ stream' = [stream EXCEPT ![s] = Taken(stream[s])]
    BY <1>1, <1>6 DEF StreamsGood, StreamTypeOK, TakeEvent, Take
  <2>2. /\ stream[s].open /\ Head(stream[s].channel) = stream[s].taken + 1
        /\ stream'[s].taken = stream[s].taken + 1
    BY <2>1, TakenGood
  <2>3. stream[s].taken \in Nat
    BY <2>1 DEF Streams
  <2>4. CASE Head(stream[s].channel) <= LastEventId
    <3>1. shown' = shown /\ follower' = follower
      BY <1>6, <2>4 DEF TakeEvent
    <3>2. LastEventId' = LastEventId
      BY <3>1 DEF LastEventId
    <3> QED BY <1>4, <1>5, <2>2, <2>4, <3>1, <3>2
  <2>5. CASE ~(Head(stream[s].channel) <= LastEventId)
    <3>1. LastEventId = Len(shown)
      BY <1>1, <1>4, LastIdIsLength DEF StudioTyped
    <3>2. Head(stream[s].channel) = Len(shown) + 1
      BY <1>1, <1>4, <2>2, <2>3, <2>5, <3>1
    <3>3. /\ shown' = Append(shown, [session |-> s, id |-> Len(shown) + 1])
          /\ follower' = follower
      BY <1>6, <2>5, <3>2 DEF TakeEvent
    <3>4. shown' = [i \in 1..Len(shown') |-> [session |-> s, id |-> i]]
      BY <1>1, <1>4, <3>3, HistoryGrows DEF StudioTyped
    <3>5. LastEventId' = Len(shown) + 1
      <4>1. [session |-> s, id |-> Len(shown) + 1] \in ShownEvents
        BY <3>1, <1>1 DEF ShownEvents
      <4>2. /\ shown' # <<>> /\ Len(shown') = Len(shown) + 1
            /\ shown'[Len(shown) + 1] = [session |-> s, id |-> Len(shown) + 1]
        BY <1>1, <3>3, <4>1, AppendProperties DEF StudioTyped
      <4> QED BY <4>2 DEF LastEventId
    <3>6. follower[s].at # "connect"
      BY <1>6 DEF TakeEvent
    <3>7. stream'[s].taken = LastEventId'
      BY <2>2, <3>2, <3>5
    <3>8. LastEventId' \in Nat
      BY <1>1, <3>1, <3>5
    <3>9. stream'[s].taken <= LastEventId'
      BY <3>7, <3>8
    <3> QED BY <3>3, <3>4, <3>6, <3>9
  <2> QED BY <2>4, <2>5
<1>7. CASE ~TakeEvent(s)
  <2>1. shown' = shown
    BY <1>3, <1>7 DEF Follow, Connect, EndOfStream, Break, ServeGet, Got, InstallDone, InstallFails,
         DelayOver
  <2>2. LastEventId' = LastEventId
    BY <2>1 DEF LastEventId
  <2>3. ASSUME stream'[s].open
        PROVE  stream'[s].taken <= LastEventId
    <3>1. stream \in [Sessions -> Streams]
      BY <1>1 DEF StreamsGood, StreamTypeOK
    <3>2. CASE Connect(s)
      <4>1. PICK after \in Nat : after = follower[s].after
        BY <1>1, Fields
      <4>2. /\ OpenAt(after) \in Streams /\ GoodStream(OpenAt(after), Len(events[s]))
            /\ OpenAt(after).taken = after /\ Len(events[s]) \in Nat
        BY <1>1, <4>1, OpenedGood DEF StreamsGood, StreamTypeOK
      <4>3. Len(events[s]) <= Len(events[s])
        BY <4>2
      <4>4. Subscribed(s, after).taken = after
        BY <4>2, <4>3, PublishedGood DEF Subscribed
      <4>5. stream'[s] = Subscribed(s, after)
        BY <3>1, <3>2, <4>1 DEF Connect, SubscribeEvents
      <4> QED BY <1>4, <3>2, <4>1, <4>4, <4>5 DEF Connect
    <3>3. CASE EndOfStream(s) \/ Break(s)
      <4>1. stream'[s] = NoStream
        BY <3>1, <3>3 DEF EndOfStream, Break, Unsubscribe
      <4> QED BY <2>3, <4>1 DEF NoStream
    <3>4. CASE ~(Connect(s) \/ EndOfStream(s) \/ Break(s))
      <4>1. stream' = stream
        BY <1>3, <1>7, <3>4 DEF Follow, ServeGet, Got, InstallDone, InstallFails, DelayOver
      <4> QED BY <1>4, <2>3, <4>1
    <3> QED BY <3>2, <3>3, <3>4
  <2> QED BY <1>4, <1>5, <2>1, <2>2, <2>3
<1> QED BY <1>6, <1>7

\* A step of the user, of the service or of a call.
LEMMA OthersKeepShown ==
  ASSUME SInv, ShownInv,
         \/ StartFromVersion
         \/ \E c \in Calls : User(c) \/ Answer(c)
         \/ \E s \in Sessions : Service(s)
         \/ UNCHANGED vars
  PROVE  ShownInv'
<1>1. StudioTyped /\ StreamsGood
  BY TypeSplit DEF SInv
<1>2. ASSUME UNCHANGED streamVars
      PROVE  TakenKept
  BY <1>2 DEF TakenKept, streamVars
<1>3. CASE StartFromVersion
  BY <1>1, <1>3 DEF StartFromVersion, ShownInv, Alone, StudioTyped
<1>4. ASSUME NEW c \in Calls, User(c)
      PROVE  ShownInv'
  <2>1. UNCHANGED streamVars /\ UNCHANGED <<shown, follower, resets>>
    BY <1>4 DEF User, Submit, Confirm, Cancel, Request, streamVars
  <2> QED BY <1>2, <2>1, ShownUnchanged
<1>5. ASSUME NEW c \in Calls, ServeCreate(c) \/ Serve(c) \/ LoseCall(c)
      PROVE  ShownInv'
  <2>1. UNCHANGED <<shown, follower, resets>>
    BY <1>5 DEF ServeCreate, Serve, LoseCall, Answered
  <2>2. TakenKept
    <3>1. CASE ServeCreate(c)
      <4>1. "requirements" \in Stages
        BY DEF Stages
      <4> QED BY <1>1, <3>1, <4>1, WriteKeepsTaken DEF ServeCreate
    <3>2. CASE Serve(c)
      <4>1. call[c].id \in Sessions /\ call[c].op \in {"addMessage", "confirm", "cancel"}
        BY <1>1, <3>2, Fields DEF Serve, SInv, CallsKnow
      <4>2. PICK s \in Sessions : s = call[c].id
        BY <4>1
      <4>3. PICK stage \in Stages : stage = StageOf(call[c].op)
        BY <4>1 DEF StageOf, Stages
      <4>4. Write(s, stage) \/ UNCHANGED streamVars
        BY <3>2, <4>2, <4>3 DEF Serve
      <4> QED BY <1>1, <1>2, <4>4, WriteKeepsTaken
    <3>3. CASE LoseCall(c)
      BY <1>2, <3>3 DEF LoseCall
    <3> QED BY <1>5, <3>1, <3>2, <3>3
  <2> QED BY <2>1, <2>2, ShownUnchanged
<1>6. ASSUME NEW c \in Calls, Receive(c)
      PROVE  ShownInv'
  <2>1. UNCHANGED streamVars /\ UNCHANGED <<shown, resets>>
    BY <1>6 DEF Receive, streamVars
  <2>2. CASE follower' = follower
    BY <1>2, <2>1, <2>2, ShownUnchanged
  <2>3. CASE follower' # follower
    <3>1. PICK u \in Sessions : u = call[c].id
      BY <1>1, <1>6, <2>3, Fields DEF Receive, SInv, CallsKnow
    <3>2. follower' = [follower EXCEPT ![u] = Following(u)] /\ follower \in [Sessions -> Followers]
      BY <1>1, <1>6, <2>3, <3>1 DEF Receive, StudioTyped
    <3>3. Following(u).at = "connect" /\ Following(u).after = LastEventId
      BY DEF Following
    <3>4. Following(u) # NotFollowed
      BY <3>3, Records
    <3>5. LastEventId \in Nat /\ LastEventId' = LastEventId
      BY <1>1, <2>1, LastIdTyped DEF StudioTyped, LastEventId
    <3>6. ASSUME NEW s \in Sessions, Alone(s)'
          PROVE  /\ shown' = [i \in 1..Len(shown') |-> [session |-> s, id |-> i]]
                 /\ follower'[s].at = "connect" => follower'[s].after <= LastEventId'
                 /\ stream'[s].open => stream'[s].taken <= LastEventId'
      <4>1. s = u
        BY <3>2, <3>4, <3>6 DEF Alone
      <4>2. Alone(s)
        BY <2>1, <3>2, <3>6, <4>1 DEF Alone
      <4> QED BY <2>1, <3>2, <3>3, <3>5, <4>1, <4>2 DEF ShownInv, streamVars
    <3> QED BY <3>6 DEF ShownInv
  <2> QED BY <2>2, <2>3
<1>7. ASSUME NEW c \in Calls, CaptureError(c)
      PROVE  ShownInv'
  BY <1>2, <1>7, ShownUnchanged DEF CaptureError, streamVars
<1>8. ASSUME NEW s \in Sessions, Service(s)
      PROVE  ShownInv'
  BY <1>1, <1>8, ServiceKeepsTaken, ShownUnchanged DEF Service, studioVars
<1>9. CASE UNCHANGED vars
  BY <1>2, <1>9, ShownUnchanged DEF vars, studioVars, streamVars
<1> QED BY <1>3, <1>4, <1>5, <1>6, <1>7, <1>8, <1>9 DEF Answer

\* While one session alone is followed, the panel shows the beginning of its history.
THEOREM ShownHistory == Spec => []ShownIsHistory
<1>1. Init => ShownInv
  <2> SUFFICES ASSUME Init
               PROVE  ShownInv
    OBVIOUS
  <2>1. shown = <<>> /\ Len(shown) = 0
    BY DEF Init
  <2>2. \A s \in Sessions : shown = [i \in 1..0 |-> [session |-> s, id |-> i]]
    BY <2>1
  <2>3. \A s \in Sessions : follower[s].at = "none" /\ ~stream[s].open
    BY Records DEF Init, StreamInit, NoStream
  <2> QED BY <2>1, <2>2, <2>3 DEF ShownInv
<1>2. SInv /\ ShownInv /\ [Next]_vars => ShownInv'
  BY OthersKeepShown, FollowKeepsShown DEF Next
<1>3. ShownInv => ShownIsHistory
  BY DEF ShownInv, ShownIsHistory, Alone
<1> QED BY StudioInvariant, <1>1, <1>2, <1>3, PTL DEF Spec

=============================================================================
