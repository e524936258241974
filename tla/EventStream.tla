----------------------------- MODULE EventStream -----------------------------
(***************************************************************************)
(* The events of generation sessions and the subscription through which    *)
(* the API sends them: SubscribeEvents, publication under streamMu, and    *)
(* the polling of a repository that another process writes.  What runs     *)
(* under streamMu is one step.  An event's id is its place in the list;    *)
(* a session's status is that of its last event.                           *)
(***************************************************************************)
EXTENDS Integers, Sequences

CONSTANT Sessions

VARIABLES events,   \* the stages of each session's events
          stream    \* the subscription the client has to each session's events

streamVars == <<events, stream>>

Stages == {"requirements", "awaiting_confirmation", "queued", "generating",
           "validating", "ready", "failed", "cancelled"}

Statuses == Stages \ {"requirements"}

Terminal == {"ready", "failed", "cancelled"}

\* The transitions a worker makes; the service makes those into queued and cancelled.
WorkerTransitions ==
    {<<"queued", "generating">>, <<"generating", "validating">>, <<"validating", "ready">>}
    \cup {"queued", "generating", "validating"} \X {"failed"}

StatusAt(stage) == IF stage = "requirements" THEN "awaiting_confirmation" ELSE stage

Exists(s) == events[s] # <<>>

Status(s) == StatusAt(events[s][Len(events[s])])

\* read is the number of events a poll has read and not yet published; it is 0
\* between polls.  taken is the last id that has left the channel.
NoStream == [open |-> FALSE, cursor |-> 0, channel |-> <<>>, taken |-> 0, read |-> 0]

Streams == [open : BOOLEAN, cursor : Nat, channel : Seq(Nat), taken : Nat, read : Nat]

StreamInit ==
    /\ events = [s \in Sessions |-> <<>>]
    /\ stream = [s \in Sessions |-> NoStream]

\* The ids after a, up to b.
Ids(a, b) == [i \in 1..(b - a) |-> a + i]

\* Slip: the cursor follows the list that was published last.
PublishedStale(t, n) ==
    IF ~t.open THEN t
    ELSE [[t EXCEPT !.channel = @ \o Ids(t.cursor, n)] EXCEPT !.cursor = n]

\* publishStreamLocked with the first n events of the session.
Published(t, n) ==
    IF ~t.open \/ n <= t.cursor THEN t
    ELSE [[t EXCEPT !.channel = @ \o Ids(t.cursor, n)] EXCEPT !.cursor = n]

\* A session's change in this process: saved and published under the lock.
Write(s, stage) ==
    /\ events' = [events EXCEPT ![s] = Append(@, stage)]
    /\ stream' = [stream EXCEPT ![s] = Published(@, Len(events[s]) + 1)]

\* A change by a worker in a process of its own.
WriteElsewhere(s, stage) ==
    /\ events' = [events EXCEPT ![s] = Append(@, stage)]
    /\ UNCHANGED stream

Work(s) ==
    \E stage \in Stages :
        /\ Exists(s) /\ <<Status(s), stage>> \in WorkerTransitions
        /\ Write(s, stage) \/ WriteElsewhere(s, stage)

OpenAt(after) ==
    [open |-> TRUE, cursor |-> after, channel |-> <<>>, taken |-> after, read |-> 0]

\* Slip: a subscription starts with what happens next.
SubscribedFromNow(s, after) == OpenAt(Len(events[s]))

Subscribed(s, after) == Published(OpenAt(after), Len(events[s]))

SubscribeEvents(s, after) ==
    /\ stream' = [stream EXCEPT ![s] = Subscribed(s, after)]
    /\ UNCHANGED events

\* pollExternalEvents reads the session before it takes the lock.  A poll that
\* reads nothing new publishes nothing, whatever comes in between.
PollRead(s) ==
    /\ stream[s].open /\ stream[s].read = 0 /\ Len(events[s]) > stream[s].cursor
    /\ stream' = [stream EXCEPT ![s] = [@ EXCEPT !.read = Len(events[s])]]
    /\ UNCHANGED events

PollPublish(s) ==
    /\ stream[s].open /\ stream[s].read > 0
    /\ stream' = [stream EXCEPT ![s] = [Published(@, stream[s].read) EXCEPT !.read = 0]]
    /\ UNCHANGED events

Taken(t) == [[t EXCEPT !.taken = Head(t.channel)] EXCEPT !.channel = Tail(@)]

\* The next event of the stream reaches the client.
Take(s) ==
    /\ stream[s].channel # <<>>
    /\ stream' = [stream EXCEPT ![s] = Taken(@)]
    /\ UNCHANGED events

\* The subscription ends with its request.
Unsubscribe(s) ==
    /\ stream' = [stream EXCEPT ![s] = NoStream]
    /\ UNCHANGED events

-----------------------------------------------------------------------------
StreamTypeOK ==
    /\ events \in [Sessions -> Seq(Stages)]
    /\ stream \in [Sessions -> Streams]

\* What a subscription has still to send are the ids after the last one sent,
\* each once and in order, up to its cursor: polls that publish an older list
\* than the service has published, and clients that come back with the id of
\* their last event, lead to no gap and no repetition.  (SubscribeEvents,
\* pollExternalEvents, publishStreamLocked.)
StreamContiguous ==
    \A s \in Sessions :
        stream[s].open => stream[s].channel = Ids(stream[s].taken, stream[s].cursor)

=============================================================================
