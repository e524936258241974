# A verification of agent-card-container

agent-card-container generates small cards with a language model in the cloud,
publishes them as immutable versions, and runs them in windows of a desktop
program. This directory holds TLA+ models of the parts whose correctness depends
on order, failure and time, the TLC runs that check them on small instances,
and TLAPS proofs of the most important results for every instance.

## The system

| part | state it keeps | operations | what is hard |
| --- | --- | --- | --- |
| job queue, `internal/jobs` | one row per session: status, attempts, lease owner and end, retry time, reserved version | enqueue, claim, extend, reserve, retry, complete, fail, cancel | leases against clocks that lag; claims that overlap; two implementations of one contract |
| sessions, `internal/generation` | session status, messages, requirement, version, in four tables; an event log and its subscribers | create, message, confirm, cancel, start, validate, ready, failed; get; subscribe and poll | writes by workers that have lost their lease; reads of several statements beside other processes' commits; subscribers that are slow, late, or between two reads |
| worker, `internal/worker` | the claimed copy of the job, the session as it was loaded, the reserved version, the artifact, the work context | `RunOnce`, one store call after the other; the heartbeat beside it | three stores without a common transaction; crash, lost answer and lost lease between any two calls |
| publisher, `internal/publish` | the version rows, the objects | load the base, upload, insert, find, next display version | an upload without its row; two iterations with the same number; a base signed with a key of an earlier deployment |
| card agent, `internal/agent` | the calls left in the budget | select, generate, repair, build, evaluate, validate | retries inside retries; a card checked against its initial state only |
| authentication, `internal/auth` | the identity provider's keys, cached | authenticate, refresh | fetches of several requests at once, answers stored out of order |
| version lifecycle, desktop `cloud/`, `storage/` | installations, instances, their state, grants and backups | install, prepare, apply, activate, restore, quarantine | a plan confirmed against a state that has changed; a switch undone after a failed activation |
| agent studio, card catalog, settings, desktop `agent_studio/`, `cloud/` | what the screen shows of a cloud session, a card, the connection | submit, confirm, cancel, follow, reset; refresh, select, install | answers of overlapping calls that come back out of order |
| capabilities, desktop `capabilities/` | grants, pending questions | invoke, ask, answer | the answer comes after the grant was changed |
| native cards, desktop `native_cards/` | the state of a running card, its timers, the call it awaits | press, control, tick, capability answer, update | a state the validator never saw; a second interpreter of the same language |
| runtime, surfaces, workspace | sessions of running cards, windows, placements | mount, suspend, move, snap, persist | window and web view callbacks between two steps of a move |

A client confirms a session; the confirmation stores it as queued and enqueues
its job (one transaction with PostgreSQL, two steps without). A worker claims the
job under a lease, drives the session through generating and validating,
publishes a version and settles session and job. The desktop follows the
session's events, installs the version and switches instances to it.

## Modules

| module | models | extends or uses |
| --- | --- | --- |
| `GenerationConstants` | the identifiers that queue, sessions and catalog share | |
| `JobLease` | what `jobs.Store` promises, without clocks | |
| `JobRows` | the rows with their times, and the calls both stores answer alike | refines `JobLease` |
| `MemoryJobStore`, `PostgresJobStore` | the two claims | extend `JobRows` |
| `GenerationSession` | `generation.Session` and each operation of its service | |
| `PostgresSessions` | one session in the four tables of `PostgresRepository`, statement by statement | refines `GenerationSession` |
| `GenerationWorker` | clients, any number of workers, queue, sessions and catalog together | extends `JobLease` and `GenerationSession` |
| `CardIterations` | the attempts of concurrent iterations of one card, with catalog, object store and signing key | |
| `SigningKeys` | the identity provider's keys that the requests of a process share | |
| `CardVersions` | one installed native card on the desktop: database, controller, view or window, prompts, version change, restart | |
| `NativeCards` | what a native card computes: the service's validator, the desktop's evaluator and controller | |
| `EventStream` | the event logs of sessions, subscription, publication and polling | |
| `AgentStudio` | the desktop controller that submits, confirms and follows sessions, with the calls and streams under way | extends `EventStream` |
| `JobStoreProofs`, `GenerationWorkerProofs`, `PostgresSessionsProofs`, `CardIterationsProofs`, `SigningKeysProofs`, `CardVersionsProofs`, `NativeCardsProofs`, `AgentStudioProofs` | theorems about the module of the name; `JobStoreProofs` about both stores, `GenerationWorkerProofs` about the queue's contract too | extend it and `TLAPS` |
| `MC...` | instances for TLC | |

`MCPostgresStore` and `MCDesktopCards` check several modules in one run: a
behaviour keeps to the part it starts with (variable `part`), so its states are
the sum of the parts' states and not their product. The parts share no state.

The operators named as mutants in a comment (`RenumberWithoutUpload`,
`UsableForEver`, ...) are slips a change of the code could make. They belong to no
specification; put in the place of the definition they follow, each makes a
property fail, and shows that the property depends on that code.

**Times.** `JobRows` keeps `lease_until` and `available_at` relative to the real
time, so that the state space is finite although time has no end. A call carries
the time its caller read, which lags by at most `MaxLag`; this stands for slow
calls and slow clocks alike. The contract `JobLease` has no clock: `live` says
that the lease has not run out on the fastest clock. Both stores are checked
and proved to implement it (`ImplementsContract`), and the pipeline is built on the
contract only, so what is shown of the pipeline holds with either store.

**The database claim** is modelled statement by statement, because
`FOR UPDATE SKIP LOCKED` makes a claim see less than there is: rows that another
claim has locked. Statements of other calls on a locked row wait.

**The tables of a session.** A change in `PostgresSessions` is a transaction
under the lock of the session's row (`LoadRow` takes it, then `LoadMessages`, `LoadEvents`, `Write`, `Commit`), and what it has
written is kept with its connection until it commits; a connection may be lost at any point
(`LoseSession`). A read is three statements without a transaction, so that commits fall between
them. `Stored` is the refinement mapping: with it the tables implement the session
of `GenerationSession`, which the pipeline is built on. One step of the contract is one
commit.

**Worker.** `pc` names the store call that comes next. Every call is one step; its
answer may be lost after the store has acted (`Reply`), it may fail without
effect (`CallFails`), and errors are told apart only into transient and
permanent, as `isRetryableJobError` does. The heartbeat is three actions: a
renewal (`Renew`), a refusal or failure that cancels the work context
(`LoseLease`), and the end of `RunOnce` that follows (`Abandon`). `ExpireLease`
lets a lease run out: freely when nobody renews it, and as a disruption (a stall)
when somebody does. What the agent produces is a member of `Contents`; two
attempts need not produce the same. Clients may hang up between the two calls of
a request (`Disconnect`).

**The desktop card.** The desktop is one event loop, so an action of
`CardVersions` is what runs between two awaits. `db` is what SQLite holds for
the card (row, state of each namespace, backups, grants); `card` is the
`WorkspaceCard` in the `WorkspaceController`, built from the database and then
updated on its own; `view` is the controller of the card in the main window,
with its 300 ms debounce (`dirty`), and `window` its detached window with the
messages under way (`sent`). These are four copies of one state, and the
module is about their agreement. A version change is `StartChange` (the button),
`FinishPreparing` (the artifact is there, `prepare` has compared), the dialog, and
one step for `applyAndActivate`, which has no await: `Activate` when the new card can be
built, `FailActivation` when not. `Switch` is the transaction both directions
use. A permission prompt remembers the version and the build of the broker that
asked: its answer comes later, in `Approve`.

Card state is told apart by the last edit and the version that made it. A
capability of the model stands for a capability together with its domain.
There is one instance, for the catalog changes only the first instance of a card.
The detached window stands for every other window; overlays are left out.
Backups are kept in the order they were made: the model assumes that the wall
clock that orders them does not go back. A restart finds every installed card buildable.
An artifact whose card cannot be built is what `FailActivation` is for.

**The agent studio.** `EventStream` has the service's side of an event stream: what runs
under `streamMu` is one step (`Write`, `SubscribeEvents`, `PollPublish`), and
a poll is two, because it reads the session before it takes the lock. A worker
may share the process with the API, which publishes its changes (`Write`), or
not (`WriteElsewhere`), when only polls find them; both can be deployed together, so
the model takes either at each step. `AgentStudio` has the client. A call is
handled by the service in one step and answered in another, and may be lost before or
after it is handled. `follower` is where the loop of `_follow` awaits; `startFromVersion`
resets the controller and stops neither calls nor followers. The service's status
of a session is that of its last event, so the module needs no second copy
of it. Events and the end of a stream arrive in order; a broken connection takes with it what
had not arrived. The program's end (`dispose`) is left out: nothing of the controller survives it.

**Iterations.** `GenerationWorker` has many sessions with one version each;
`CardIterations` has many sessions with one card. Every attempt of a job is a
record of its own, since attempts of a job overlap when a lease is lost
(`BeginAttempt`). A display version is its last component, and an archive is what tells archives apart:
version, number, content, capabilities and key. The upload and the insert are two
steps, and a refused insert takes a further one to find out why
(`ExamineConflict`), as in `PostgresCatalog`. The queue and the session are
reduced to what they allow an attempt: to begin, to be refused (`RefuseSession`),
to fail and be retried (`FailStoreCall`), and to disappear (`StopAttempt`).
`RotateKey` deploys the service with another signing key while workers of the old deployment go on.

**Signing keys.** A request of `SigningKeys` looks at the cache under the read lock,
fetches, stores the answer under the write lock and looks again. Fetches are
not shared, so an older answer may replace a newer one; time is in ticks and
`PassTime` waits for whoever must act within the tick.

**Native cards.** `NativeCards` has the type checker of the service
(`ExpressionType`, `ValidateAction`) beside the interpreter of the desktop (`Evaluate`,
`ApplyActionsAsync`), which are two programs in two languages, and asks whether a document the
first accepts is one the second can run, after presses, controls, timers,
capability answers and updates. A value is a map from paths to kinds, with a number where it
matters, as the validator indexes `initialState`. Expressions are a set that holds the arguments of
its members; `ExpressionType` and `Evaluate` are functions on a level and an expression of that set. Both
sides limit the depth to the same 32, but the validator counts from one and lets a literal pass, and the
evaluator counts from zero and counts literals: `MaxExpressionDepth` is the limit, and `LevelsSound` shows that
the two ways of counting agree. Left out are the wrapper `{"expr": ...}`, which both count as one
level; `null` and non-finite numbers; and that Dart's `==` compares lists and maps by identity,
where `eq` of the model compares what it knows of them: either way the result is a boolean.

**Abstractions of the pipeline.** A requirement is the number of messages confirmed; summaries,
texts and progress events are left out. The catalog row of `GenerationWorker` is version, session and
content.

## Runs

| run | question | instance |
| --- | --- | --- |
| `memory_store` | Does the memory store keep the contract, serve the oldest job first, and settle exhausted jobs? | 2 sessions, 2 workers, 2 attempts, 2 version ids, lease 2 ticks, lag 1 |
| `postgres_store` | Jobs: does the database store keep the contract although claims overlap and are lost? | 2 sessions, 2 workers, 2 attempts, 1 version id, lease 2, lag 1 |
| | Sessions: do four tables amount to the atomic session, and are reads never ahead of what explains them? | 2 connections, 2 messages |
| | Iterations: are a card's versions numbered without gaps, downloadable and within their capabilities? | 3 iterations, 2 attempts, 2 model calls, 2 keys, numbers up to 2 |
| | Keys: is a retired key forgotten, and a new one found? | 2 keys, 2 requests, lifetime 2 ticks, fetches of up to 1 |
| `postgres_exhausted` | Does it settle an exhausted job? No, see below. | 1 session, 1 worker |
| `worker_safety` | Is there one version at most for a session, and do session, job and catalog agree, whatever is disrupted? | 1 session, 2 workers, 3 attempts, 3 disruptions of any kind, two-step confirmation |
| `worker_liveness` | Does every session and job come to its end? | the same with 2 disruptions of any kind but an error of `MarkFailed`, one message, confirmation in a transaction |
| `ready_job_failed` | Can a ready session have a failed job? Yes. | one stall |
| `crashed_session` | Can a session be left behind when its attempts are used up? Yes. | 3 crashes |
| `card_versions` | Versions: is a change all or nothing, and are grants and states safe, whatever happens beside it? | 3 versions, 2 schemas, 2 capabilities, 3 switches, 2 edits, 2 prompts, 2 backups, 1 restart |
| | Native cards: does an accepted card run as its validation promised, and is every failure one of the language's? | expressions of up to two operations, and deeper ones at the limit of 3 and past it, presses of up to two actions, numbers and lengths from -1 to 1 |
| `row_is_running` | Can the row name another version than the one that runs? Yes. | 2 switches, 1 prompt |
| `shown_state` | Can a card show a state older than the stored one? Yes. | the versions of `card_versions` |
| `state_schema` | Can a version get the state of an incompatible one? Yes. | the same |
| `agent_studio` | Does the panel miss an event, forget a ready card, offer a confirmation that cannot be given, or follow a session for ever? | 2 sessions, 1 call at a time, 2 errors of any kind, 2 failures end a follower, 1 reset |

The bounds. Two workers are the current owner of a job and one late worker; with
three attempts, two workers can hold three different attempts in turn, and the
inductive invariant is about one worker and the stores at a time, which is why a
third brings nothing new (and the proofs are for any number). Lease 2 and lag 1 are the smallest values that
tell apart a lease that is good, one that is out for some clocks only, and one
that is out for all. Two contents make two attempts differ. Three disruptions
are enough for a lost answer, a stall and a crash in one behaviour.
`worker_safety` uses the wiring with the most behaviours: the two steps of
`AtomicConfirm = FALSE` contain the one-step confirmation, and
`KeepExhausted = FALSE` adds the memory store's commit of failed marks.
`worker_liveness` needs fewer disruptions than attempts, since each may use one up: two lost
leases, failing store calls (a failed renewal is one), crashes or hang-ups of a client, in any
mixture. It leaves out the kind `markFailed`, an error of `MarkFailed`: with it, and one such
disruption, TLC finds `SessionsSettle` violated (the agent gives up, `MarkFailed` errs, `Fail` succeeds), while
`JobsSettle` still holds with all the kinds. The wiring with two steps of confirmation is left
to `worker_safety`: a client that hangs up between them leaves a session without a job.
In `PostgresSessions` two connections are two processes, since within one `streamMu` lets
a single change through; a reader beside two writers needs no third, because a connection starts over
and a read may span any number of commits of the other. In `CardIterations` three iterations are
one that is overtaken twice, which is what its one recomputation does not survive;
`MaxLoad` counts iterations and disruptions together, so that the three meet
undisrupted, two with one disruption and one alone with two. `MaxPatch` stands for
the largest `uint64` and is reached; in the Go code it is 2^64-1. The first version declares fewer capabilities
than a session is granted, as a version of an earlier release may. In
`SigningKeys` two ticks of lifetime and one of fetching tell apart a fresh, an
old and an expired answer; `Longest` ends the count of ticks where more make no difference.
In `NativeCards` the documents have initial states with a flag, a list, a nested and a missing path, and expressions over
each, so that every operator is tried on every kind of argument it is checked for;
`MaxNumber` bounds what timers and increments reach. `MaxExpressionDepth` is 32 in the code; with 3 there are
expressions whose operations are just accepted (`Deep`) and just refused (`TooDeep`). Timers count up, down or not
at all, with an end at zero or none.
`CardVersions` has two versions that share a schema and one that does not, and each step of
the history adds, keeps or removes a capability, so that every kind of change
occurs in both directions. Three switches are a change, its way back and one more
that fails; two backups are fewer than the backups those make, so pruning
happens; two prompts are one that is asked before a change and one after it.
Edits, prompts, messages under way, switches and restarts are bounded by guards
(`MaxEdits`, `MaxPrompts`, `MaxQueued`, `MaxSwitches`, `MaxRestarts`);
`MaxBackups` is a constant of the code, 10 there.
In `AgentStudio` two sessions are an old one that is still followed and the one the user
has gone on to. `MaxFailures` is a constant of the code, 3 there; two errors
use it up with 2. A worker goes on while there are fewer than `MaxEvents` events in
all, which lets one session become ready, or both come to an end. One call at a
time still overlaps with resets, followers and the worker; two calls at a time,
a double click, have been left out for their states (the theorems are for any number of calls).
`agent_studio` does not check for deadlock, because the controller does stop: after
a session that is ready, failed or cancelled, `canSubmit` stays false, and only
`startFromVersion`, for a card there is, leads on.
The worker runs do not check for deadlock: when every session is settled and
the disruptions are used up, nothing is left to do. The iterations of a card come
to an end too; in `postgres_store`, where the other parts do not, `IterationsEnded`
lets them rest.

Fairness. `runWorker` polls in an endless loop, so claims are weakly fair; a store
call or agent run returns, so is every call of `RunOnce`; time passes, so an
untended lease runs out. In the studio every await of a follower ends: requests in an
answer or an error, timers by firing, and streams because the server's read and
write limits of 30 s (`cmd/agentcard/main.go`) end the request, its context and with it the
subscription. Polls need no fairness: what a stream has missed, the `get` after it shows. Nothing makes a user create, confirm or cancel a
session, and nothing makes a disruption happen. `postgres_store` and `card_versions` check
safety only, so their specifications have no fairness.

## What the runs refute

* **An exhausted job can stay running for ever** (`postgres_exhausted`). The
  claim of `PostgresStore` marks exhausted jobs failed inside its transaction
  and rolls it back when it finds no other job. Every poll does so again.
* **A ready session with a failed job** (`ready_job_failed`). A worker stalls, another
  attempt overlaps; one of them marks the session ready, the other's `MarkReady` is
  then refused, `MarkFailed` leaves the ready session alone, and `Fail` fails
  the job. The plan document excludes this state.
* **A session without a future** (`crashed_session`). `Claim` fails a job whose
  attempts are used up, and nobody fails its session. The same happens when
  `MarkFailed` reports an error, which `Worker.fail` ignores.

* **A row that names a version that does not run** (`row_is_running`). A window's
  card asks for a capability; the prompt waits under the dialog of a version
  change and is approved after it. The grant row names the old version. When the next
  activation fails, the recovery hands this grant to
  `switchInstalledInstanceVersion`, which accepts grants of its target only, and
  the recovery is rolled back. `NoHalfSwitch` shows that this is the only way:
  without such a grant a failed change leaves row, grants and state as they were.
* **Edits that disappear** (`shown_state`). A flush updates the database and not
  the `WorkspaceCard`; leaving the workspace page and coming back shows the
  card's old state, and the next edit overwrites the stored one. Detaching has the
  same effect on edits of the last 300 ms, because the snapshot for the window is read first.
* **A state of another schema** (`state_schema`). A version change does not reach a
  detached window. It shows the old version until it is closed, and each of its edits is stored
  in the namespace of the new version.

Met while modelling the studio, and not yet stated by a run: when the answer to
`confirm` is lost, the panel goes on taking the session for one that awaits
confirmation, and sends each later prompt as a message to it, which the service
refuses; an answer to `submit` that arrives after `startFromVersion` brings a session
without the base version the panel names; a follower that is still running after a
reset shows its session again.

Three observations of the pipeline follow from session writes
carrying no lease and publication checking neither lease nor session: a version
may be inserted for a session cancelled a moment ago; a session may be marked failed by a
late attempt although another one has published its version; and a worker that
has lost its lease may still end its session. None of these breaks the
properties of `worker_safety`.

Met while modelling iterations and the agent:

* The design documents speak of three model calls for a task at most
  (`agent-card-container-design.md:489`). A store error after `Generate` that can be
  retried runs the agent again, so it is three for each attempt of the job.
  A provider that is down, in contrast, ends the job without a retry.
* `TrustedArtifactKeys` holds the current key only. Once the signing key is changed, no
  version signed before can be iterated on (`LoadBase`).
* `Confirm` grants every session the same two capabilities, while an iteration's manifest keeps those of
  its base: what the user confirms is not what the card may do (`Built`). The
  property `CapabilitiesNeverWiden` is what the code keeps.
* A version's `CreatedAt` is its job's, so the newest in a list need not have the
  highest display version. A base source may have 512 KB, an answer 2 MB: a card
  can be published and be too large to iterate on.
* `CanonicalJSON` writes strings with `strconv.Quote`, whose escapes are not all
  JSON's.
* In `PostgresRepository` the primary keys of events and messages alone would refuse
  a lost update; `FOR UPDATE` makes it wait in place of failing.

Met while modelling native cards: every generated card gets `stateSchemaVersion` 1 or its
base's, and only the prompt forbids an iteration to change the state's shape, while the
desktop merges the old state over the new `initialState` at the top level only. An
iteration that adds a nested path, or gives a path another type, is validated against a
state it does not start from. This is why the properties of `NativeCards` are about
states that still fit (`Fits`), and why `Update` may leave one that does not.
The validator asks only that the path of a control exists, so a text input on a number
makes later increments throw; a timer whose path has lost its parent throws on each
tick and is never cancelled; a result whose path cannot be written any more is reported as
an unavailable bridge; a countdown without an end reaches durations `formatDuration`
refuses.

Read, and not modelled, on the desktop: nobody calls `LocalRuntimeServer.closeSession`;
suspending and resuming a code card check the host's state before awaits that may
end in the other order; `moveToOverlay` and `reconcileDisplays` do not skip
quarantined instances; overlapping surface calls read the list of instances before
they await the window, and can open two for one card; `SurfaceCardSnapshot.fromJson`
wants the host `127.0.0.1`, where sessions have `<id>.localhost`. Saving the cloud
settings writes the token and the configuration to two stores: a crash between
them, or a compensation that fails, leaves them of two different saves, although the message then says
that the configuration is unchanged.

## Proofs

`GenerationWorkerProofs` begins with the queue's contract: it keeps its types (`JobsTyped`)
and every step of it is an advance (`JobsProgress`): a reservation is never
changed, a settled job stays as it is, attempts grow one at a time. It then shows that the pipeline
uses its parts as the contracts allow: every behaviour of it is one of the queue (`PipelineRunsTheQueue`)
and one of the sessions (`PipelineRunsTheSessions`), the same two contracts that the stores
and the tables are shown to implement below. So the parts fit together, and `JobsProgress`
holds in the pipeline too (`PipelineKeepsItsJobs`).

The main result of the module is the inductive invariant `IInv`, for any sessions,
workers, versions, contents and bounds, in either wiring. The four safety properties of the pipeline
are not inductive: whether a publication is right depends on what the worker
read a while ago. `IInv` therefore adds `WorkerKnows`, what a worker in the
middle of `RunOnce` may rely on: its reserved version is still the job's, what it
saw validating or ready has not gone back, and before `ready` its row
is in the catalog. The argument then is in two halves. *Stores never take back
what they said* (`StoresMove`, lemma `KnowledgeSurvives`): reservations are
write-once, sessions move forward, the catalog grows; so a step by somebody else
keeps what a worker knows. *A call adds what its answer says*: one lemma for
each store call (`...Keeps`) shows that the worker's new knowledge is true and
that its effect keeps the four properties. `TerminalStays` shows the action property from
the transition table alone.
`OwnersRunLastAttempts` needs a second invariant (`AttemptsInv`): no worker runs an attempt the job has not
counted, so a claim, which counts one more, hands out an attempt nobody has run.
A third one (`ConfirmedInv`) is about the user's consent, which no run states: only a confirmed session
has a job, a worker at work on a session has read the requirement that was confirmed, and that is all
the session's messages, however late the attempt is (`WorkFollowsConfirmation`, `JobsFollowConfirmation`).

`JobStoreProofs` shows that both stores implement the contract, for any lease and
lag. The invariant is `GoodRow`, the agreement of a row's columns (an owner if and only if it is running, no
lease that is good on any clock unless it is running), which every call keeps; the contract's step is then found for each call from the
row it changes. `MemoryTyped`, `PgTyped`, `MemoryRowsAgree` and `PgRowsAgree` are what both stores' rows keep.
For the database the invariant adds that overlapping claims lock disjoint rows
(`PgClaimsDisjoint`), since a row locked by another claim may not be changed under it. For the
memory store it also shows that no older job is passed over (`MemoryServesOldestFirst`).

`PostgresSessionsProofs` says what the row lock is good for (`LockKept`): what the holder has
loaded is what the tables have, and what it is about to commit is one operation of the
service. The refinement follows, since nothing else writes. Reads hold no lock
(`ReadCovered`): the row is read first, messages and events only grow, so what comes later
covers it. `ConfirmationIsFinal` gives the tables what `ConfirmedInv` gives the pipeline: once a
requirement is in the row, it and the messages stay as they are, whichever transactions overlap.

`CardIterationsProofs` is about attempts that act on what they read several steps ago
(`AttemptInv`): the archive about to be inserted is stored, the capabilities read are the
first version's, and all numbers below an attempt's own are taken. Others cannot undo any
of this, because rows and objects are only added. From the last one `VersionsGapFree`
follows at the insert; `RefusedWasTaken` remembers who had the number that was refused.

`SigningKeysProofs` bounds how old an answer (`AnswersAreRecent`) and the cache
(`CacheExpires`, `CacheIsFresh`) can be; the two properties are sums of these bounds.

`CardVersionsProofs` shows the invariant `VInv` (rows, backups, grants and prompts
are well formed, a change has a target other than what runs, a prompt of the current broker is about its version) for any
versions, schemas, capabilities and bounds, and from it that a change is whole
(`ChangesAreWhole`) and that the state which is left is backed up (`LeftStatesAreBackedUp`),
both as action properties.

`NativeCardsProofs` shows that the service's validator is sound for the desktop's interpreter, for any
documents, any expressions and any limit on their depth. First, the recursive functions satisfy their
equations (`TypeEquation`, `ValueEquation`, `RunEquation`): `f[x \in S] == ...` only chooses a function, and
that there is one takes an induction over levels, or over the actions of a press. It is an induction over the
numbers of one set, which the library gives as the well-foundedness of `<` (`Induction`). Then *type soundness*, level by level
(`LevelsSound`): where the validator gives an expression a type, the evaluator has a value of that kind in
every state that fits, or fails by a division by zero or a negative duration; in the initial state these too
are excluded as far as the validator looks (`StartSound`). An action keeps `RunOK`: no type error where the state
fits, timers on numbers of `initialState`, accepted actions behind a call. `NativeInv` says the same of the
card between the steps; it is what `RunsAsValidated` and `FailuresAreExplained` need, because a press may
have broken off half-way and the rest of another may run over a state that has moved on.
`OnlyForeignWritesBreakKinds` shows from the same lemmas where a state that does not fit can come from:
never from increments, toggles, lists or timers.

`AgentStudioProofs` has three layers. `GoodStream`: what a subscription has still to send are
the ids after the last one taken, up to its cursor; each publication, poll, reconnection and delivery keeps
this, which gives `StreamContiguous`. `HistoryKept`: histories grow, and a terminal status
stays. `Knows`: so what a follower has learned of its session
stays true while it waits, and when it ends without an error the card of a ready session has
been installed. `ShownInv` adds what the panel shows while one session alone is followed.

The assumptions of all theorems are the named `ASSUME`s of the constants, which TLC
evaluates in the runs.

Only model-checked: liveness (`SessionsSettle`, `JobsSettle`, `FollowsEnd`; `ExhaustedJobIsSettled`
of the memory store), which is out of the prover's reach. Every safety property that a passing run checks
is a theorem too.

## What is left

In the order of what it would add: overlapping moves and overlays of a card (`Surfaces`), with the window
manager's answers as an environment; the base version in `AgentStudio`, and two calls at a time; the debounced
placements of the workspace and their rollback; the two stores of the cloud settings; the overlap of
`refresh` and `selectCard` in the card catalog; a fair specification of `CardVersions`, for a
change that is never ended when its page is left.

## Not modelled

* The host of code cards (mounting, suspending, quarantine) and overlays: their order is decided by the web
  view's, the window manager's and Flutter's callbacks, which are not in the repository; a model would have
  to guess them.
* The grid layout and placements: a placement is not read by any other part.
* Cloud settings and the lists of the card catalog: one writer, no other part acts on
  a mixture that a restart would not show; described above.
* The container that builds and evaluates code cards, and packing: external processes and
  byte formats, no state kept between calls.
* The contract generator (build time), HTTP decoding and the claims of a token, prompts and texts,
  widgets, logging and the SQLite binding.
