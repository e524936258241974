--------------------------- MODULE GenerationWorker ---------------------------
(***************************************************************************)
(* The generation pipeline: clients confirm and cancel sessions through    *)
(* the API, worker processes claim jobs and drive Worker.RunOnce, and the  *)
(* job queue, the session repository and the version catalog are three     *)
(* stores without a common transaction.  A worker makes one store call in  *)
(* a step; between two calls anything can happen.                          *)
(*                                                                         *)
(* A session here asks for a new card (no base version).  Its artifact is  *)
(* told apart by the content the agent produced: two runs of the agent     *)
(* need not agree.                                                         *)
(***************************************************************************)
EXTENDS JobLease, GenerationSession

CONSTANTS Contents,       \* what the agent can produce
          NoContent,
          NoSession,
          MaxFaults,      \* bound: disruptions in a behaviour
          FaultKinds,     \* which disruptions happen, see Fault
          AtomicConfirm,  \* PostgreSQL: confirm and enqueue are one transaction
          KeepExhausted   \* PostgreSQL: a claim without a job rolls back

ASSUME GenerationWorkerAssumption ==
    /\ NoContent \notin Contents
    /\ NoSession \notin Sessions
    /\ MaxFaults \in Nat
    /\ FaultKinds \subseteq {"crash", "stall", "call", "markFailed", "disconnect"}
    /\ AtomicConfirm \in BOOLEAN
    /\ KeepExhausted \in BOOLEAN

VARIABLES catalog,  \* rows of card_versions
          worker,   \* what each worker process is doing
          client,   \* API calls that still have their second store call to make
          faults    \* disruptions so far

vars == <<jobs, session, catalog, worker, client, faults>>

CatalogRow == [version : VersionIds, session : Sessions, content : Contents]

\* The store call a worker makes next, or "idle" between two RunOnce.
Pc == {"idle", "load", "start", "reserve", "find", "generate", "validate",
       "publish", "ready", "complete", "retry", "markFailed", "failJob"}

WorkerState ==
    [pc      : Pc,
     job     : Sessions \cup {NoSession},
     attempt : 0..MaxAttempts,              \* Job.Attempts of the claimed copy
     seen    : Session,                     \* the session as it was loaded
     version : VersionIds \cup {NoVersion}, \* the reserved publication
     output  : Contents \cup {NoContent},   \* the agent's result
     context : {"live", "cancelled"}]       \* the work context

Idle == [pc |-> "idle", job |-> NoSession, attempt |-> 0, seen |-> NoSessionYet,
         version |-> NoVersion, output |-> NoContent, context |-> "live"]

Init == /\ JobsInit
        /\ SessionInit
        /\ catalog = {}
        /\ worker = [w \in Workers |-> Idle]
        /\ client = [s \in Sessions |-> {}]
        /\ faults = 0

\* A disruption: a process dies, a heartbeat stalls, a store call reports an
\* error (its effect done or not; the error of MarkFailed is a kind of its own,
\* since it is ignored), a client hangs up.
Fault(kind) ==
    /\ kind \in FaultKinds
    /\ faults < MaxFaults
    /\ faults' = faults + 1

Working(w, s) == worker[w].pc # "idle" /\ worker[w].job = s

\* The worker that holds the lease of s and renews it.
Tended(s) == \E w \in Workers :
                Working(w, s) /\ worker[w].context = "live" /\ Held(w, s)

-----------------------------------------------------------------------------
(* Clients. *)

CreateSession(s) ==
    /\ Create(s)
    /\ UNCHANGED <<jobs, catalog, worker, client, faults>>

SendMessage(s) ==
    /\ AddMessage(s)
    /\ UNCHANGED <<jobs, catalog, worker, client, faults>>

ConfirmSession(s) ==
    /\ Confirm(s)
    /\ IF AtomicConfirm
       THEN Enqueue(s) /\ UNCHANGED client
       ELSE client' = [client EXCEPT ![s] = @ \cup {"enqueue"}] /\ UNCHANGED jobs
    /\ UNCHANGED <<catalog, worker, faults>>

\* Without the transaction, the job is enqueued after the session was saved.
EnqueueConfirmed(s) ==
    /\ "enqueue" \in client[s]
    /\ Enqueue(s)
    /\ client' = [client EXCEPT ![s] = @ \ {"enqueue"}]
    /\ UNCHANGED <<session, catalog, worker, faults>>

CancelSession(s) ==
    /\ Cancel(s)
    /\ client' = [client EXCEPT ![s] = @ \cup {"cancelJob"}]
    /\ UNCHANGED <<jobs, catalog, worker, faults>>

CancelJob(s) ==
    /\ "cancelJob" \in client[s]
    /\ \/ CancelBySession(s)
       \/ jobs[s].status \notin {"queued", "running"} /\ UNCHANGED jobs
    /\ client' = [client EXCEPT ![s] = @ \ {"cancelJob"}]
    /\ UNCHANGED <<session, catalog, worker, faults>>

\* The request context ends before the second call, which then does nothing;
\* neither does the MarkFailed that Confirm attempts with the same context.
Disconnect(s) ==
    /\ Fault("disconnect")
    /\ \E call \in client[s] : client' = [client EXCEPT ![s] = @ \ {call}]
    /\ UNCHANGED <<jobs, session, catalog, worker>>

-----------------------------------------------------------------------------
(* The worker: claim, then one action per store call of RunOnce. *)

ClaimJob(w, s) ==
    /\ worker[w].pc = "idle"
    /\ \E dropped \in SUBSET Sessions : Claim(w, s, dropped)
    /\ worker' = [worker EXCEPT ![w] =
          [Idle EXCEPT !.pc = "load", !.job = s, !.attempt = jobs'[s].attempts]]
    /\ UNCHANGED <<session, catalog, client, faults>>

\* A poll that finds only exhausted jobs.
DropExhausted(w) ==
    /\ ~KeepExhausted
    /\ worker[w].pc = "idle"
    /\ \A s \in Sessions : Claimable(s) => Exhausted(s)
    /\ FailExhausted({s \in Sessions : Exhausted(s)})
    /\ UNCHANGED <<session, catalog, worker, client, faults>>

\* Worker.fail: what follows an error of the given kind.  A context error
\* writes nothing (Abandon below); a transient one is retried while attempts
\* are left.
AfterError(w, kind) ==
    IF kind = "transient" /\ worker[w].attempt < MaxAttempts THEN "retry" ELSE "markFailed"

\* The call at pc was answered and the worker goes on with the record next; or
\* the answer is lost after the store has acted, and an error takes its place.
Reply(w, next) ==
    \/ worker' = [worker EXCEPT ![w] = next] /\ UNCHANGED faults
    \/ /\ Fault("call")
       /\ \E kind \in {"transient", "permanent"} :
            worker' = [worker EXCEPT ![w].pc = AfterError(w, kind)]

At(w, pc) == worker[w].pc = pc /\ worker[w].context = "live"

Load(w) ==
    LET s    == worker[w].job
        seen == session[s]
    IN  /\ At(w, "load")
        /\ Reply(w, [worker[w] EXCEPT
              !.seen = seen,
              !.pc   = IF seen.status = "queued" THEN "start"
                       ELSE IF /\ seen.status \in {"generating", "validating", "ready"}
                               /\ seen.requirement # 0
                            THEN "reserve" ELSE "markFailed"])
        /\ UNCHANGED <<jobs, session, catalog, client>>

Start(w) ==
    LET s == worker[w].job
    IN  /\ At(w, "start")
        /\ \/ /\ StartGenerating(s)
              /\ Reply(w, [worker[w] EXCEPT
                    !.seen = session'[s],
                    !.pc = IF session'[s].requirement # 0 THEN "reserve" ELSE "markFailed"])
           \/ /\ ~CanTransition(s, "generating")
              /\ UNCHANGED session
              /\ Reply(w, [worker[w] EXCEPT !.pc = "markFailed"])
        /\ UNCHANGED <<jobs, catalog, client>>

\* The time passed is the one read before the claim, so the fence is never
\* closed to the owner.  An error is returned as it is: the job keeps its lease.
Reserve(w) ==
    LET s == worker[w].job
    IN  /\ At(w, "reserve")
        /\ \/ /\ \E v \in VersionIds \ {jobs[t].version : t \in Sessions} :
                   ReservePublication(w, s, v)
              /\ worker' = [worker EXCEPT ![w].pc = "find", ![w].version = jobs'[s].version]
           \/ /\ ~Held(w, s)
              /\ UNCHANGED jobs
              /\ worker' = [worker EXCEPT ![w] = Idle]
        /\ UNCHANGED <<session, catalog, client, faults>>

FindAssumingPublished(w) ==
    /\ At(w, "find")
    /\ worker' = [worker EXCEPT ![w].pc =
          IF worker[w].seen.status \in {"validating", "ready"} THEN "ready" ELSE "generate"]
    /\ UNCHANGED <<jobs, session, catalog, client, faults>>

FindWithoutReady(w) ==
    /\ At(w, "find")
    /\ worker' = [worker EXCEPT ![w].pc =
          IF \E row \in catalog : row.version = worker[w].version THEN "complete" ELSE "generate"]
    /\ UNCHANGED <<jobs, session, catalog, client, faults>>

\* FindVersion.  A published version only needs its session and job settled.
Find(w) ==
    LET me    == worker[w]
        found == \E row \in catalog : row.version = me.version /\ row.session = me.job
    IN  /\ At(w, "find")
        /\ Reply(w, [me EXCEPT !.pc =
              IF found
              THEN IF me.seen.status # "ready" THEN "ready"
                   ELSE IF me.seen.version = me.version THEN "complete" ELSE "markFailed"
              ELSE IF me.seen.status = "ready" THEN "markFailed" ELSE "generate"])
        /\ UNCHANGED <<jobs, session, catalog, client>>

GenerateUnvalidated(w) ==
    /\ At(w, "generate")
    /\ \E content \in Contents :
         worker' = [worker EXCEPT ![w].output = content, ![w].pc = "publish"]
    /\ UNCHANGED <<jobs, session, catalog, client, faults>>

\* The agent's own retries and validation rounds end in an artifact or in an
\* error that no further attempt of the job repairs.
Generate(w) ==
    /\ At(w, "generate")
    /\ \/ \E content \in Contents :
            worker' = [worker EXCEPT
               ![w].output = content,
               ![w].pc = IF worker[w].seen.status = "validating" THEN "publish" ELSE "validate"]
       \/ worker' = [worker EXCEPT ![w].pc = "markFailed"]
    /\ UNCHANGED <<jobs, session, catalog, client, faults>>

Validate(w) ==
    LET s == worker[w].job
    IN  /\ At(w, "validate")
        /\ \/ /\ StartValidating(s)
              /\ Reply(w, [worker[w] EXCEPT !.pc = "publish"])
           \/ /\ ~CanTransition(s, "validating")
              /\ UNCHANGED session
              /\ Reply(w, [worker[w] EXCEPT !.pc = "markFailed"])
        /\ UNCHANGED <<jobs, catalog, client>>

\* Insert the version, or accept the row that says the same.
Publish(w) ==
    LET me  == worker[w]
        row == [version |-> me.version, session |-> me.job, content |-> me.output]
    IN  /\ At(w, "publish")
        /\ \/ /\ \A other \in catalog : other.version = me.version => other = row
              /\ catalog' = catalog \cup {row}
              /\ Reply(w, [me EXCEPT !.pc = "ready"])
           \/ /\ \E other \in catalog : other.version = me.version /\ other # row
              /\ UNCHANGED catalog
              /\ Reply(w, [me EXCEPT !.pc = "markFailed"])
        /\ UNCHANGED <<jobs, session, client>>

Ready(w) ==
    LET s == worker[w].job
    IN  /\ At(w, "ready")
        /\ \/ /\ MarkReady(s, worker[w].version)
              /\ Reply(w, [worker[w] EXCEPT !.pc = "complete"])
           \/ /\ ~CanTransition(s, "ready")
              /\ UNCHANGED session
              /\ Reply(w, [worker[w] EXCEPT !.pc = "markFailed"])
        /\ UNCHANGED <<jobs, catalog, client>>

\* A fenced write: the store applies it for the owner, and may refuse it once
\* the lease has run out.
FencedWrite(w, s, write) ==
    \/ write
    \/ ~(Held(w, s) /\ jobs[s].live) /\ UNCHANGED jobs

Complete(w) ==
    LET s == worker[w].job
    IN  /\ At(w, "complete")
        /\ FencedWrite(w, s, Finish(w, s, "completed"))
        /\ worker' = [worker EXCEPT ![w] = Idle]
        /\ UNCHANGED <<session, catalog, client, faults>>

RetryJob(w) ==
    LET s == worker[w].job
    IN  /\ At(w, "retry")
        /\ FencedWrite(w, s, Retry(w, s))
        /\ worker' = [worker EXCEPT ![w] = Idle]
        /\ UNCHANGED <<session, catalog, client, faults>>

\* Mutant: the job is failed without its session.
FailOnlyJob(w) ==
    /\ At(w, "markFailed")
    /\ worker' = [worker EXCEPT ![w].pc = "failJob"]
    /\ UNCHANGED <<jobs, session, catalog, client, faults>>

\* MarkFailed is not fenced, and its error is ignored.
FailSession(w) ==
    /\ At(w, "markFailed")
    /\ \/ MarkFailed(worker[w].job) /\ UNCHANGED faults
       \/ Fault("markFailed") /\ UNCHANGED session
    /\ worker' = [worker EXCEPT ![w].pc = "failJob"]
    /\ UNCHANGED <<jobs, catalog, client>>

FailJob(w) ==
    LET s == worker[w].job
    IN  /\ At(w, "failJob")
        /\ FencedWrite(w, s, Finish(w, s, "failed"))
        /\ worker' = [worker EXCEPT ![w] = Idle]
        /\ UNCHANGED <<session, catalog, client, faults>>

\* A call fails without any effect.  Only errors that reach Worker.fail are
\* told apart; the others end RunOnce.
CallFails(w) ==
    /\ worker[w].context = "live"
    /\ Fault("call")
    /\ \/ /\ worker[w].pc \in {"load", "start", "find", "validate", "publish", "ready"}
          /\ \E kind \in {"transient", "permanent"} :
               worker' = [worker EXCEPT ![w].pc = AfterError(w, kind)]
       \/ /\ worker[w].pc \in {"reserve", "complete", "retry", "failJob"}
          /\ worker' = [worker EXCEPT ![w] = Idle]
    /\ UNCHANGED <<jobs, session, catalog, client>>

-----------------------------------------------------------------------------
(* The lease and its heartbeat. *)

\* A renewal that comes late, but in time for the clock it carries.
Renew(w) ==
    /\ worker[w].pc # "idle"
    /\ ~jobs[worker[w].job].live
    /\ ExtendLease(w, worker[w].job)
    /\ UNCHANGED <<session, catalog, worker, client, faults>>

\* A renewal is refused, or fails: the work context is cancelled.
LoseLease(w) ==
    /\ worker[w].pc # "idle"
    /\ worker[w].context = "live"
    /\ \/ ~(Held(w, worker[w].job) /\ jobs[worker[w].job].live) /\ UNCHANGED faults
       \/ Fault("call")
    /\ worker' = [worker EXCEPT ![w].context = "cancelled"]
    /\ UNCHANGED <<jobs, session, catalog, client>>

\* Every call with a cancelled context returns its error without acting, and
\* Worker.fail returns it without writing.
Abandon(w) ==
    /\ worker[w].pc # "idle"
    /\ worker[w].context = "cancelled"
    /\ worker' = [worker EXCEPT ![w] = Idle]
    /\ UNCHANGED <<jobs, session, catalog, client, faults>>

\* The process dies, or is shut down, and another one takes its place.
Crash(w) ==
    /\ worker[w].pc # "idle"
    /\ Fault("crash")
    /\ worker' = [worker EXCEPT ![w] = Idle]
    /\ UNCHANGED <<jobs, session, catalog, client>>

\* A lease nobody renews runs out.  A renewed one does only when its heartbeat
\* or its database stalls.
ExpireLease(s) ==
    /\ Expire({s})
    /\ IF Tended(s) THEN Fault("stall") ELSE UNCHANGED faults
    /\ UNCHANGED <<session, catalog, worker, client>>

-----------------------------------------------------------------------------
WorkerCall(w) ==
    \/ Load(w) \/ Start(w) \/ Reserve(w) \/ Find(w) \/ Generate(w) \/ Validate(w)
    \/ Publish(w) \/ Ready(w) \/ Complete(w) \/ RetryJob(w) \/ FailSession(w) \/ FailJob(w)
    \/ Abandon(w)

WorkerNext(w) ==
    \/ \E s \in Sessions : ClaimJob(w, s)
    \/ DropExhausted(w)
    \/ WorkerCall(w)
    \/ CallFails(w)
    \/ Renew(w)
    \/ LoseLease(w)
    \/ Crash(w)

ClientNext(s) ==
    \/ CreateSession(s) \/ SendMessage(s) \/ ConfirmSession(s) \/ EnqueueConfirmed(s)
    \/ CancelSession(s) \/ CancelJob(s) \/ Disconnect(s)

Next == \/ \E w \in Workers : WorkerNext(w)
        \/ \E s \in Sessions : ClientNext(s) \/ ExpireLease(s)

Spec == Init /\ [][Next]_vars

\* runWorker polls for ever, a store call or an agent run returns, an API
\* handler goes on to its second call, and time passes.  Nothing makes a user
\* create, confirm or cancel.
FairSpec ==
    /\ Spec
    /\ \A w \in Workers :
          /\ WF_vars(WorkerCall(w))
          /\ WF_vars(DropExhausted(w) \/ \E s \in Sessions : ClaimJob(w, s))
    /\ \A s \in Sessions : WF_vars(ExpireLease(s) /\ ~Tended(s))
    /\ \A s \in Sessions : WF_vars(EnqueueConfirmed(s)) /\ WF_vars(CancelJob(s))

-----------------------------------------------------------------------------
(* Safety. *)

TypeOK ==
    /\ jobs \in [Sessions -> Job]
    /\ session \in [Sessions -> Session]
    /\ catalog \subseteq CatalogRow
    /\ worker \in [Workers -> WorkerState]
    /\ client \in [Sessions -> SUBSET {"enqueue", "cancelJob"}]
    /\ faults \in 0..MaxFaults

\* However many attempts run, and overlap, a session has one version at most,
\* and it is the one reserved on its job.
OneVersionPerSession ==
    /\ \A r1, r2 \in catalog : r1.session = r2.session => r1 = r2
    /\ \A row \in catalog : jobs[row.session].version = row.version

\* A ready session names a version that is in the catalog, for this session.
ReadyHasVersion ==
    \A s \in Sessions : session[s].status = "ready" =>
        \E row \in catalog : row.session = s /\ row.version = session[s].version

\* A job is completed only once its session is ready, by whichever attempt.
CompletedMeansReady ==
    \A s \in Sessions : jobs[s].status = "completed" => session[s].status = "ready"

\* Nothing reaches the catalog before its session was seen to validate.
PublishedMeansValidated ==
    \A row \in catalog :
        session[row.session].status \in {"validating"} \cup TerminalSession

\* The lease names a process, not an attempt.  That is enough: while a worker
\* holds the lease of the job it works on, it runs the job's last attempt, and
\* no two workers run the same attempt.
OwnerRunsLastAttempt ==
    \A w \in Workers, s \in Sessions :
        Working(w, s) =>
            /\ Held(w, s) => worker[w].attempt = jobs[s].attempts
            /\ \A u \in Workers : Working(u, s) /\ worker[u].attempt = worker[w].attempt => u = w

\* Late success, late failure and late cancellation: a terminal session stays
\* as it is, although no session write is fenced by the lease.
TerminalIsFinal ==
    [][\A s \in Sessions :
         session[s].status \in TerminalSession => session'[s] = session[s]]_vars

\* What a worker in mid-flight may rely on, whatever the other workers and the
\* clients did since it last looked.  Its snapshot may be stale, but only
\* behind: the version it reserved is still the job's, and what it saw
\* validating or ready has not gone back.
WorkerKnows(me) ==
    me.pc # "idle" =>
        /\ me.job \in Sessions
        /\ me.pc \in {"find", "generate", "validate", "publish", "ready", "complete"} =>
              me.version # NoVersion /\ jobs[me.job].version = me.version
        /\ me.seen.status = "validating" \/ me.pc \in {"publish", "ready"} =>
              session[me.job].status \in {"validating"} \cup TerminalSession
        /\ me.seen.status = "ready" \/ me.pc = "complete" => session[me.job].status = "ready"
        /\ me.pc \in {"validate", "publish"} => me.output \in Contents
        /\ me.pc = "ready" =>
              \E row \in catalog : row.session = me.job /\ row.version = me.version

\* The inductive invariant behind the three properties above it.
IInv ==
    /\ TypeOK
    /\ \A w \in Workers : WorkerKnows(worker[w])
    /\ OneVersionPerSession
    /\ ReadyHasVersion
    /\ CompletedMeansReady
    /\ PublishedMeansValidated

-----------------------------------------------------------------------------
(* Liveness. *)

\* A confirmed session gets to its end, whatever crashes, stalls, fails or hangs
\* up, as long as attempts are left and MarkFailed, when it is called, succeeds.
SessionsSettle ==
    \A s \in Sessions :
        session[s].status \in {"queued", "generating", "validating"}
            ~> session[s].status \in TerminalSession

\* An enqueued job gets to its end, also when a Retry, Complete or Fail of it is
\* lost, or the client's CancelGeneration: then a later claim ends it.
JobsSettle ==
    \A s \in Sessions :
        jobs[s].status \in {"queued", "running"} ~> jobs[s].status \in TerminalJob

-----------------------------------------------------------------------------
(* What the repository's documents say of the pipeline, and a run refutes. *)

\* "no ready session with a job that is not completed"
ReadyJobNotFailed ==
    \A s \in Sessions : session[s].status = "ready" => jobs[s].status # "failed"

=============================================================================
