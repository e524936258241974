------------------------ MODULE GenerationWorkerProofs ------------------------
(***************************************************************************)
(* The safety of the generation pipeline for any number of sessions,       *)
(* workers, attempts and disruptions: a session has at most one published  *)
(* version, a ready session has it, and a completed job has a ready        *)
(* session.                                                                *)
(*                                                                         *)
(* The argument: no store ever takes back what it has said (StoresAdvance),*)
(* so what a worker has learned stays true however late it acts on it      *)
(* (WorkerKnows); every write a worker makes rests on what it knows.       *)
(*                                                                         *)
(* The queue's contract, JobLease, comes first.  At the end the pipeline   *)
(* is shown to use queue and sessions as their contracts allow.            *)
(***************************************************************************)
EXTENDS GenerationWorker, TLAPS

-----------------------------------------------------------------------------
(* The queue's contract (JobLease): it keeps its types, and what is once     *)
(* reserved or settled stays so.                                             *)

JobsTypeOK == jobs \in [Sessions -> Job]

\* A reservation is never replaced.
ReservationsKept ==
    \A s \in Sessions : jobs[s].version # NoVersion => jobs'[s].version = jobs[s].version

\* A settled job is never reopened, and keeps its attempts.
SettledJobsKept ==
    \A s \in Sessions : jobs[s].status \in TerminalJob => jobs'[s] = jobs[s]

\* Attempts only grow, one by one.
AttemptsCounted ==
    \A s \in Sessions : jobs'[s].attempts \in {jobs[s].attempts, jobs[s].attempts + 1}

\* The initial queue has no jobs and is well typed.
LEMMA JobsInitTyped == JobsInit => JobsTypeOK
  BY JobLeaseAssumption, GenerationConstantsAssumption DEF JobsInit, JobsTypeOK, Absent, Job

\* What every action of the contract keeps.
LEMMA JobsStep ==
  ASSUME JobsTypeOK, [JobsNext]_jobs
  PROVE  JobsTypeOK' /\ ReservationsKept /\ SettledJobsKept /\ AttemptsCounted
<1> USE JobLeaseAssumption, GenerationConstantsAssumption
    DEF JobsTypeOK, ReservationsKept, SettledJobsKept, AttemptsCounted, TerminalJob, Job
<1>1. CASE UNCHANGED jobs
  BY <1>1
<1>2. ASSUME NEW s \in Sessions, Enqueue(s)
      PROVE  JobsTypeOK' /\ ReservationsKept /\ SettledJobsKept /\ AttemptsCounted
  BY <1>2 DEF Enqueue
<1>3. ASSUME NEW s \in Sessions, CancelBySession(s)
      PROVE  JobsTypeOK' /\ ReservationsKept /\ SettledJobsKept /\ AttemptsCounted
  BY <1>3 DEF CancelBySession, Released
<1>4. ASSUME NEW w \in Workers, NEW s \in Sessions, NEW dropped \in SUBSET Sessions,
             Claim(w, s, dropped)
      PROVE  JobsTypeOK' /\ ReservationsKept /\ SettledJobsKept /\ AttemptsCounted
  <2>1. jobs[s].attempts \in 0..MaxAttempts /\ jobs[s].attempts < MaxAttempts
    BY <1>4 DEF Claim, Exhausted
  <2>2. jobs[s].attempts + 1 \in 0..MaxAttempts
    BY <2>1
  <2> QED BY <1>4, <2>2 DEF Claim, Released, Claimable, Exhausted
<1>5. ASSUME NEW w \in Workers, NEW s \in Sessions, ExtendLease(w, s)
      PROVE  JobsTypeOK' /\ ReservationsKept /\ SettledJobsKept /\ AttemptsCounted
  BY <1>5 DEF ExtendLease, Held
<1>6. ASSUME NEW w \in Workers, NEW s \in Sessions, NEW v \in VersionIds,
             ReservePublication(w, s, v)
      PROVE  JobsTypeOK' /\ ReservationsKept /\ SettledJobsKept /\ AttemptsCounted
  BY <1>6 DEF ReservePublication, Held
<1>7. ASSUME NEW w \in Workers, NEW s \in Sessions, Retry(w, s)
      PROVE  JobsTypeOK' /\ ReservationsKept /\ SettledJobsKept /\ AttemptsCounted
  BY <1>7 DEF Retry, Held, Released
<1>8. ASSUME NEW w \in Workers, NEW s \in Sessions,
             NEW status \in {"completed", "failed"}, Finish(w, s, status)
      PROVE  JobsTypeOK' /\ ReservationsKept /\ SettledJobsKept /\ AttemptsCounted
  BY <1>8 DEF Finish, Held, Released
<1>9. ASSUME NEW some \in SUBSET Sessions, FailExhausted(some)
      PROVE  JobsTypeOK' /\ ReservationsKept /\ SettledJobsKept /\ AttemptsCounted
  BY <1>9 DEF FailExhausted, Released, Claimable, Exhausted
<1>10. ASSUME NEW some \in SUBSET Sessions, Expire(some)
       PROVE  JobsTypeOK' /\ ReservationsKept /\ SettledJobsKept /\ AttemptsCounted
  BY <1>10 DEF Expire
<1> QED
  BY <1>1, <1>2, <1>3, <1>4, <1>5, <1>6, <1>7, <1>8, <1>9, <1>10 DEF JobsNext

\* Every action but a Finish as completed.
NotCompleting ==
    \/ \E s \in Sessions : Enqueue(s) \/ CancelBySession(s)
    \/ \E w \in Workers, s \in Sessions :
          \/ \E dropped \in SUBSET Sessions : Claim(w, s, dropped)
          \/ ExtendLease(w, s)
          \/ \E v \in VersionIds : ReservePublication(w, s, v)
          \/ Retry(w, s)
          \/ Finish(w, s, "failed")
    \/ \E some \in SUBSET Sessions : FailExhausted(some) \/ Expire(some)

NoneCompleted ==
    \A s \in Sessions : jobs'[s].status = "completed" => jobs[s].status = "completed"

\* Only Finish completes a job.
LEMMA OnlyFinishCompletes ==
  ASSUME JobsTypeOK, NotCompleting \/ UNCHANGED jobs
  PROVE  NoneCompleted
<1> USE DEF NoneCompleted, JobsTypeOK, Job
<1>1. ASSUME NEW s \in Sessions, Enqueue(s) PROVE NoneCompleted
  BY <1>1 DEF Enqueue
<1>2. ASSUME NEW s \in Sessions, CancelBySession(s) PROVE NoneCompleted
  BY <1>2 DEF CancelBySession, Released
<1>3. ASSUME NEW w \in Workers, NEW s \in Sessions, NEW dropped \in SUBSET Sessions,
             Claim(w, s, dropped)
      PROVE  NoneCompleted
  BY <1>3 DEF Claim, Released
<1>4. ASSUME NEW w \in Workers, NEW s \in Sessions, ExtendLease(w, s) PROVE NoneCompleted
  BY <1>4 DEF ExtendLease
<1>5. ASSUME NEW w \in Workers, NEW s \in Sessions, NEW v \in VersionIds,
             ReservePublication(w, s, v)
      PROVE  NoneCompleted
  BY <1>5 DEF ReservePublication
<1>6. ASSUME NEW w \in Workers, NEW s \in Sessions, Retry(w, s) PROVE NoneCompleted
  BY <1>6 DEF Retry, Released
<1>7. ASSUME NEW w \in Workers, NEW s \in Sessions, Finish(w, s, "failed") PROVE NoneCompleted
  BY <1>7 DEF Finish, Released
<1>8. ASSUME NEW some \in SUBSET Sessions, FailExhausted(some) PROVE NoneCompleted
  BY <1>8 DEF FailExhausted, Released
<1>9. ASSUME NEW some \in SUBSET Sessions, Expire(some) PROVE NoneCompleted
  BY <1>9 DEF Expire
<1>10. CASE UNCHANGED jobs
  BY <1>10
<1> QED
  BY <1>1, <1>2, <1>3, <1>4, <1>5, <1>6, <1>7, <1>8, <1>9, <1>10 DEF NotCompleting

\* The queue keeps its types, in every behaviour of the contract.
THEOREM JobsTyped == JobsSpec => []JobsTypeOK
<1>1. JobsTypeOK /\ [JobsNext]_jobs => JobsTypeOK'
  BY JobsStep
<1> QED
  BY JobsInitTyped, <1>1, PTL DEF JobsSpec

\* Reservations are write-once, settled jobs stay settled and attempts are
\* counted one by one, in every behaviour of the contract.
THEOREM JobsProgress ==
  JobsSpec => [][ReservationsKept /\ SettledJobsKept /\ AttemptsCounted]_jobs
<1>1. JobsTypeOK /\ [JobsNext]_jobs => [ReservationsKept /\ SettledJobsKept /\ AttemptsCounted]_jobs
  BY JobsStep
<1> QED
  BY JobsTyped, <1>1, PTL DEF JobsSpec


-----------------------------------------------------------------------------
(* What a worker may rely on. *)

\* What the three stores never take back in a step.
StoresAdvance ==
    /\ ReservationsKept
    /\ SettledJobsKept
    /\ \A s \in Sessions :
          session[s].status \in TerminalSession => session'[s] = session[s]
    /\ \A s \in Sessions :
          session[s].status \in {"validating"} \cup TerminalSession =>
              session'[s].status \in {"validating"} \cup TerminalSession
    /\ catalog \subseteq catalog'

\* The types of everything but the workers.
StoresTyped ==
    /\ jobs \in [Sessions -> Job]
    /\ session \in [Sessions -> Session]
    /\ catalog \subseteq CatalogRow
    /\ client \in [Sessions -> SUBSET {"enqueue", "cancelJob"}]
    /\ faults \in 0..MaxFaults

\* The initial state satisfies the invariant.
LEMMA InitInvariant == Init => IInv
<1> SUFFICES ASSUME Init PROVE IInv
  OBVIOUS
<1> USE DEF Init, JobsInit, SessionInit, Absent, NoSessionYet, Idle
<1>1. TypeOK
  BY JobLeaseAssumption, GenerationConstantsAssumption, GenerationSessionAssumption,
     GenerationWorkerAssumption
  DEF TypeOK, Job, Session, SessionStatus, WorkerState, Pc
<1>2. \A w \in Workers : WorkerKnows(worker[w])
  BY DEF WorkerKnows
<1> QED
  BY <1>1, <1>2
  DEF IInv, OneVersionPerSession, ReadyHasVersion, CompletedMeansReady, PublishedMeansValidated

-----------------------------------------------------------------------------
(* Facts about one worker's record. *)

\* What a worker knows survives any step of the stores.
LEMMA KnowledgeSurvives ==
  ASSUME NEW me \in WorkerState, TypeOK, StoresTyped', StoresAdvance, WorkerKnows(me)
  PROVE  WorkerKnows(me)'
  BY DEF WorkerKnows, StoresAdvance, ReservationsKept, TypeOK, StoresTyped, WorkerState,
         TerminalSession

\* An error sends a worker to a call that needs no knowledge of the version.
LEMMA ErrorForgets ==
  ASSUME NEW me \in WorkerState, NEW pc \in {"retry", "markFailed", "failJob"},
         WorkerKnows(me), me.pc # "idle"
  PROVE  /\ [me EXCEPT !.pc = pc] \in WorkerState
         /\ WorkerKnows([me EXCEPT !.pc = pc])
  BY DEF WorkerKnows, WorkerState, Pc

\* An idle worker has its types and knows nothing.
LEMMA IdleKnows == Idle \in WorkerState /\ WorkerKnows(Idle)
  BY JobLeaseAssumption, GenerationConstantsAssumption, GenerationSessionAssumption
  DEF Idle, WorkerKnows, WorkerState, Pc, Session, SessionStatus, NoSessionYet

-----------------------------------------------------------------------------
(* Facts about the stores. *)

\* A session step keeps types and does not touch a terminal session.
LEMMA SessionStep ==
  ASSUME session \in [Sessions -> Session], [SessionNext]_session
  PROVE  /\ session' \in [Sessions -> Session]
         /\ \A s \in Sessions :
              session[s].status \in TerminalSession => session'[s] = session[s]
         /\ \A s \in Sessions :
              session[s].status \in {"validating"} \cup TerminalSession =>
                  session'[s].status \in {"validating"} \cup TerminalSession
<1> DEFINE Good ==
      /\ session' \in [Sessions -> Session]
      /\ \A s \in Sessions :
           session[s].status \in TerminalSession => session'[s] = session[s]
      /\ \A s \in Sessions :
           session[s].status \in {"validating"} \cup TerminalSession =>
               session'[s].status \in {"validating"} \cup TerminalSession
<1> USE GenerationSessionAssumption
    DEF Session, SessionStatus, TerminalSession, CanTransition, allowedTransitions
<1>1. CASE UNCHANGED session
  BY <1>1
<1>2. ASSUME NEW s \in Sessions, Create(s) PROVE Good
  <2>1. 1 \in 0..MaxMessages /\ session[s].status = "absent"
    BY <1>2 DEF Create
  <2>2. session' = [session EXCEPT ![s] =
           [[session[s] EXCEPT !.status = "awaiting_confirmation"] EXCEPT !.messages = 1]]
    BY <1>2 DEF Create
  <2> QED
    BY <2>1, <2>2
<1>3. ASSUME NEW s \in Sessions, AddMessage(s) PROVE Good
  BY <1>3 DEF AddMessage
<1>4. ASSUME NEW s \in Sessions, Confirm(s) PROVE Good
  <2>1. session[s].status = "awaiting_confirmation" /\ session[s].messages \in 0..MaxMessages
    BY <1>4 DEF Confirm
  <2>2. session' = [session EXCEPT ![s] = [[session[s] EXCEPT
           !.status = "queued"] EXCEPT !.requirement = session[s].messages]]
    BY <1>4 DEF Confirm
  <2> QED
    BY <2>1, <2>2
<1>5. ASSUME NEW s \in Sessions, Cancel(s) PROVE Good
  BY <1>5 DEF Cancel, Transition
<1>6. ASSUME NEW s \in Sessions, StartGenerating(s) PROVE Good
  BY <1>6 DEF StartGenerating, Transition
<1>7. ASSUME NEW s \in Sessions, StartValidating(s) PROVE Good
  BY <1>7 DEF StartValidating, Transition
<1>8. ASSUME NEW s \in Sessions, NEW v \in VersionIds, MarkReady(s, v) PROVE Good
  BY <1>8 DEF MarkReady
<1>9. ASSUME NEW s \in Sessions, MarkFailed(s) PROVE Good
  BY <1>9 DEF MarkFailed, Transition
<1> QED
  BY <1>1, <1>2, <1>3, <1>4, <1>5, <1>6, <1>7, <1>8, <1>9 DEF SessionNext

\* The shape of a step of the pipeline for the stores: a step of the queue's
\* contract, a step of the sessions, and a catalog that only grows.
StoresMove ==
    /\ [JobsNext]_jobs
    /\ [SessionNext]_session
    /\ catalog \subseteq catalog'

\* What moves that way advances.
LEMMA StoresMoveAdvances ==
  ASSUME TypeOK, StoresMove
  PROVE  /\ StoresAdvance
         /\ jobs' \in [Sessions -> Job]
         /\ session' \in [Sessions -> Session]
<1>1. jobs \in [Sessions -> Job] /\ session \in [Sessions -> Session]
  BY DEF TypeOK
<1>2. jobs' \in [Sessions -> Job] /\ ReservationsKept /\ SettledJobsKept
  BY <1>1, JobsStep DEF StoresMove, JobsTypeOK
<1> QED
  BY <1>1, <1>2, SessionStep DEF StoresMove, StoresAdvance

\* Every session action but a MarkReady.
NotReadying ==
    \E s \in Sessions :
        \/ Create(s) \/ AddMessage(s) \/ Confirm(s) \/ Cancel(s)
        \/ StartGenerating(s) \/ StartValidating(s) \/ MarkFailed(s)

NoneReady == \A s \in Sessions : session'[s].status = "ready" => session[s].status = "ready"

\* Only MarkReady makes a session ready.
LEMMA OnlyMarkReadyReadies ==
  ASSUME session \in [Sessions -> Session], NotReadying \/ UNCHANGED session
  PROVE  NoneReady
<1> USE DEF NoneReady, Session
<1>1. ASSUME NEW s \in Sessions, Create(s) PROVE NoneReady
  <2>1. session' = [session EXCEPT ![s] =
           [[session[s] EXCEPT !.status = "awaiting_confirmation"] EXCEPT !.messages = 1]]
    BY <1>1 DEF Create
  <2> QED
    BY <2>1
<1>2. ASSUME NEW s \in Sessions, AddMessage(s) PROVE NoneReady
  BY <1>2 DEF AddMessage
<1>3. ASSUME NEW s \in Sessions, Confirm(s) PROVE NoneReady
  <2>1. session' = [session EXCEPT ![s] = [[session[s] EXCEPT
           !.status = "queued"] EXCEPT !.requirement = session[s].messages]]
    BY <1>3 DEF Confirm
  <2> QED
    BY <2>1
<1>4. ASSUME NEW s \in Sessions, Cancel(s) PROVE NoneReady
  BY <1>4 DEF Cancel, Transition
<1>5. ASSUME NEW s \in Sessions, StartGenerating(s) \/ StartValidating(s) \/ MarkFailed(s)
      PROVE  NoneReady
  BY <1>5 DEF StartGenerating, StartValidating, MarkFailed, Transition
<1>6. CASE UNCHANGED session
  BY <1>6
<1> QED
  BY <1>1, <1>2, <1>3, <1>4, <1>5, <1>6 DEF NotReadying

\* A step that publishes nothing, makes no session ready and completes no job.
QuietMove ==
    /\ NotCompleting \/ UNCHANGED jobs
    /\ NotReadying \/ UNCHANGED session
    /\ UNCHANGED catalog

\* A quiet step is a step of the stores.
LEMMA QuietMoves == QuietMove => StoresMove
  BY DEF QuietMove, StoresMove, NotCompleting, NotReadying, JobsNext, SessionNext

\* The part of the invariant that is about the stores.
StoresAgree ==
    OneVersionPerSession /\ ReadyHasVersion /\ CompletedMeansReady /\ PublishedMeansValidated

\* A quiet step keeps the stores in agreement.
LEMMA QuietStep ==
  ASSUME TypeOK, TypeOK', StoresAgree, StoresAdvance, QuietMove
  PROVE  StoresAgree'
<1>0. catalog' = catalog /\ NoneReady /\ NoneCompleted
  BY OnlyFinishCompletes, OnlyMarkReadyReadies DEF QuietMove, TypeOK, JobsTypeOK
<1> USE DEF StoresAgree, StoresAdvance, TypeOK, TerminalSession
<1>1. \A s \in Sessions : session'[s].status = "ready" => session'[s] = session[s]
  BY <1>0 DEF NoneReady
<1>2. \A row \in catalog : row.session \in Sessions /\ row.version \in VersionIds
  BY DEF CatalogRow
<1>3. \A row \in catalog : jobs'[row.session].version = row.version
  BY <1>2, GenerationConstantsAssumption DEF OneVersionPerSession, ReservationsKept
<1>4. OneVersionPerSession'
  BY <1>0, <1>3 DEF OneVersionPerSession
<1>5. ReadyHasVersion'
  BY <1>0, <1>1 DEF ReadyHasVersion
<1>6. CompletedMeansReady'
  BY <1>0 DEF CompletedMeansReady, NoneCompleted
<1>7. PublishedMeansValidated'
  BY <1>0, <1>2 DEF PublishedMeansValidated
<1> QED
  BY <1>4, <1>5, <1>6, <1>7

\* A step that gives worker w the record me leaves every worker well typed and
\* still knowing what it knew.
LEMMA WorkersStep ==
  ASSUME TypeOK, \A u \in Workers : WorkerKnows(worker[u]),
         StoresTyped', StoresAdvance,
         NEW w \in Workers, NEW me \in WorkerState,
         worker' = [worker EXCEPT ![w] = me], WorkerKnows(me)'
  PROVE  TypeOK' /\ \A u \in Workers : WorkerKnows(worker[u])'
<1>1. TypeOK'
  BY DEF TypeOK, StoresTyped
<1>2. ASSUME NEW u \in Workers PROVE WorkerKnows(worker[u])'
  <2>1. CASE u = w
    BY <2>1 DEF TypeOK, WorkerKnows
  <2>2. CASE u # w
    <3>1. PICK it \in WorkerState : it = worker[u]
      BY DEF TypeOK
    <3>2. worker'[u] = it
      BY <2>2, <3>1 DEF TypeOK
    <3>3. WorkerKnows(it)
      BY <3>1 DEF WorkerKnows
    <3>4. WorkerKnows(it)'
      BY <1>1, <3>3, KnowledgeSurvives
    <3> QED
      BY <3>2, <3>4 DEF WorkerKnows
  <2> QED
    BY <2>1, <2>2
<1> QED
  BY <1>1, <1>2

\* A disruption is counted within its bound.
LEMMA FaultCounted ==
  ASSUME faults \in 0..MaxFaults, NEW kind, Fault(kind) \/ UNCHANGED faults
  PROVE  faults' \in 0..MaxFaults
  BY GenerationWorkerAssumption DEF Fault

\* A step of the stores and clients in which no worker takes part.
LEMMA ClientStep ==
  ASSUME IInv, StoresMove, UNCHANGED worker,
         client' \in [Sessions -> SUBSET {"enqueue", "cancelJob"}],
         faults' \in 0..MaxFaults, catalog' = catalog
  PROVE  TypeOK' /\ StoresAdvance /\ \A u \in Workers : WorkerKnows(worker[u])'
<1>1. TypeOK /\ \A u \in Workers : WorkerKnows(worker[u])
  BY DEF IInv
<1>2. StoresAdvance /\ jobs' \in [Sessions -> Job] /\ session' \in [Sessions -> Session]
  BY <1>1, StoresMoveAdvances
<1>3. TypeOK' /\ StoresTyped'
  BY <1>1, <1>2 DEF TypeOK, StoresTyped
<1>4. ASSUME NEW u \in Workers PROVE WorkerKnows(worker[u])'
  <2>1. PICK it \in WorkerState : it = worker[u]
    BY <1>1 DEF TypeOK
  <2>2. WorkerKnows(it)
    BY <1>1, <2>1
  <2>3. WorkerKnows(it)'
    BY <1>1, <1>2, <1>3, <2>2, KnowledgeSurvives
  <2> QED
    BY <2>1, <2>3 DEF WorkerKnows
<1> QED
  BY <1>2, <1>3, <1>4

\* A step in which worker w takes the record me.
LEMMA WorkerStep ==
  ASSUME IInv, StoresMove, UNCHANGED client,
         faults' \in 0..MaxFaults, catalog' \subseteq CatalogRow,
         NEW w \in Workers, NEW me \in WorkerState,
         worker' = [worker EXCEPT ![w] = me], WorkerKnows(me)'
  PROVE  TypeOK' /\ StoresAdvance /\ \A u \in Workers : WorkerKnows(worker[u])'
<1>1. TypeOK /\ \A u \in Workers : WorkerKnows(worker[u])
  BY DEF IInv
<1>2. StoresAdvance /\ jobs' \in [Sessions -> Job] /\ session' \in [Sessions -> Session]
  BY <1>1, StoresMoveAdvances
<1>3. StoresTyped'
  BY <1>1, <1>2 DEF TypeOK, StoresTyped
<1> QED
  BY <1>1, <1>2, <1>3, WorkersStep

\* A call of worker w that leaves it with the record next, or with an error in
\* place of the answer.
LEMMA ReplyStep ==
  ASSUME IInv, StoresMove, UNCHANGED client, catalog' \subseteq CatalogRow,
         NEW w \in Workers, worker[w].pc # "idle", NEW next \in WorkerState,
         Reply(w, next), WorkerKnows(next)'
  PROVE  TypeOK' /\ StoresAdvance /\ \A u \in Workers : WorkerKnows(worker[u])'
<1>1. CASE worker' = [worker EXCEPT ![w] = next] /\ UNCHANGED faults
  BY <1>1, WorkerStep DEF IInv, TypeOK
<1>2. ASSUME Fault("call"), NEW kind \in {"transient", "permanent"},
             worker' = [worker EXCEPT ![w].pc = AfterError(w, kind)]
      PROVE  TypeOK' /\ StoresAdvance /\ \A u \in Workers : WorkerKnows(worker[u])'
  <2>1. TypeOK /\ WorkerKnows(worker[w])
    BY DEF IInv
  <2>2. PICK pc \in {"retry", "markFailed", "failJob"} : pc = AfterError(w, kind)
    BY DEF AfterError
  <2>3. PICK old \in WorkerState : old = worker[w]
    BY <2>1 DEF TypeOK
  <2>4. PICK me \in WorkerState : me = [old EXCEPT !.pc = pc]
    BY <2>1, <2>3, ErrorForgets
  <2>5. WorkerKnows(me)
    BY <2>1, <2>3, <2>4, ErrorForgets
  <2>6. StoresAdvance /\ StoresTyped'
    BY <1>2, <2>1, StoresMoveAdvances, FaultCounted DEF TypeOK, StoresTyped
  <2>7. WorkerKnows(me)'
    BY <2>1, <2>5, <2>6, KnowledgeSurvives
  <2>8. worker' = [worker EXCEPT ![w] = me]
    BY <1>2, <2>2, <2>3, <2>4
  <2> QED
    BY <2>6, <2>7, <2>8, WorkerStep DEF StoresTyped
<1> QED
  BY <1>1, <1>2 DEF Reply

-----------------------------------------------------------------------------
(* One lemma per kind of step: it keeps the invariant. *)

\* Creating, messaging, confirming and cancelling, and a lease that runs out:
\* a quiet step in which no worker takes part.
LEMMA ClientMoves ==
  ASSUME TypeOK, NEW s \in Sessions, ClientNext(s) \/ ExpireLease(s)
  PROVE  /\ QuietMove /\ UNCHANGED worker
         /\ client' \in [Sessions -> SUBSET {"enqueue", "cancelJob"}]
         /\ faults' \in 0..MaxFaults
<1> DEFINE Clients == client' \in [Sessions -> SUBSET {"enqueue", "cancelJob"}]
<1> USE DEF QuietMove
<1>0. faults \in 0..MaxFaults /\ client \in [Sessions -> SUBSET {"enqueue", "cancelJob"}]
  BY DEF TypeOK
<1>1. CASE CreateSession(s)
  BY <1>0, <1>1 DEF CreateSession, NotReadying
<1>2. CASE SendMessage(s)
  BY <1>0, <1>2 DEF SendMessage, NotReadying
<1>3. CASE ConfirmSession(s)
  <2>1. Clients
    BY <1>0, <1>3 DEF ConfirmSession
  <2> QED
    BY <1>0, <1>3, <2>1 DEF ConfirmSession, NotReadying, NotCompleting
<1>4. CASE EnqueueConfirmed(s)
  <2>1. Clients
    BY <1>0, <1>4 DEF EnqueueConfirmed
  <2> QED
    BY <1>0, <1>4, <2>1 DEF EnqueueConfirmed, NotCompleting
<1>5. CASE CancelSession(s)
  <2>1. Clients
    BY <1>0, <1>5 DEF CancelSession
  <2> QED
    BY <1>0, <1>5, <2>1 DEF CancelSession, NotReadying
<1>6. CASE CancelJob(s)
  <2>1. Clients
    BY <1>0, <1>6 DEF CancelJob
  <2> QED
    BY <1>0, <1>6, <2>1 DEF CancelJob, NotCompleting
<1>7. CASE Disconnect(s)
  <2>1. faults' \in 0..MaxFaults
    BY <1>0, <1>7, FaultCounted DEF Disconnect
  <2>2. Clients
    BY <1>0, <1>7 DEF Disconnect
  <2> QED
    BY <1>7, <2>1, <2>2 DEF Disconnect
<1>8. CASE ExpireLease(s)
  <2>1. faults' \in 0..MaxFaults
    BY <1>0, <1>8, FaultCounted DEF ExpireLease
  <2>2. NotCompleting
    BY <1>8 DEF ExpireLease, NotCompleting
  <2>3. UNCHANGED <<session, catalog, worker, client>>
    BY <1>8 DEF ExpireLease
  <2> QED
    BY <1>0, <2>1, <2>2, <2>3
<1> QED
  BY <1>1, <1>2, <1>3, <1>4, <1>5, <1>6, <1>7, <1>8 DEF ClientNext

\* Such a step keeps the invariant.
LEMMA ClientKeeps ==
  ASSUME IInv, NEW s \in Sessions, ClientNext(s) \/ ExpireLease(s)
  PROVE  IInv'
<1>1. TypeOK /\ StoresAgree
  BY DEF IInv, StoresAgree
<1>2. /\ QuietMove /\ UNCHANGED worker
      /\ client' \in [Sessions -> SUBSET {"enqueue", "cancelJob"}]
      /\ faults' \in 0..MaxFaults
  BY <1>1, ClientMoves
<1>3. TypeOK' /\ StoresAdvance /\ \A u \in Workers : WorkerKnows(worker[u])'
  BY <1>2, QuietMoves, ClientStep DEF QuietMove
<1>4. StoresAgree'
  BY <1>1, <1>2, <1>3, QuietStep
<1> QED
  BY <1>3, <1>4 DEF IInv, StoresAgree

\* A claim, which starts a record of its own.
LEMMA ClaimKeeps ==
  ASSUME IInv, NEW w \in Workers, NEW s \in Sessions, ClaimJob(w, s)
  PROVE  IInv'
<1>1. TypeOK /\ StoresAgree
  BY DEF IInv, StoresAgree
<1>2. PICK dropped \in SUBSET Sessions : Claim(w, s, dropped)
  BY DEF ClaimJob
<1>3. QuietMove
  BY <1>2 DEF QuietMove, NotCompleting, ClaimJob
<1>4. jobs'[s].attempts \in 0..MaxAttempts
  <2>1. jobs[s].attempts + 1 \in 0..MaxAttempts
    BY <1>1, <1>2, JobLeaseAssumption DEF Claim, Exhausted, TypeOK, Job
  <2>2. jobs'[s] = [[[[jobs[s] EXCEPT !.status = "running"] EXCEPT !.owner = w]
                       EXCEPT !.live = TRUE] EXCEPT !.attempts = jobs[s].attempts + 1]
    BY <1>2 DEF Claim
  <2>3. jobs'[s].attempts = jobs[s].attempts + 1
    BY <1>1, <2>2 DEF TypeOK, Job
  <2> QED
    BY <2>1, <2>3
<1>5. PICK me \in WorkerState :
         me = [[[Idle EXCEPT !.pc = "load"] EXCEPT !.job = s]
                  EXCEPT !.attempt = jobs'[s].attempts]
  BY <1>4, IdleKnows DEF WorkerState, Pc
<1>6. WorkerKnows(me)'
  BY <1>5 DEF WorkerKnows, Idle, NoSessionYet
<1>7. worker' = [worker EXCEPT ![w] = me]
  BY <1>5 DEF ClaimJob
<1>8. TypeOK' /\ StoresAdvance /\ \A u \in Workers : WorkerKnows(worker[u])'
  BY <1>1, <1>3, <1>6, <1>7, QuietMoves, WorkerStep DEF ClaimJob, TypeOK
<1>9. StoresAgree'
  BY <1>1, <1>3, <1>8, QuietStep
<1> QED
  BY <1>8, <1>9 DEF IInv, StoresAgree

\* A poll that fails exhausted jobs, and a late renewal: only the queue moves.
LEMMA QueueKeeps ==
  ASSUME IInv, NEW w \in Workers, DropExhausted(w) \/ Renew(w)
  PROVE  IInv'
<1>1. TypeOK /\ StoresAgree /\ WorkerKnows(worker[w])
  BY DEF IInv, StoresAgree
<1>2. NotCompleting
  <2>1. CASE DropExhausted(w)
    BY <2>1 DEF DropExhausted, NotCompleting
  <2>2. CASE Renew(w)
    BY <1>1, <2>2 DEF Renew, WorkerKnows, NotCompleting
  <2> QED
    BY <2>1, <2>2
<1>3. UNCHANGED <<session, catalog, worker, client, faults>>
  BY DEF DropExhausted, Renew
<1>4. QuietMove
  BY <1>2, <1>3 DEF QuietMove
<1>5. TypeOK' /\ StoresAdvance /\ \A u \in Workers : WorkerKnows(worker[u])'
  BY <1>1, <1>3, <1>4, QuietMoves, ClientStep DEF TypeOK
<1>6. StoresAgree'
  BY <1>1, <1>4, <1>5, QuietStep
<1> QED
  BY <1>5, <1>6 DEF IInv, StoresAgree

-----------------------------------------------------------------------------
(* Worker calls. *)

\* What worker w knows it still knows after a step of the stores.
LEMMA StillKnows ==
  ASSUME IInv, StoresMove, UNCHANGED client, faults' \in 0..MaxFaults,
         catalog' \subseteq CatalogRow, NEW me \in WorkerState, WorkerKnows(me)
  PROVE  WorkerKnows(me)'
<1>1. TypeOK
  BY DEF IInv
<1>2. StoresAdvance /\ StoresTyped'
  BY <1>1, StoresMoveAdvances DEF TypeOK, StoresTyped
<1> QED
  BY <1>1, <1>2, KnowledgeSurvives

\* A quiet step that gives worker w the record me keeps the invariant.
LEMMA QuietWorkerKeeps ==
  ASSUME IInv, QuietMove, UNCHANGED client, faults' \in 0..MaxFaults,
         NEW w \in Workers, NEW me \in WorkerState,
         worker' = [worker EXCEPT ![w] = me], WorkerKnows(me)'
  PROVE  IInv'
<1>1. TypeOK /\ StoresAgree
  BY DEF IInv, StoresAgree
<1>2. TypeOK' /\ StoresAdvance /\ \A u \in Workers : WorkerKnows(worker[u])'
  BY <1>1, QuietMoves, WorkerStep DEF QuietMove, TypeOK
<1>3. StoresAgree'
  BY <1>1, <1>2, QuietStep
<1> QED
  BY <1>2, <1>3 DEF IInv, StoresAgree

\* A quiet call that is answered, or not, keeps the invariant.
LEMMA QuietReplyKeeps ==
  ASSUME IInv, QuietMove, UNCHANGED client,
         NEW w \in Workers, worker[w].pc # "idle", NEW next \in WorkerState,
         Reply(w, next), WorkerKnows(next)'
  PROVE  IInv'
<1>1. TypeOK /\ StoresAgree
  BY DEF IInv, StoresAgree
<1>2. TypeOK' /\ StoresAdvance /\ \A u \in Workers : WorkerKnows(worker[u])'
  BY <1>1, QuietMoves, ReplyStep DEF QuietMove, TypeOK
<1>3. StoresAgree'
  BY <1>1, <1>2, QuietStep
<1> QED
  BY <1>2, <1>3 DEF IInv, StoresAgree

\* A quiet call after which worker w is idle keeps the invariant.
LEMMA QuietIdleKeeps ==
  ASSUME IInv, QuietMove, UNCHANGED client, faults' \in 0..MaxFaults,
         NEW w \in Workers, worker' = [worker EXCEPT ![w] = Idle]
  PROVE  IInv'
<1>1. PICK me \in WorkerState : me = Idle
  BY IdleKnows
<1>2. WorkerKnows(me)'
  BY <1>1 DEF WorkerKnows, Idle
<1> QED
  BY <1>1, <1>2, QuietWorkerKeeps

\* A quiet call after which worker w goes to a call that needs no version.
LEMMA QuietErrorKeeps ==
  ASSUME IInv, QuietMove, UNCHANGED client, faults' \in 0..MaxFaults,
         NEW w \in Workers, worker[w].pc # "idle",
         NEW pc \in {"retry", "markFailed", "failJob"},
         worker' = [worker EXCEPT ![w].pc = pc]
  PROVE  IInv'
<1>1. PICK old \in WorkerState : old = worker[w]
  BY DEF IInv, TypeOK
<1>2. WorkerKnows(old)
  BY <1>1 DEF IInv
<1>3. PICK me \in WorkerState : me = [old EXCEPT !.pc = pc]
  BY <1>1, <1>2, ErrorForgets
<1>4. WorkerKnows(me)
  BY <1>1, <1>2, <1>3, ErrorForgets
<1>5. catalog' \subseteq CatalogRow
  BY DEF QuietMove, IInv, TypeOK
<1>6. WorkerKnows(me)'
  BY <1>4, <1>5, QuietMoves, StillKnows
<1>7. worker' = [worker EXCEPT ![w] = me]
  BY <1>1, <1>3
<1> QED
  BY <1>6, <1>7, QuietWorkerKeeps

\* The same, when the store acted but its answer may be lost.
LEMMA QuietErrorReplyKeeps ==
  ASSUME IInv, QuietMove, UNCHANGED client,
         NEW w \in Workers, worker[w].pc # "idle",
         Reply(w, [worker[w] EXCEPT !.pc = "markFailed"])
  PROVE  IInv'
<1>1. faults' \in 0..MaxFaults
  BY FaultCounted DEF Reply, IInv, TypeOK
<1>2. PICK pc \in {"retry", "markFailed", "failJob"} : worker' = [worker EXCEPT ![w].pc = pc]
  BY DEF Reply, AfterError
<1> QED
  BY <1>1, <1>2, QuietErrorKeeps

\* Loading takes a snapshot of the session.
LEMMA LoadKeeps ==
  ASSUME IInv, NEW w \in Workers, Load(w)
  PROVE  IInv'
<1>1. TypeOK /\ WorkerKnows(worker[w]) /\ worker[w].pc = "load"
  BY DEF IInv, Load, At
<1>2. PICK old \in WorkerState : old = worker[w]
  BY <1>1 DEF TypeOK
<1>3. PICK seen \in Session : seen = session[old.job]
  BY <1>1, <1>2 DEF WorkerKnows, TypeOK
<1>4. UNCHANGED <<jobs, session, catalog, client>>
  BY DEF Load
<1>5. PICK pc \in {"start", "reserve", "markFailed"} :
         Reply(w, [worker[w] EXCEPT !.seen = seen, !.pc = pc])
  BY <1>2, <1>3 DEF Load
<1>6. PICK next \in WorkerState : next = [[old EXCEPT !.seen = seen] EXCEPT !.pc = pc]
  BY DEF WorkerState, Pc
<1>7. WorkerKnows(next)'
  BY <1>1, <1>2, <1>3, <1>4, <1>6 DEF WorkerKnows, WorkerState, TerminalSession
<1>8. Reply(w, next)
  BY <1>2, <1>5, <1>6
<1> QED
  BY <1>1, <1>4, <1>7, <1>8, QuietReplyKeeps DEF QuietMove

\* Starting takes a new snapshot, or is refused.
LEMMA StartKeeps ==
  ASSUME IInv, NEW w \in Workers, Start(w)
  PROVE  IInv'
<1>1. TypeOK /\ WorkerKnows(worker[w]) /\ worker[w].pc = "start"
  BY DEF IInv, Start, At
<1>2. PICK old \in WorkerState : old = worker[w]
  BY <1>1 DEF TypeOK
<1>3. old.job \in Sessions
  BY <1>1, <1>2 DEF WorkerKnows
<1>4. QuietMove /\ UNCHANGED <<jobs, catalog, client>>
  BY <1>2, <1>3 DEF Start, QuietMove, NotReadying
<1>5. CASE StartGenerating(old.job) /\ Reply(w, [worker[w] EXCEPT
               !.seen = session'[old.job],
               !.pc = IF session'[old.job].requirement # 0 THEN "reserve" ELSE "markFailed"])
  <2>1. session' \in [Sessions -> Session]
    BY <1>1, <1>4, QuietMoves, StoresMoveAdvances
  <2>2. PICK seen \in Session : seen = session'[old.job]
    BY <1>3, <2>1
  <2>3. seen.status = "generating"
    BY <1>1, <1>3, <1>5, <2>2 DEF StartGenerating, Transition, TypeOK, Session
  <2>4. PICK pc \in {"reserve", "markFailed"} :
           Reply(w, [worker[w] EXCEPT !.seen = seen, !.pc = pc])
    BY <1>5, <2>2
  <2>5. PICK next \in WorkerState : next = [[old EXCEPT !.seen = seen] EXCEPT !.pc = pc]
    BY DEF WorkerState, Pc
  <2>6. WorkerKnows(next)'
    BY <1>3, <2>3, <2>5 DEF WorkerKnows, WorkerState
  <2>7. Reply(w, next)
    BY <1>2, <2>4, <2>5
  <2> QED
    BY <1>1, <1>4, <2>6, <2>7, QuietReplyKeeps
<1>6. CASE Reply(w, [worker[w] EXCEPT !.pc = "markFailed"])
  BY <1>1, <1>4, <1>6, QuietErrorReplyKeeps
<1> QED
  BY <1>2, <1>5, <1>6 DEF Start

\* Reserving learns the version that is recorded on the job.
LEMMA ReserveKeeps ==
  ASSUME IInv, NEW w \in Workers, Reserve(w)
  PROVE  IInv'
<1>1. TypeOK /\ WorkerKnows(worker[w]) /\ worker[w].pc = "reserve"
  BY DEF IInv, Reserve, At
<1>2. PICK old \in WorkerState : old = worker[w]
  BY <1>1 DEF TypeOK
<1>3. old.job \in Sessions /\ faults' \in 0..MaxFaults /\ UNCHANGED <<session, catalog, client>>
  BY <1>1, <1>2 DEF WorkerKnows, Reserve, TypeOK
<1>4. ASSUME NEW v \in VersionIds, ReservePublication(w, old.job, v),
             worker' = [worker EXCEPT ![w].pc = "find", ![w].version = jobs'[old.job].version]
      PROVE  IInv'
  <2>1. QuietMove
    BY <1>3, <1>4 DEF QuietMove, NotCompleting
  <2>2. PICK version \in VersionIds : version = jobs'[old.job].version
    BY <1>1, <1>3, <1>4 DEF ReservePublication, TypeOK, Job
  <2>3. PICK me \in WorkerState : me = [[old EXCEPT !.pc = "find"] EXCEPT !.version = version]
    BY DEF WorkerState, Pc
  <2>4. WorkerKnows(old)
    BY <1>1, <1>2
  <2>5. WorkerKnows(old)'
    BY <1>1, <1>3, <2>1, <2>4, QuietMoves, StillKnows DEF TypeOK
  <2>6. WorkerKnows(me)'
    BY <1>1, <1>2, <2>2, <2>3, <2>5, GenerationConstantsAssumption DEF WorkerKnows, WorkerState
  <2>7. worker' = [worker EXCEPT ![w] = me]
    BY <1>2, <1>4, <2>2, <2>3
  <2> QED
    BY <1>3, <2>1, <2>6, <2>7, QuietWorkerKeeps
<1>5. CASE UNCHANGED jobs /\ worker' = [worker EXCEPT ![w] = Idle]
  BY <1>3, <1>5, QuietIdleKeeps DEF QuietMove
<1> QED
  BY <1>2, <1>4, <1>5 DEF Reserve

\* Finding the version in the catalog, or not.
LEMMA FindKeeps ==
  ASSUME IInv, NEW w \in Workers, Find(w)
  PROVE  IInv'
<1>1. /\ TypeOK /\ PublishedMeansValidated
      /\ WorkerKnows(worker[w]) /\ worker[w].pc = "find"
  BY DEF IInv, Find, At
<1>2. PICK old \in WorkerState : old = worker[w]
  BY <1>1 DEF TypeOK
<1>3. UNCHANGED <<jobs, session, catalog, client>>
  BY DEF Find
<1>4. PICK pc \in {"ready", "complete", "generate", "markFailed"} :
         /\ Reply(w, [worker[w] EXCEPT !.pc = pc])
         /\ pc = "ready" =>
               \E row \in catalog : row.version = old.version /\ row.session = old.job
         /\ pc = "complete" => old.seen.status = "ready"
  BY <1>2 DEF Find
<1>5. PICK next \in WorkerState : next = [old EXCEPT !.pc = pc]
  BY DEF WorkerState, Pc
<1>6. WorkerKnows(next)'
  BY <1>1, <1>2, <1>3, <1>4, <1>5 DEF WorkerKnows, WorkerState, PublishedMeansValidated
<1>7. Reply(w, next)
  BY <1>2, <1>4, <1>5
<1> QED
  BY <1>1, <1>3, <1>6, <1>7, QuietReplyKeeps DEF QuietMove

\* A generated artifact goes to validation, or, if the session was already
\* validating, straight to publication.
LEMMA GenerateKeeps ==
  ASSUME IInv, NEW w \in Workers, Generate(w)
  PROVE  IInv'
<1>1. TypeOK /\ WorkerKnows(worker[w]) /\ worker[w].pc = "generate"
  BY DEF IInv, Generate, At
<1>2. PICK old \in WorkerState : old = worker[w]
  BY <1>1 DEF TypeOK
<1>3. QuietMove /\ UNCHANGED <<jobs, session, catalog, client>> /\ faults' \in 0..MaxFaults
  BY <1>1 DEF Generate, QuietMove, TypeOK
<1>4. ASSUME NEW content \in Contents, NEW pc \in {"publish", "validate"},
             worker' = [worker EXCEPT ![w].output = content, ![w].pc = pc],
             pc = "publish" => old.seen.status = "validating"
      PROVE  IInv'
  <2>1. PICK me \in WorkerState : me = [[old EXCEPT !.output = content] EXCEPT !.pc = pc]
    BY DEF WorkerState, Pc
  <2>2. WorkerKnows(me)'
    BY <1>1, <1>2, <1>3, <1>4, <2>1 DEF WorkerKnows, WorkerState
  <2>3. worker' = [worker EXCEPT ![w] = me]
    BY <1>2, <1>4, <2>1
  <2> QED
    BY <1>3, <2>2, <2>3, QuietWorkerKeeps
<1>5. CASE worker' = [worker EXCEPT ![w].pc = "markFailed"]
  BY <1>1, <1>3, <1>5, QuietErrorKeeps
<1> QED
  BY <1>2, <1>4, <1>5 DEF Generate

\* A session that starts validating may be published.
LEMMA ValidateKeeps ==
  ASSUME IInv, NEW w \in Workers, Validate(w)
  PROVE  IInv'
<1>1. TypeOK /\ WorkerKnows(worker[w]) /\ worker[w].pc = "validate"
  BY DEF IInv, Validate, At
<1>2. PICK old \in WorkerState : old = worker[w]
  BY <1>1 DEF TypeOK
<1>3. old.job \in Sessions
  BY <1>1, <1>2 DEF WorkerKnows
<1>4. QuietMove /\ UNCHANGED <<jobs, catalog, client>>
  BY <1>2, <1>3 DEF Validate, QuietMove, NotReadying
<1>5. CASE StartValidating(old.job) /\ Reply(w, [worker[w] EXCEPT !.pc = "publish"])
  <2>1. PICK next \in WorkerState : next = [old EXCEPT !.pc = "publish"]
    BY DEF WorkerState, Pc
  <2>2. session'[old.job].status = "validating"
    BY <1>1, <1>3, <1>5 DEF StartValidating, Transition, TypeOK, Session
  <2>3. old.seen.status # "ready"
    BY <1>1, <1>2, <1>3, <1>5
    DEF StartValidating, Transition, CanTransition, allowedTransitions, WorkerKnows
  <2>4. WorkerKnows(next)'
    BY <1>1, <1>2, <1>3, <1>4, <2>1, <2>2, <2>3 DEF WorkerKnows, WorkerState
  <2>5. Reply(w, next)
    BY <1>2, <1>5, <2>1
  <2> QED
    BY <1>1, <1>4, <2>4, <2>5, QuietReplyKeeps
<1>6. CASE Reply(w, [worker[w] EXCEPT !.pc = "markFailed"])
  BY <1>1, <1>4, <1>6, QuietErrorReplyKeeps
<1> QED
  BY <1>2, <1>5, <1>6 DEF Validate

\* Publishing adds the only version of its session.
LEMMA PublishKeeps ==
  ASSUME IInv, NEW w \in Workers, Publish(w)
  PROVE  IInv'
<1>1. TypeOK /\ StoresAgree /\ WorkerKnows(worker[w]) /\ worker[w].pc = "publish"
  BY DEF IInv, Publish, At, StoresAgree
<1>2. PICK old \in WorkerState : old = worker[w]
  BY <1>1 DEF TypeOK
<1>3. /\ old.job \in Sessions /\ old.version \in VersionIds /\ old.output \in Contents
      /\ jobs[old.job].version = old.version
      /\ session[old.job].status \in {"validating"} \cup TerminalSession
  BY <1>1, <1>2 DEF WorkerKnows, WorkerState
<1>4. UNCHANGED <<jobs, session, client>>
  BY DEF Publish
<1>5. PICK row \in CatalogRow :
         row = [version |-> old.version, session |-> old.job, content |-> old.output]
  BY <1>3 DEF CatalogRow
<1>6. CASE /\ \A other \in catalog : other.version = old.version => other = row
           /\ catalog' = catalog \cup {row}
           /\ Reply(w, [worker[w] EXCEPT !.pc = "ready"])
  <2>1. StoresMove /\ catalog' \subseteq CatalogRow
    BY <1>1, <1>4, <1>6 DEF StoresMove, TypeOK
  <2>2. PICK next \in WorkerState : next = [old EXCEPT !.pc = "ready"]
    BY DEF WorkerState, Pc
  <2>3. row \in catalog' /\ row.session = old.job /\ row.version = old.version
    BY <1>5, <1>6
  <2>4. WorkerKnows(next)'
    BY <1>1, <1>2, <1>3, <1>4, <2>2, <2>3 DEF WorkerKnows, WorkerState
  <2>5. Reply(w, next)
    BY <1>2, <1>6, <2>2
  <2>6. TypeOK' /\ \A u \in Workers : WorkerKnows(worker[u])'
    BY <1>1, <1>4, <2>1, <2>4, <2>5, ReplyStep
  <2>7. OneVersionPerSession'
    BY <1>1, <1>3, <1>4, <1>6, <2>3 DEF StoresAgree, OneVersionPerSession
  <2>8. ReadyHasVersion' /\ CompletedMeansReady'
    BY <1>1, <1>4, <1>6 DEF StoresAgree, ReadyHasVersion, CompletedMeansReady
  <2>9. PublishedMeansValidated'
    BY <1>1, <1>3, <1>4, <1>6, <2>3 DEF StoresAgree, PublishedMeansValidated
  <2> QED
    BY <2>6, <2>7, <2>8, <2>9 DEF IInv
<1>7. CASE UNCHANGED catalog /\ Reply(w, [worker[w] EXCEPT !.pc = "markFailed"])
  BY <1>1, <1>4, <1>7, QuietErrorReplyKeeps DEF QuietMove
<1> QED
  BY <1>2, <1>5, <1>6, <1>7 DEF Publish

\* A session is made ready with the version that was published for it.
LEMMA ReadyKeeps ==
  ASSUME IInv, NEW w \in Workers, Ready(w)
  PROVE  IInv'
<1>1. TypeOK /\ StoresAgree /\ WorkerKnows(worker[w]) /\ worker[w].pc = "ready"
  BY DEF IInv, Ready, At, StoresAgree
<1>2. PICK old \in WorkerState : old = worker[w]
  BY <1>1 DEF TypeOK
<1>3. /\ old.job \in Sessions /\ old.version \in VersionIds
      /\ jobs[old.job].version = old.version
      /\ \E row \in catalog : row.session = old.job /\ row.version = old.version
  BY <1>1, <1>2 DEF WorkerKnows, WorkerState
<1>4. UNCHANGED <<jobs, catalog, client>>
  BY DEF Ready
<1>5. CASE MarkReady(old.job, old.version) /\ Reply(w, [worker[w] EXCEPT !.pc = "complete"])
  <2>1. StoresMove
    BY <1>3, <1>4, <1>5 DEF StoresMove, SessionNext
  <2>2. session' = [session EXCEPT ![old.job] =
           [[session[old.job] EXCEPT !.status = "ready"] EXCEPT !.version = old.version]]
    BY <1>5 DEF MarkReady
  <2>3. session'[old.job].status = "ready" /\ session'[old.job].version = old.version
    BY <1>1, <1>3, <2>2 DEF TypeOK, Session
  <2>4. \A s \in Sessions \ {old.job} : session'[s] = session[s]
    BY <1>1, <2>2 DEF TypeOK
  <2>5. PICK next \in WorkerState : next = [old EXCEPT !.pc = "complete"]
    BY DEF WorkerState, Pc
  <2>6. WorkerKnows(next)'
    BY <1>1, <1>2, <1>3, <1>4, <2>3, <2>5 DEF WorkerKnows, WorkerState, TerminalSession
  <2>7. Reply(w, next)
    BY <1>2, <1>5, <2>5
  <2>8. TypeOK' /\ \A u \in Workers : WorkerKnows(worker[u])'
    BY <1>1, <1>4, <2>1, <2>6, <2>7, ReplyStep DEF TypeOK
  <2>9. OneVersionPerSession'
    BY <1>1, <1>4 DEF StoresAgree, OneVersionPerSession
  <2>10. ReadyHasVersion'
    BY <1>1, <1>3, <1>4, <2>3, <2>4 DEF StoresAgree, ReadyHasVersion
  <2>11. CompletedMeansReady'
    BY <1>1, <1>4, <2>3, <2>4 DEF StoresAgree, CompletedMeansReady
  <2>12. PublishedMeansValidated'
    BY <1>1, <1>4, <2>3, <2>4
    DEF StoresAgree, PublishedMeansValidated, TerminalSession, TypeOK, CatalogRow
  <2> QED
    BY <2>8, <2>9, <2>10, <2>11, <2>12 DEF IInv
<1>6. CASE UNCHANGED session /\ Reply(w, [worker[w] EXCEPT !.pc = "markFailed"])
  BY <1>1, <1>4, <1>6, QuietErrorReplyKeeps DEF QuietMove
<1> QED
  BY <1>2, <1>5, <1>6 DEF Ready

\* A job is completed by a worker that knows its session is ready.
LEMMA CompleteKeeps ==
  ASSUME IInv, NEW w \in Workers, Complete(w)
  PROVE  IInv'
<1>1. TypeOK /\ StoresAgree /\ WorkerKnows(worker[w]) /\ worker[w].pc = "complete"
  BY DEF IInv, Complete, At, StoresAgree
<1>2. PICK s \in Sessions : s = worker[w].job
  BY <1>1 DEF WorkerKnows
<1>3. session[s].status = "ready"
  BY <1>1, <1>2 DEF WorkerKnows
<1>4. /\ UNCHANGED <<session, catalog, client>> /\ faults' \in 0..MaxFaults
      /\ worker' = [worker EXCEPT ![w] = Idle]
  BY <1>1 DEF Complete, TypeOK
<1>5. CASE Finish(w, s, "completed")
  <2>1. StoresMove
    BY <1>4, <1>5 DEF StoresMove, JobsNext
  <2>2. PICK me \in WorkerState : me = Idle
    BY IdleKnows
  <2>3. WorkerKnows(me)'
    BY <2>2 DEF WorkerKnows, Idle
  <2>4. TypeOK' /\ StoresAdvance /\ \A u \in Workers : WorkerKnows(worker[u])'
    BY <1>1, <1>4, <2>1, <2>2, <2>3, WorkerStep DEF TypeOK
  <2>5. \A t \in Sessions \ {s} : jobs'[t] = jobs[t]
    BY <1>1, <1>5 DEF Finish, TypeOK
  <2>6. OneVersionPerSession'
    BY <1>1, <1>4, <2>4, GenerationConstantsAssumption
    DEF StoresAgree, OneVersionPerSession, StoresAdvance, ReservationsKept, TypeOK, CatalogRow
  <2>7. CompletedMeansReady'
    BY <1>1, <1>3, <1>4, <2>5 DEF StoresAgree, CompletedMeansReady
  <2>8. ReadyHasVersion' /\ PublishedMeansValidated'
    BY <1>1, <1>4 DEF StoresAgree, ReadyHasVersion, PublishedMeansValidated
  <2> QED
    BY <2>4, <2>6, <2>7, <2>8 DEF IInv
<1>6. CASE UNCHANGED jobs
  BY <1>4, <1>6, QuietIdleKeeps DEF QuietMove
<1> QED
  BY <1>2, <1>5, <1>6 DEF Complete, FencedWrite

\* A retry, a failure and everything that only ends the run of a worker.
LEMMA EndKeeps ==
  ASSUME IInv, NEW w \in Workers, RetryJob(w) \/ FailJob(w) \/ Abandon(w) \/ Crash(w)
  PROVE  IInv'
<1>1. TypeOK /\ WorkerKnows(worker[w]) /\ worker[w].pc # "idle"
  BY DEF IInv, RetryJob, FailJob, Abandon, Crash, At
<1>2. PICK s \in Sessions : s = worker[w].job
  BY <1>1 DEF WorkerKnows
<1>3. NotCompleting \/ UNCHANGED jobs
  BY <1>2 DEF RetryJob, FailJob, Abandon, Crash, FencedWrite, NotCompleting
<1>4. faults' \in 0..MaxFaults
  BY <1>1, FaultCounted DEF RetryJob, FailJob, Abandon, Crash, TypeOK
<1>5. UNCHANGED <<session, catalog, client>> /\ worker' = [worker EXCEPT ![w] = Idle]
  BY DEF RetryJob, FailJob, Abandon, Crash
<1> QED
  BY <1>3, <1>4, <1>5, QuietIdleKeeps DEF QuietMove

\* Failing the session, and a call that fails without effect.
LEMMA FailKeeps ==
  ASSUME IInv, NEW w \in Workers, FailSession(w) \/ CallFails(w)
  PROVE  IInv'
<1>1. TypeOK /\ WorkerKnows(worker[w]) /\ worker[w].pc # "idle"
  BY DEF IInv, FailSession, CallFails, At
<1>2. QuietMove /\ UNCHANGED client
  BY <1>1 DEF FailSession, CallFails, QuietMove, NotReadying, WorkerKnows
<1>3. faults' \in 0..MaxFaults
  BY <1>1, FaultCounted DEF FailSession, CallFails, TypeOK
<1>4. CASE worker' = [worker EXCEPT ![w] = Idle]
  BY <1>2, <1>3, <1>4, QuietIdleKeeps
<1>5. ASSUME NEW pc \in {"retry", "markFailed", "failJob"},
             worker' = [worker EXCEPT ![w].pc = pc]
      PROVE  IInv'
  BY <1>1, <1>2, <1>3, <1>5, QuietErrorKeeps
<1> QED
  BY <1>4, <1>5 DEF FailSession, CallFails, AfterError

\* Losing the lease changes the work context only.
LEMMA LoseLeaseKeeps ==
  ASSUME IInv, NEW w \in Workers, LoseLease(w)
  PROVE  IInv'
<1>1. TypeOK /\ WorkerKnows(worker[w])
  BY DEF IInv
<1>2. PICK old \in WorkerState : old = worker[w]
  BY <1>1 DEF TypeOK
<1>3. PICK me \in WorkerState : me = [old EXCEPT !.context = "cancelled"]
  BY DEF WorkerState
<1>4. UNCHANGED <<jobs, session, catalog, client>> /\ faults' \in 0..MaxFaults
  BY <1>1, FaultCounted DEF LoseLease, TypeOK
<1>5. WorkerKnows(me)'
  BY <1>1, <1>2, <1>3, <1>4 DEF WorkerKnows, WorkerState
<1>6. worker' = [worker EXCEPT ![w] = me]
  BY <1>2, <1>3 DEF LoseLease
<1> QED
  BY <1>4, <1>5, <1>6, QuietWorkerKeeps DEF QuietMove

-----------------------------------------------------------------------------
(* The theorems. *)

\* The invariant is inductive.
LEMMA NextKeeps ==
  ASSUME IInv, [Next]_vars
  PROVE  IInv'
<1>1. CASE UNCHANGED vars
  BY <1>1 DEF vars, IInv, TypeOK, WorkerKnows, OneVersionPerSession, ReadyHasVersion,
              CompletedMeansReady, PublishedMeansValidated
<1>2. ASSUME NEW w \in Workers, WorkerNext(w) PROVE IInv'
  BY <1>2, ClaimKeeps, QueueKeeps, LoadKeeps, StartKeeps, ReserveKeeps, FindKeeps,
     GenerateKeeps, ValidateKeeps, PublishKeeps, ReadyKeeps, CompleteKeeps, EndKeeps,
     FailKeeps, LoseLeaseKeeps
  DEF WorkerNext, WorkerCall
<1>3. ASSUME NEW s \in Sessions, ClientNext(s) \/ ExpireLease(s) PROVE IInv'
  BY <1>3, ClientKeeps
<1> QED
  BY <1>1, <1>2, <1>3 DEF Next

\* The invariant of the pipeline holds in every behaviour, for any numbers of
\* sessions, workers, attempts and disruptions.
THEOREM PipelineInvariant == Spec => []IInv
<1>1. IInv /\ [Next]_vars => IInv'
  BY NextKeeps
<1> QED
  BY InitInvariant, <1>1, PTL DEF Spec

\* The pipeline is well typed.
THEOREM PipelineTyped == Spec => []TypeOK
<1>1. IInv => TypeOK
  BY DEF IInv
<1> QED
  BY PipelineInvariant, <1>1, PTL

\* A session never gets two versions, however many attempts overlap.
THEOREM AtMostOneVersion == Spec => []OneVersionPerSession
<1>1. IInv => OneVersionPerSession
  BY DEF IInv
<1> QED
  BY PipelineInvariant, <1>1, PTL

\* A ready session has its version in the catalog.
THEOREM ReadyIsPublished == Spec => []ReadyHasVersion
<1>1. IInv => ReadyHasVersion
  BY DEF IInv
<1> QED
  BY PipelineInvariant, <1>1, PTL

\* A completed job has a ready session.
THEOREM CompletedIsReady == Spec => []CompletedMeansReady
<1>1. IInv => CompletedMeansReady
  BY DEF IInv
<1> QED
  BY PipelineInvariant, <1>1, PTL

\* Nothing is published before its session has validated.
THEOREM PublishedIsValidated == Spec => []PublishedMeansValidated
<1>1. IInv => PublishedMeansValidated
  BY DEF IInv
<1> QED
  BY PipelineInvariant, <1>1, PTL

\* Every step of the pipeline is, for the sessions, a step of the session
\* machine.
LEMMA NextMovesSessions ==
  ASSUME IInv, [Next]_vars
  PROVE  [SessionNext]_session
<1>1. \A w \in Workers : worker[w].pc # "idle" => worker[w].job \in Sessions
  BY DEF IInv, WorkerKnows
<1>2. CASE UNCHANGED vars
  BY <1>2 DEF vars
<1>3. ASSUME NEW s \in Sessions, ClientNext(s) \/ ExpireLease(s) PROVE [SessionNext]_session
  BY <1>3 DEF ClientNext, CreateSession, SendMessage, ConfirmSession, EnqueueConfirmed,
              CancelSession, CancelJob, Disconnect, ExpireLease, SessionNext
<1>4. ASSUME NEW w \in Workers, WorkerNext(w) PROVE [SessionNext]_session
  <2>1. CASE Start(w)
    BY <1>1, <2>1 DEF Start, At, SessionNext
  <2>2. CASE Validate(w)
    BY <1>1, <2>2 DEF Validate, At, SessionNext
  <2>3. CASE Ready(w)
    <3>1. PICK old \in WorkerState : old = worker[w]
      BY DEF IInv, TypeOK
    <3>2. old.job \in Sessions /\ old.version \in VersionIds
      BY <2>3, <3>1 DEF Ready, At, IInv, WorkerKnows, WorkerState
    <3> QED
      BY <2>3, <3>1, <3>2 DEF Ready, SessionNext
  <2>4. CASE FailSession(w)
    BY <1>1, <2>4 DEF FailSession, At, SessionNext
  <2>5. CASE Load(w) \/ Reserve(w) \/ Find(w) \/ Generate(w) \/ Publish(w)
    BY <2>5 DEF Load, Reserve, Find, Generate, Publish
  <2>6. CASE Complete(w) \/ RetryJob(w) \/ FailJob(w) \/ Abandon(w) \/ CallFails(w)
    BY <2>6 DEF Complete, RetryJob, FailJob, Abandon, CallFails
  <2>7. CASE DropExhausted(w) \/ Renew(w) \/ LoseLease(w) \/ Crash(w)
    BY <2>7 DEF DropExhausted, Renew, LoseLease, Crash
  <2>8. CASE \E s \in Sessions : ClaimJob(w, s)
    BY <2>8 DEF ClaimJob
  <2> QED
    BY <1>4, <2>1, <2>2, <2>3, <2>4, <2>5, <2>6, <2>7, <2>8 DEF WorkerNext, WorkerCall
<1> QED
  BY <1>2, <1>3, <1>4 DEF Next

\* ... and, for the queue, a step of its contract.
LEMMA NextMovesJobs ==
  ASSUME IInv, [Next]_vars
  PROVE  [JobsNext]_jobs
<1>1. \A w \in Workers : worker[w].pc # "idle" => worker[w].job \in Sessions
  BY DEF IInv, WorkerKnows
<1>2. CASE UNCHANGED vars
  BY <1>2 DEF vars
<1>3. ASSUME NEW s \in Sessions, ClientNext(s) \/ ExpireLease(s) PROVE [JobsNext]_jobs
  <2>1. CASE ExpireLease(s)
    BY <2>1, {s} \in SUBSET Sessions DEF ExpireLease, JobsNext
  <2>2. CASE ClientNext(s)
    BY <2>2 DEF ClientNext, CreateSession, SendMessage, ConfirmSession, EnqueueConfirmed,
                CancelSession, CancelJob, Disconnect, JobsNext
  <2> QED BY <1>3, <2>1, <2>2
<1>4. ASSUME NEW w \in Workers, WorkerNext(w) PROVE [JobsNext]_jobs
  <2>1. CASE \E s \in Sessions : ClaimJob(w, s)
    BY <2>1 DEF ClaimJob, JobsNext
  <2>2. CASE DropExhausted(w)
    BY <2>2, {s \in Sessions : Exhausted(s)} \in SUBSET Sessions DEF DropExhausted, JobsNext
  <2>3. CASE Reserve(w)
    BY <1>1, <2>3 DEF Reserve, At, JobsNext
  <2>4. CASE Complete(w) \/ RetryJob(w) \/ FailJob(w)
    BY <1>1, <2>4 DEF Complete, RetryJob, FailJob, At, FencedWrite, JobsNext
  <2>5. CASE Renew(w)
    BY <1>1, <2>5 DEF Renew, JobsNext
  <2>6. CASE Load(w) \/ Start(w) \/ Find(w) \/ Generate(w) \/ Validate(w) \/ Publish(w) \/ Ready(w)
    BY <2>6 DEF Load, Start, Find, Generate, Validate, Publish, Ready
  <2>7. CASE FailSession(w) \/ Abandon(w) \/ CallFails(w) \/ LoseLease(w) \/ Crash(w)
    BY <2>7 DEF FailSession, Abandon, CallFails, LoseLease, Crash
  <2> QED
    BY <1>4, <2>1, <2>2, <2>3, <2>4, <2>5, <2>6, <2>7 DEF WorkerNext, WorkerCall
<1> QED
  BY <1>2, <1>3, <1>4 DEF Next

\* No late success, failure or cancellation rewrites a terminal session,
\* although no write to a session is fenced by the lease.
THEOREM TerminalStays == Spec => TerminalIsFinal
<1>1. IInv /\ [Next]_vars =>
        [\A s \in Sessions :
           session[s].status \in TerminalSession => session'[s] = session[s]]_vars
  BY NextMovesSessions, SessionStep DEF IInv, TypeOK
<1> QED
  BY PipelineInvariant, <1>1, PTL DEF Spec, TerminalIsFinal

\* The pipeline is an implementation of the queue's contract, the one that both
\* stores implement: whatever crashes, stalls, late answers and abandoned calls,
\* it asks nothing of the queue that the contract does not give.
THEOREM PipelineRunsTheQueue == Spec => JobsSpec
<1>1. Init => JobsInit
  BY DEF Init
<1>2. IInv /\ [Next]_vars => [JobsNext]_jobs
  BY NextMovesJobs
<1> QED
  BY PipelineInvariant, <1>1, <1>2, PTL DEF Spec, JobsSpec

\* It is an implementation of the session machine, too: workers that have lost
\* their lease and users who cancel take only its transitions.
THEOREM PipelineRunsTheSessions == Spec => SessionSpec
<1>1. Init => SessionInit
  BY DEF Init
<1>2. IInv /\ [Next]_vars => [SessionNext]_session
  BY NextMovesSessions
<1> QED
  BY PipelineInvariant, <1>1, <1>2, PTL DEF Spec, SessionSpec

\* So no attempt, however late, replaces a reserved version or reopens a settled
\* job, and every claim is counted.
THEOREM PipelineKeepsItsJobs ==
  Spec => [][ReservationsKept /\ SettledJobsKept /\ AttemptsCounted]_jobs
  BY PipelineRunsTheQueue, JobsProgress, PTL

-----------------------------------------------------------------------------
(* What the user has confirmed. *)

\* A session is past its confirmation with a requirement, and then the
\* requirement covers every message; it has a version when it is ready.
SessionShape ==
    \A s \in Sessions :
      /\ session[s].messages = 0 <=> session[s].status = "absent"
      /\ session[s].status \in {"absent", "awaiting_confirmation"} => session[s].requirement = 0
      /\ session[s].status \in {"queued", "generating", "validating", "ready", "failed"} =>
            session[s].requirement # 0
      /\ session[s].requirement # 0 => session[s].requirement = session[s].messages
      /\ session[s].version # NoVersion <=> session[s].status = "ready"

\* A confirmed session takes no more messages, and keeps its requirement.
ConfirmationsKept ==
    \A s \in Sessions :
      session[s].requirement # 0 =>
        /\ session'[s].requirement = session[s].requirement
        /\ session'[s].messages = session[s].messages

\* The initial sessions have the shape.
LEMMA InitShape == SessionInit => SessionShape
  BY DEF SessionInit, SessionShape, NoSessionYet

\* Every operation of the service keeps it.
LEMMA ShapeStep ==
  ASSUME session \in [Sessions -> Session], SessionShape, [SessionNext]_session
  PROVE  SessionShape' /\ ConfirmationsKept
<1> DEFINE Good == SessionShape' /\ ConfirmationsKept
<1> USE GenerationSessionAssumption, GenerationConstantsAssumption
    DEF SessionShape, ConfirmationsKept, Session, SessionStatus, CanTransition, allowedTransitions
<1>1. CASE UNCHANGED session
  BY <1>1
<1>2. ASSUME NEW s \in Sessions, Create(s) PROVE Good
  <2>1. session' = [session EXCEPT ![s] =
           [[session[s] EXCEPT !.status = "awaiting_confirmation"] EXCEPT !.messages = 1]]
    BY <1>2 DEF Create
  <2> QED BY <1>2, <2>1 DEF Create
<1>3. ASSUME NEW s \in Sessions, AddMessage(s) PROVE Good
  <2>1. session[s].messages \in Nat
    OBVIOUS
  <2> QED BY <1>3, <2>1 DEF AddMessage
<1>4. ASSUME NEW s \in Sessions, Confirm(s) PROVE Good
  <2>1. session' = [session EXCEPT ![s] =
           [[session[s] EXCEPT !.status = "queued"] EXCEPT !.requirement = session[s].messages]]
    BY <1>4 DEF Confirm
  <2> QED BY <1>4, <2>1 DEF Confirm
<1>5. ASSUME NEW s \in Sessions, NEW next \in {"cancelled", "generating", "validating", "failed"},
             Transition(s, next)
      PROVE  Good
  BY <1>5 DEF Transition
<1>6. ASSUME NEW s \in Sessions, NEW v \in VersionIds, MarkReady(s, v) PROVE Good
  <2>1. session' = [session EXCEPT ![s] =
           [[session[s] EXCEPT !.status = "ready"] EXCEPT !.version = v]]
    BY <1>6 DEF MarkReady
  <2> QED BY <1>6, <2>1 DEF MarkReady
<1> QED
  BY <1>1, <1>2, <1>3, <1>4, <1>5, <1>6
  DEF SessionNext, Cancel, StartGenerating, StartValidating, MarkFailed

\* A job is enqueued for a confirmed session only.
JobsAreConfirmed ==
    \A s \in Sessions :
      jobs[s].status # "absent" \/ "enqueue" \in client[s] => session[s].requirement # 0

\* The calls behind a session that the worker has read.
InWork == {"start", "reserve", "find", "generate", "validate", "publish", "ready", "complete"}

\* An attempt, however late, works on a session that the user has confirmed, on
\* the requirement that was confirmed, and no message has been added since.
WorkIsConfirmed ==
    \A w \in Workers, s \in Sessions :
      Working(w, s) =>
        /\ session[s].requirement # 0
        /\ session[s].requirement = session[s].messages
        /\ worker[w].pc \in InWork => worker[w].seen.requirement = session[s].requirement

ConfirmedInv == SessionShape /\ JobsAreConfirmed /\ WorkIsConfirmed

\* A step of the worker leaves it idle, goes on with the session it knows or
\* has just read,
GoesOn(me, old) ==
    \/ me.pc = "idle"
    \/ /\ old.pc # "idle" /\ me.job = old.job
       /\ me.pc \in InWork =>
            \/ me.seen = session'[old.job]
            \/ old.pc \in InWork /\ me.seen = old.seen

\* and makes no job.
NoneAppear == \A s \in Sessions : jobs[s].status = "absent" => jobs'[s].status = "absent"

\* No operation of the queue but Enqueue makes a job.
LEMMA QueueMakesNone ==
  ASSUME jobs \in [Sessions -> Job], NEW s \in Sessions, NEW w \in Workers,
         \/ \E dropped \in SUBSET Sessions : Claim(w, s, dropped)
         \/ CancelBySession(s) \/ ExtendLease(w, s) \/ Retry(w, s)
         \/ \E v \in VersionIds : ReservePublication(w, s, v)
         \/ \E status \in {"completed", "failed"} : Finish(w, s, status)
         \/ \E some \in SUBSET Sessions : FailExhausted(some) \/ Expire(some)
         \/ UNCHANGED jobs
  PROVE  NoneAppear
<1> USE DEF NoneAppear, Held, Job
<1>1. CASE \E dropped \in SUBSET Sessions : Claim(w, s, dropped)
  BY <1>1 DEF Claim, Claimable, Exhausted
<1>2. CASE CancelBySession(s) \/ Retry(w, s) \/ \E status \in {"completed", "failed"} : Finish(w, s, status)
  BY <1>2 DEF CancelBySession, Retry, Finish
<1>3. CASE ExtendLease(w, s)
  BY <1>3 DEF ExtendLease
<1>4. CASE \E v \in VersionIds : ReservePublication(w, s, v)
  BY <1>4 DEF ReservePublication
<1>5. CASE \E some \in SUBSET Sessions : FailExhausted(some)
  BY <1>5 DEF FailExhausted, Claimable, Exhausted
<1>6. CASE \E some \in SUBSET Sessions : Expire(some)
  BY <1>6 DEF Expire
<1>7. CASE UNCHANGED jobs
  BY <1>7
<1> QED BY <1>1, <1>2, <1>3, <1>4, <1>5, <1>6, <1>7

\* If no job appears and the workers go on, what is in work stays confirmed.
LEMMA ConfirmedKept ==
  ASSUME IInv, ConfirmedInv, [SessionNext]_session, UNCHANGED client, NoneAppear,
         \A w \in Workers : GoesOn(worker'[w], worker[w])
  PROVE  ConfirmedInv'
<1>1. /\ session \in [Sessions -> Session] /\ SessionShape' /\ ConfirmationsKept
      /\ session' \in [Sessions -> Session]
  BY ShapeStep, SessionStep DEF IInv, TypeOK, ConfirmedInv
<1>2. JobsAreConfirmed'
  BY <1>1 DEF ConfirmedInv, JobsAreConfirmed, NoneAppear, ConfirmationsKept
<1>3. ASSUME NEW w \in Workers, NEW s \in Sessions, Working(w, s)'
      PROVE  /\ session'[s].requirement # 0
             /\ session'[s].requirement = session'[s].messages
             /\ worker'[w].pc \in InWork => worker'[w].seen.requirement = session'[s].requirement
  <2>1. Working(w, s) /\ GoesOn(worker'[w], worker[w]) /\ worker'[w].pc # "idle" /\ worker[w].job = s
    BY <1>3 DEF Working, GoesOn
  <2>2. /\ session[s].requirement # 0 /\ session[s].requirement = session[s].messages
        /\ worker[w].pc \in InWork => worker[w].seen.requirement = session[s].requirement
    BY <2>1 DEF ConfirmedInv, WorkIsConfirmed
  <2> QED BY <1>1, <2>1, <2>2 DEF ConfirmationsKept, GoesOn
<1> QED BY <1>1, <1>2, <1>3 DEF ConfirmedInv, WorkIsConfirmed

\* One worker's record changes.
LEMMA OneGoesOn ==
  ASSUME TypeOK, NEW w \in Workers, NEW me, worker' = [worker EXCEPT ![w] = me],
         GoesOn(me, worker[w])
  PROVE  \A u \in Workers : GoesOn(worker'[u], worker[u])
  BY DEF GoesOn, TypeOK

\* The calls that follow an error know nothing of the session.
LEMMA ErrorGoesOn ==
  ASSUME NEW old \in WorkerState, old.pc # "idle", NEW pc, pc \notin InWork
  PROVE  GoesOn([old EXCEPT !.pc = pc], old)
  BY DEF GoesOn, WorkerState

\* Whatever a call answers, an error included, the worker goes on as allowed.
LEMMA ReplyGoesOn ==
  ASSUME TypeOK, NEW w \in Workers, worker[w].pc # "idle", NEW next, GoesOn(next, worker[w]),
         Reply(w, next)
  PROVE  \A u \in Workers : GoesOn(worker'[u], worker[u])
<1>1. PICK old \in WorkerState : old = worker[w]
  BY DEF TypeOK
<1>2. CASE worker' = [worker EXCEPT ![w] = next]
  BY <1>2, OneGoesOn
<1>3. CASE \E kind \in {"transient", "permanent"} : worker' = [worker EXCEPT ![w].pc = AfterError(w, kind)]
  <2>1. PICK kind : worker' = [worker EXCEPT ![w] = [old EXCEPT !.pc = AfterError(w, kind)]]
    BY <1>1, <1>3
  <2>2. AfterError(w, kind) \notin InWork
    BY DEF AfterError, InWork
  <2> QED BY <1>1, <2>1, <2>2, ErrorGoesOn, OneGoesOn
<1> QED BY <1>2, <1>3 DEF Reply

\* The calls of a worker.
LEMMA CallGoesOn ==
  ASSUME TypeOK, NEW w \in Workers, WorkerCall(w) \/ CallFails(w)
  PROVE  \A u \in Workers : GoesOn(worker'[u], worker[u])
<1> DEFINE Good == \A u \in Workers : GoesOn(worker'[u], worker[u])
<1>1. PICK old \in WorkerState : old = worker[w]
  BY DEF TypeOK
<1>2. worker[w].pc # "idle"
  BY DEF WorkerCall, CallFails, At, Load, Start, Reserve, Find, Generate, Validate, Publish, Ready,
         Complete, RetryJob, FailSession, FailJob, Abandon
<1>3. GoesOn(Idle, old)
  BY DEF GoesOn, Idle
<1>4. ASSUME NEW pc, old.pc \in InWork
      PROVE  /\ GoesOn([old EXCEPT !.pc = pc], old)
             /\ \A x : /\ GoesOn([[old EXCEPT !.output = x] EXCEPT !.pc = pc], old)
                       /\ GoesOn([[old EXCEPT !.pc = pc] EXCEPT !.version = x], old)
  BY <1>1, <1>2, <1>4 DEF GoesOn, WorkerState
<1>5. ASSUME NEW pc PROVE GoesOn([[old EXCEPT !.seen = session'[old.job]] EXCEPT !.pc = pc], old)
  BY <1>1, <1>2 DEF GoesOn, WorkerState
<1>6. CASE Load(w)
  <2>1. \E pc : Reply(w, [worker[w] EXCEPT !.seen = session[worker[w].job], !.pc = pc]) /\ UNCHANGED session
    BY <1>6 DEF Load
  <2>2. PICK pc : Reply(w, [[old EXCEPT !.seen = session'[old.job]] EXCEPT !.pc = pc])
    BY <1>1, <2>1
  <2> QED BY <1>1, <1>2, <1>5, <2>2, ReplyGoesOn
<1>7. CASE Start(w)
  <2>1. old.pc \in InWork
    BY <1>1, <1>7 DEF Start, At, InWork
  <2>2. \/ \E pc : Reply(w, [worker[w] EXCEPT !.seen = session'[worker[w].job], !.pc = pc])
        \/ \E pc : Reply(w, [worker[w] EXCEPT !.pc = pc])
    BY <1>7 DEF Start
  <2>3. \/ \E pc : Reply(w, [[old EXCEPT !.seen = session'[old.job]] EXCEPT !.pc = pc])
        \/ \E pc : Reply(w, [old EXCEPT !.pc = pc])
    BY <1>1, <2>2
  <2> QED BY <1>1, <1>2, <1>4, <1>5, <2>1, <2>3, ReplyGoesOn
<1>8. CASE Reserve(w)
  <2>1. old.pc \in InWork
    BY <1>1, <1>8 DEF Reserve, At, InWork
  <2>2. \/ worker' = [worker EXCEPT ![w] = Idle]
        \/ \E version : worker' = [worker EXCEPT ![w].pc = "find", ![w].version = version]
    BY <1>8 DEF Reserve
  <2>3. \/ worker' = [worker EXCEPT ![w] = Idle]
        \/ \E version : worker' = [worker EXCEPT ![w] = [[old EXCEPT !.pc = "find"] EXCEPT !.version = version]]
    BY <1>1, <2>2
  <2> QED BY <1>1, <1>3, <1>4, <2>1, <2>3, OneGoesOn
<1>9. CASE Find(w) \/ Validate(w) \/ Publish(w) \/ Ready(w)
  <2>1. old.pc \in InWork
    BY <1>1, <1>9 DEF Find, Validate, Publish, Ready, At, InWork
  <2>2. \E pc : Reply(w, [worker[w] EXCEPT !.pc = pc])
    BY <1>9 DEF Find, Validate, Publish, Ready
  <2> QED BY <1>1, <1>2, <1>4, <2>1, <2>2, ReplyGoesOn
<1>10. CASE Generate(w)
  <2>1. old.pc \in InWork
    BY <1>1, <1>10 DEF Generate, At, InWork
  <2>2. \/ \E pc : worker' = [worker EXCEPT ![w].pc = pc]
        \/ \E content, pc : worker' = [worker EXCEPT ![w].output = content, ![w].pc = pc]
    BY <1>10 DEF Generate
  <2>3. ASSUME NEW content, NEW pc,
               worker' = [worker EXCEPT ![w].output = content, ![w].pc = pc]
        PROVE  Good
    <3>1. worker' = [worker EXCEPT ![w] = [[old EXCEPT !.output = content] EXCEPT !.pc = pc]]
      BY <1>1, <2>3
    <3> QED BY <1>1, <1>4, <2>1, <3>1, OneGoesOn
  <2>4. ASSUME NEW pc, worker' = [worker EXCEPT ![w].pc = pc] PROVE Good
    <3>1. worker' = [worker EXCEPT ![w] = [old EXCEPT !.pc = pc]]
      BY <1>1, <2>4
    <3> QED BY <1>1, <1>4, <2>1, <3>1, OneGoesOn
  <2> QED BY <2>2, <2>3, <2>4
<1>11. CASE Complete(w) \/ RetryJob(w) \/ FailJob(w) \/ Abandon(w)
  BY <1>1, <1>3, <1>11, OneGoesOn DEF Complete, RetryJob, FailJob, Abandon
<1>12. CASE FailSession(w) \/ CallFails(w)
  <2>1. \/ worker' = [worker EXCEPT ![w] = Idle]
        \/ \E pc : pc \notin InWork /\ worker' = [worker EXCEPT ![w].pc = pc]
    <3>1. /\ "failJob" \notin InWork
          /\ \A kind : AfterError(w, kind) \notin InWork
      BY DEF AfterError, InWork
    <3> QED BY <1>12, <3>1, Zenon DEF FailSession, CallFails
  <2>2. \/ worker' = [worker EXCEPT ![w] = Idle]
        \/ \E pc : pc \notin InWork /\ worker' = [worker EXCEPT ![w] = [old EXCEPT !.pc = pc]]
    BY <1>1, <2>1
  <2> QED BY <1>1, <1>2, <1>3, <2>2, ErrorGoesOn, OneGoesOn
<1> QED BY <1>6, <1>7, <1>8, <1>9, <1>10, <1>11, <1>12 DEF WorkerCall

\* The calls use the queue for jobs that are there.
LEMMA CallMakesNone ==
  ASSUME IInv, NEW w \in Workers, WorkerCall(w) \/ CallFails(w)
  PROVE  NoneAppear
<1>1. /\ jobs \in [Sessions -> Job] /\ worker[w].pc # "idle" /\ worker[w].job \in Sessions
  BY DEF IInv, TypeOK, WorkerKnows, WorkerCall, CallFails, At, Load, Start, Reserve, Find, Generate,
         Validate, Publish, Ready, Complete, RetryJob, FailSession, FailJob, Abandon
<1>2. PICK s \in Sessions : s = worker[w].job
  BY <1>1
<1>3. CASE Load(w) \/ Start(w) \/ Find(w) \/ Generate(w) \/ Validate(w) \/ Publish(w) \/ Ready(w)
  BY <1>1, <1>3, QueueMakesNone DEF Load, Start, Find, Generate, Validate, Publish, Ready
<1>4. CASE FailSession(w) \/ Abandon(w) \/ CallFails(w)
  BY <1>1, <1>4, QueueMakesNone DEF FailSession, Abandon, CallFails
<1>5. CASE Reserve(w)
  BY <1>1, <1>2, <1>5, QueueMakesNone DEF Reserve
<1>6. CASE Complete(w) \/ RetryJob(w) \/ FailJob(w)
  BY <1>1, <1>2, <1>6, QueueMakesNone DEF Complete, RetryJob, FailJob, FencedWrite
<1> QED BY <1>3, <1>4, <1>5, <1>6 DEF WorkerCall

\* A claim takes a job that is there, so a session that is confirmed.
LEMMA ClaimIsConfirmed ==
  ASSUME IInv, ConfirmedInv, NEW w \in Workers, NEW s \in Sessions, ClaimJob(w, s)
  PROVE  ConfirmedInv'
<1>1. /\ jobs \in [Sessions -> Job] /\ worker \in [Workers -> WorkerState]
      /\ UNCHANGED <<session, client>>
  BY DEF IInv, TypeOK, ClaimJob
<1>2. PICK dropped \in SUBSET Sessions : Claim(w, s, dropped)
  BY DEF ClaimJob
<1>3. NoneAppear /\ jobs[s].status # "absent"
  BY <1>1, <1>2, QueueMakesNone DEF Claim, Claimable
<1>4. SessionShape' /\ JobsAreConfirmed'
  BY <1>1, <1>3 DEF ConfirmedInv, SessionShape, JobsAreConfirmed, NoneAppear
<1>5. session[s].requirement # 0 /\ session[s].requirement = session[s].messages
  BY <1>3 DEF ConfirmedInv, JobsAreConfirmed, SessionShape
<1>6. /\ worker'[w].pc = "load" /\ worker'[w].job = s
      /\ \A u \in Workers \ {w} : worker'[u] = worker[u]
  <2>1. worker' = [worker EXCEPT ![w] = [[[Idle EXCEPT !.pc = "load"] EXCEPT !.job = s]
                                           EXCEPT !.attempt = jobs'[s].attempts]]
    BY DEF ClaimJob
  <2> QED BY <1>1, <2>1 DEF Idle
<1>7. WorkIsConfirmed'
  BY <1>1, <1>5, <1>6 DEF ConfirmedInv, WorkIsConfirmed, Working, InWork
<1> QED BY <1>4, <1>7 DEF ConfirmedInv

\* A client's step confirms before it enqueues, and a passing lease enqueues nothing.
LEMMA ClientIsConfirmed ==
  ASSUME IInv, ConfirmedInv, [SessionNext]_session, NEW s \in Sessions, ClientNext(s) \/ ExpireLease(s)
  PROVE  ConfirmedInv'
<1>1. /\ session \in [Sessions -> Session] /\ session' \in [Sessions -> Session]
      /\ SessionShape' /\ ConfirmationsKept
      /\ jobs \in [Sessions -> Job] /\ client \in [Sessions -> SUBSET {"enqueue", "cancelJob"}]
  BY ShapeStep, SessionStep DEF IInv, TypeOK, ConfirmedInv
<1>2. UNCHANGED worker
  BY DEF ClientNext, CreateSession, SendMessage, ConfirmSession, EnqueueConfirmed,
         CancelSession, CancelJob, Disconnect, ExpireLease
<1>3. WorkIsConfirmed'
  BY <1>1, <1>2 DEF ConfirmedInv, WorkIsConfirmed, Working, ConfirmationsKept
<1>4. ASSUME NEW t \in Sessions, jobs'[t].status # "absent" \/ "enqueue" \in client'[t]
      PROVE  session'[t].requirement # 0
  <2>1. session[t].requirement # 0 => session'[t].requirement # 0
    BY <1>1 DEF ConfirmationsKept
  <2>2. jobs[t].status # "absent" \/ "enqueue" \in client[t] => session'[t].requirement # 0
    BY <2>1 DEF ConfirmedInv, JobsAreConfirmed
  <2>3. CASE ConfirmSession(s)
    <3>1. Confirm(s)
      BY <2>3 DEF ConfirmSession
    <3>2. session'[s].status = "queued"
      BY <1>1, <3>1 DEF Confirm, Session
    <3>3. session'[s].requirement # 0
      BY <1>1, <3>2 DEF SessionShape
    <3>4. t # s => jobs'[t] = jobs[t] /\ client'[t] = client[t]
      BY <1>1, <2>3 DEF ConfirmSession, Enqueue
    <3> QED BY <1>4, <2>2, <3>3, <3>4
  <2>4. CASE EnqueueConfirmed(s)
    <3>1. session'[s].requirement # 0
      BY <1>1, <2>4 DEF EnqueueConfirmed, ConfirmedInv, JobsAreConfirmed
    <3>2. t # s => jobs'[t] = jobs[t] /\ client'[t] = client[t]
      BY <1>1, <2>4 DEF EnqueueConfirmed, Enqueue
    <3> QED BY <1>4, <2>2, <3>1, <3>2
  <2>5. CASE CancelSession(s) \/ CancelJob(s) \/ Disconnect(s)
    <3>1. CancelBySession(s) \/ UNCHANGED jobs
      BY <2>5 DEF CancelSession, CancelJob, Disconnect
    <3>2. jobs'[t].status # "absent" => jobs[t].status # "absent"
      BY <1>1, <3>1 DEF CancelBySession
    <3>3. "enqueue" \in client'[t] => "enqueue" \in client[t]
      BY <1>1, <2>5 DEF CancelSession, CancelJob, Disconnect
    <3> QED BY <1>4, <2>2, <3>2, <3>3
  <2>6. CASE CreateSession(s) \/ SendMessage(s)
    BY <1>4, <2>2, <2>6 DEF CreateSession, SendMessage
  <2>7. CASE ExpireLease(s)
    BY <1>1, <1>4, <2>2, <2>7 DEF ExpireLease, Expire, Job
  <2> QED BY <2>3, <2>4, <2>5, <2>6, <2>7 DEF ClientNext
<1> QED BY <1>1, <1>3, <1>4 DEF ConfirmedInv, JobsAreConfirmed

\* Every step keeps what is confirmed.
LEMMA NextIsConfirmed ==
  ASSUME IInv, ConfirmedInv, [Next]_vars
  PROVE  ConfirmedInv'
<1>1. [SessionNext]_session
  BY NextMovesSessions
<1>2. TypeOK /\ jobs \in [Sessions -> Job]
  BY DEF IInv, TypeOK
<1>3. UNCHANGED worker /\ UNCHANGED session => \A u \in Workers : GoesOn(worker'[u], worker[u])
  BY DEF GoesOn
<1>4. CASE UNCHANGED vars
  BY <1>4 DEF vars, ConfirmedInv, SessionShape, JobsAreConfirmed, WorkIsConfirmed, Working
<1>5. ASSUME NEW s \in Sessions, ClientNext(s) \/ ExpireLease(s) PROVE ConfirmedInv'
  BY <1>1, <1>5, ClientIsConfirmed
<1>6. ASSUME NEW w \in Workers, WorkerNext(w) PROVE ConfirmedInv'
  <2>1. CASE \E s \in Sessions : ClaimJob(w, s)
    BY <2>1, ClaimIsConfirmed
  <2>2. CASE WorkerCall(w) \/ CallFails(w)
    <3>1. UNCHANGED client
      BY <2>2 DEF WorkerCall, CallFails, Load, Start, Reserve, Find, Generate, Validate, Publish,
                  Ready, Complete, RetryJob, FailSession, FailJob, Abandon
    <3> QED BY <1>1, <1>2, <2>2, <3>1, CallGoesOn, CallMakesNone, ConfirmedKept
  <2>3. CASE DropExhausted(w)
    <3>1. UNCHANGED <<worker, session, client>> /\ \E some \in SUBSET Sessions : FailExhausted(some)
      BY <2>3 DEF DropExhausted
    <3>2. PICK s : s \in Sessions
      BY <3>1 DEF FailExhausted
    <3> QED BY <1>1, <1>2, <1>3, <3>1, <3>2, QueueMakesNone, ConfirmedKept
  <2>4. CASE Renew(w)
    <3>1. /\ UNCHANGED <<worker, session, client>>
          /\ worker[w].job \in Sessions /\ ExtendLease(w, worker[w].job)
      BY <2>4 DEF Renew, IInv, WorkerKnows
    <3> QED BY <1>1, <1>2, <1>3, <3>1, QueueMakesNone, ConfirmedKept
  <2>5. CASE LoseLease(w) \/ Crash(w)
    <3>1. PICK old \in WorkerState : old = worker[w]
      BY <1>2 DEF TypeOK
    <3>2. UNCHANGED <<session, client, jobs>> /\ old.pc # "idle"
      BY <2>5, <3>1 DEF LoseLease, Crash
    <3>3. \E me \in {[old EXCEPT !.context = "cancelled"], Idle} : worker' = [worker EXCEPT ![w] = me]
      BY <2>5, <3>1 DEF LoseLease, Crash
    <3>4. GoesOn([old EXCEPT !.context = "cancelled"], old) /\ GoesOn(Idle, old)
      BY <3>2 DEF GoesOn, WorkerState, Idle
    <3>5. \A u \in Workers : GoesOn(worker'[u], worker[u])
      BY <1>2, <3>1, <3>3, <3>4, OneGoesOn
    <3>6. NoneAppear
      BY <3>2 DEF NoneAppear
    <3> QED BY <1>1, <3>2, <3>5, <3>6, ConfirmedKept
  <2> QED BY <1>6, <2>1, <2>2, <2>3, <2>4, <2>5 DEF WorkerNext
<1> QED BY <1>4, <1>5, <1>6 DEF Next

\* The invariant holds in every behaviour.
LEMMA ConfirmedInvariant == Spec => []ConfirmedInv
<1>1. Init => ConfirmedInv
  BY InitShape
  DEF Init, JobsInit, Absent, ConfirmedInv, JobsAreConfirmed, WorkIsConfirmed, Working, Idle
<1>2. IInv /\ ConfirmedInv /\ [Next]_vars => ConfirmedInv'
  BY NextIsConfirmed
<1> QED
  BY PipelineInvariant, <1>1, <1>2, PTL DEF Spec

\* Whatever attempt runs, and however late, it works on a session that the user
\* has confirmed, on the requirement the user confirmed, which covers every
\* message the session has (Confirm, AddMessage, RunOnce).
THEOREM WorkFollowsConfirmation == Spec => []WorkIsConfirmed
<1>1. ConfirmedInv => WorkIsConfirmed
  BY DEF ConfirmedInv
<1> QED
  BY ConfirmedInvariant, <1>1, PTL

\* No job is enqueued, or remembered to be, for a session without a confirmed
\* requirement (ConfirmAndEnqueue, and Confirm's two steps), and a session has a
\* version when it is ready and not before.
THEOREM JobsFollowConfirmation == Spec => [](JobsAreConfirmed /\ SessionShape)
<1>1. ConfirmedInv => JobsAreConfirmed /\ SessionShape
  BY DEF ConfirmedInv
<1> QED
  BY ConfirmedInvariant, <1>1, PTL

-----------------------------------------------------------------------------
(* The lease and the attempts. *)

\* What makes the property inductive: nobody runs an attempt that the job has
\* not counted.
AttemptsInv ==
    \A w \in Workers, s \in Sessions :
      Working(w, s) =>
        /\ worker[w].attempt <= jobs[s].attempts
        /\ Held(w, s) => worker[w].attempt = jobs[s].attempts
        /\ \A u \in Workers : Working(u, s) /\ worker[u].attempt = worker[w].attempt => u = w

\* A step that counts no attempt and gives nobody a lease,
LeasesKept ==
    \A s \in Sessions :
      /\ jobs'[s].attempts = jobs[s].attempts
      /\ \A w \in Workers :
           jobs'[s].status = "running" /\ jobs'[s].owner = w => Held(w, s)

\* in which every worker goes on with the attempt it runs, or ends it,
SameRun(me, old) == me.pc = "idle" \/ (old.pc # "idle" /\ me.job = old.job /\ me.attempt = old.attempt)

RunsKept == \A w \in Workers : SameRun(worker'[w], worker[w])

\* keeps the invariant.
LEMMA KeptAttempts ==
  ASSUME AttemptsInv, LeasesKept, RunsKept
  PROVE  AttemptsInv'
  BY DEF AttemptsInv, LeasesKept, RunsKept, SameRun, Working, Held

\* Every step of the queue but a claim gives nobody a lease.
LEMMA QueueKeepsLeases ==
  ASSUME jobs \in [Sessions -> Job], NEW s \in Sessions, NEW w \in Workers,
         \/ Enqueue(s) \/ CancelBySession(s) \/ ExtendLease(w, s) \/ Retry(w, s)
         \/ \E v \in VersionIds : ReservePublication(w, s, v)
         \/ \E status \in {"completed", "failed"} : Finish(w, s, status)
         \/ \E some \in SUBSET Sessions : FailExhausted(some) \/ Expire(some)
         \/ UNCHANGED jobs
  PROVE  LeasesKept
<1> USE DEF LeasesKept, Held, Job
<1>1. CASE Enqueue(s)
  BY <1>1 DEF Enqueue
<1>2. CASE CancelBySession(s) \/ Retry(w, s) \/ \E status \in {"completed", "failed"} : Finish(w, s, status)
  <2>1. PICK status \in {"cancelled", "queued", "completed", "failed"} :
           jobs' = [jobs EXCEPT ![s] = Released(jobs[s], status)]
    BY <1>2 DEF CancelBySession, Retry, Finish
  <2>2. Released(jobs[s], status).attempts = jobs[s].attempts /\ Released(jobs[s], status).status = status
    BY Zenon DEF Released
  <2> QED BY <2>1, <2>2
<1>3. CASE ExtendLease(w, s)
  BY <1>3 DEF ExtendLease
<1>4. CASE \E v \in VersionIds : ReservePublication(w, s, v)
  BY <1>4 DEF ReservePublication
<1>5. CASE \E some \in SUBSET Sessions : FailExhausted(some)
  <2>1. PICK some \in SUBSET Sessions : \A t \in Sessions :
           jobs'[t] = IF t \in some THEN Released(jobs[t], "failed") ELSE jobs[t]
    BY <1>5 DEF FailExhausted
  <2>2. \A t \in Sessions : /\ Released(jobs[t], "failed").attempts = jobs[t].attempts
                            /\ Released(jobs[t], "failed").status = "failed"
    BY Zenon DEF Released
  <2> QED BY <2>1, <2>2
<1>6. CASE \E some \in SUBSET Sessions : Expire(some)
  BY <1>6 DEF Expire
<1>7. CASE UNCHANGED jobs
  BY <1>7
<1> QED BY <1>1, <1>2, <1>3, <1>4, <1>5, <1>6, <1>7

\* A worker that goes on, or ends, leaves the others where they are.
LEMMA OneRunKept ==
  ASSUME TypeOK, NEW w \in Workers, NEW me, worker' = [worker EXCEPT ![w] = me],
         SameRun(me, worker[w])
  PROVE  RunsKept
  BY DEF RunsKept, SameRun, TypeOK

LEMMA IdleRun == \A old : SameRun(Idle, old)
  BY DEF SameRun, Idle

LEMMA PcRun ==
  ASSUME TypeOK, NEW w \in Workers, worker[w].pc # "idle", NEW pc,
         worker' = [worker EXCEPT ![w].pc = pc]
  PROVE  RunsKept
<1>1. PICK old \in WorkerState : old = worker[w]
  BY DEF TypeOK
<1>2. worker' = [worker EXCEPT ![w] = [old EXCEPT !.pc = pc]]
  BY <1>1
<1>3. SameRun([old EXCEPT !.pc = pc], worker[w])
  BY <1>1 DEF SameRun, WorkerState
<1> QED BY <1>2, <1>3, OneRunKept

LEMMA ReplyRun ==
  ASSUME TypeOK, NEW w \in Workers, worker[w].pc # "idle", NEW next, SameRun(next, worker[w]),
         Reply(w, next)
  PROVE  RunsKept
  BY OneRunKept, PcRun DEF Reply

\* The calls of a worker.
LEMMA CallKeepsRuns ==
  ASSUME TypeOK, NEW w \in Workers, WorkerCall(w) \/ CallFails(w)
  PROVE  RunsKept
<1>1. PICK old \in WorkerState : old = worker[w]
  BY DEF TypeOK
<1>2. worker[w].pc # "idle"
  BY DEF WorkerCall, CallFails, At, Load, Start, Reserve, Find, Generate, Validate, Publish, Ready,
         Complete, RetryJob, FailSession, FailJob, Abandon
<1>3. ASSUME NEW x, NEW y
      PROVE  /\ SameRun([old EXCEPT !.pc = x], old)
             /\ SameRun([[old EXCEPT !.seen = x] EXCEPT !.pc = y], old)
             /\ SameRun([[old EXCEPT !.output = x] EXCEPT !.pc = y], old)
             /\ SameRun([[old EXCEPT !.pc = x] EXCEPT !.version = y], old)
  BY <1>1, <1>2 DEF SameRun, WorkerState
<1>4. CASE Load(w) \/ Start(w)
  <2>1. \/ \E seen, pc : Reply(w, [worker[w] EXCEPT !.seen = seen, !.pc = pc])
        \/ \E pc : Reply(w, [worker[w] EXCEPT !.pc = pc])
    BY <1>4 DEF Load, Start
  <2>2. ASSUME NEW seen, NEW pc, Reply(w, [worker[w] EXCEPT !.seen = seen, !.pc = pc]) PROVE RunsKept
    <3>1. Reply(w, [[old EXCEPT !.seen = seen] EXCEPT !.pc = pc])
      BY <1>1, <2>2
    <3> QED BY <1>1, <1>2, <1>3, <3>1, ReplyRun
  <2>3. ASSUME NEW pc, Reply(w, [worker[w] EXCEPT !.pc = pc]) PROVE RunsKept
    BY <1>1, <1>2, <1>3, <2>3, ReplyRun
  <2> QED BY <2>1, <2>2, <2>3
<1>5. CASE Reserve(w)
  <2>1. \/ worker' = [worker EXCEPT ![w] = Idle]
        \/ \E version : worker' = [worker EXCEPT ![w].pc = "find", ![w].version = version]
    BY <1>5 DEF Reserve
  <2>2. ASSUME NEW version, worker' = [worker EXCEPT ![w].pc = "find", ![w].version = version]
        PROVE  RunsKept
    <3>1. worker' = [worker EXCEPT ![w] = [[old EXCEPT !.pc = "find"] EXCEPT !.version = version]]
      BY <1>1, <2>2
    <3> QED BY <1>1, <1>3, <3>1, OneRunKept
  <2> QED BY <2>1, <2>2, OneRunKept, IdleRun
<1>6. CASE Find(w) \/ Validate(w) \/ Publish(w) \/ Ready(w)
  <2>1. \E pc : Reply(w, [worker[w] EXCEPT !.pc = pc])
    BY <1>6 DEF Find, Validate, Publish, Ready
  <2> QED BY <1>1, <1>2, <1>3, <2>1, ReplyRun
<1>7. CASE Generate(w)
  <2>1. \/ \E pc : worker' = [worker EXCEPT ![w].pc = pc]
        \/ \E content, pc : worker' = [worker EXCEPT ![w].output = content, ![w].pc = pc]
    BY <1>7 DEF Generate
  <2>2. ASSUME NEW content, NEW pc, worker' = [worker EXCEPT ![w].output = content, ![w].pc = pc]
        PROVE  RunsKept
    <3>1. worker' = [worker EXCEPT ![w] = [[old EXCEPT !.output = content] EXCEPT !.pc = pc]]
      BY <1>1, <2>2
    <3> QED BY <1>1, <1>3, <3>1, OneRunKept
  <2> QED BY <1>2, <2>1, <2>2, PcRun
<1>8. CASE Complete(w) \/ RetryJob(w) \/ FailJob(w) \/ Abandon(w)
  BY <1>8, OneRunKept, IdleRun DEF Complete, RetryJob, FailJob, Abandon
<1>9. CASE FailSession(w) \/ CallFails(w)
  <2>1. \/ worker' = [worker EXCEPT ![w] = Idle]
        \/ \E pc : worker' = [worker EXCEPT ![w].pc = pc]
    BY <1>9 DEF FailSession, CallFails
  <2> QED BY <1>2, <2>1, PcRun, OneRunKept, IdleRun
<1> QED BY <1>4, <1>5, <1>6, <1>7, <1>8, <1>9 DEF WorkerCall

LEMMA CallKeepsLeases ==
  ASSUME IInv, NEW w \in Workers, WorkerCall(w) \/ CallFails(w)
  PROVE  LeasesKept
<1>1. /\ jobs \in [Sessions -> Job] /\ worker[w].pc # "idle" /\ worker[w].job \in Sessions
  BY DEF IInv, TypeOK, WorkerKnows, WorkerCall, CallFails, At, Load, Start, Reserve, Find, Generate,
         Validate, Publish, Ready, Complete, RetryJob, FailSession, FailJob, Abandon
<1>2. PICK s \in Sessions : s = worker[w].job
  BY <1>1
<1>3. CASE Load(w) \/ Start(w) \/ Find(w) \/ Generate(w) \/ Validate(w) \/ Publish(w) \/ Ready(w)
  BY <1>1, <1>3, QueueKeepsLeases DEF Load, Start, Find, Generate, Validate, Publish, Ready
<1>4. CASE FailSession(w) \/ Abandon(w) \/ CallFails(w)
  BY <1>1, <1>4, QueueKeepsLeases DEF FailSession, Abandon, CallFails
<1>5. CASE Reserve(w)
  BY <1>1, <1>2, <1>5, QueueKeepsLeases DEF Reserve
<1>6. CASE Complete(w) \/ RetryJob(w) \/ FailJob(w)
  BY <1>1, <1>2, <1>6, QueueKeepsLeases DEF Complete, RetryJob, FailJob, FencedWrite
<1> QED BY <1>3, <1>4, <1>5, <1>6 DEF WorkerCall

\* A claim counts a new attempt, which nobody has run before.
LEMMA ClaimKeepsAttempts ==
  ASSUME IInv, AttemptsInv, NEW w \in Workers, NEW s \in Sessions, ClaimJob(w, s)
  PROVE  AttemptsInv'
<1>1. /\ jobs \in [Sessions -> Job] /\ worker \in [Workers -> WorkerState]
      /\ worker[w].pc = "idle"
  BY DEF IInv, TypeOK, ClaimJob
<1>2. PICK dropped \in SUBSET Sessions : Claim(w, s, dropped)
  BY DEF ClaimJob
<1>3. /\ jobs'[s].attempts = jobs[s].attempts + 1 /\ jobs'[s].owner = w
  <2>1. jobs'[s] = [[[[jobs[s] EXCEPT !.status = "running"] EXCEPT !.owner = w]
                       EXCEPT !.live = TRUE] EXCEPT !.attempts = jobs[s].attempts + 1]
    BY <1>2 DEF Claim
  <2> QED BY <1>1, <2>1 DEF Job
<1>4. ASSUME NEW t \in Sessions \ {s}
      PROVE  /\ jobs'[t].attempts = jobs[t].attempts
             /\ \A u \in Workers : jobs'[t].status = "running" /\ jobs'[t].owner = u => Held(u, t)
  <2>1. jobs'[t] = IF t \in dropped THEN Released(jobs[t], "failed") ELSE jobs[t]
    BY <1>2 DEF Claim
  <2>2. /\ Released(jobs[t], "failed").attempts = jobs[t].attempts
        /\ Released(jobs[t], "failed").status = "failed"
    <3>1. jobs[t] \in Job
      BY <1>1
    <3> QED BY <3>1 DEF Released, Job
  <2> QED BY <2>1, <2>2 DEF Held
<1>5. /\ worker'[w].job = s /\ worker'[w].attempt = jobs'[s].attempts
      /\ \A u \in Workers \ {w} : worker'[u] = worker[u]
  <2>1. worker' = [worker EXCEPT ![w] = [[[Idle EXCEPT !.pc = "load"] EXCEPT !.job = s]
                                           EXCEPT !.attempt = jobs'[s].attempts]]
    BY DEF ClaimJob
  <2> QED BY <1>1, <2>1 DEF Idle
<1>6. \A u \in Workers : Working(u, s) => worker[u].attempt <= jobs[s].attempts
  BY DEF AttemptsInv
<1>7. /\ jobs[s].attempts \in Nat
      /\ \A u \in Workers : worker[u].attempt \in Nat
  BY <1>1, JobLeaseAssumption DEF Job, WorkerState
<1>8. ASSUME NEW u \in Workers, Working(u, s)'
      PROVE  /\ worker'[u].attempt <= jobs'[s].attempts
             /\ Held(u, s)' => worker'[u].attempt = jobs'[s].attempts
             /\ u # w => worker'[u].attempt < jobs'[s].attempts /\ Working(u, s)
  <2>1. CASE u = w
    BY <1>3, <1>5, <1>7, <2>1
  <2>2. CASE u # w
    <3>1. worker'[u] = worker[u] /\ Working(u, s)
      BY <1>5, <1>8, <2>2 DEF Working
    <3>2. worker[u].attempt <= jobs[s].attempts
      BY <1>6, <3>1
    <3> QED BY <1>3, <1>7, <2>2, <3>1, <3>2 DEF Held
  <2> QED BY <2>1, <2>2
<1>9. ASSUME NEW u \in Workers, NEW t \in Sessions, Working(u, t)'
      PROVE  /\ worker'[u].attempt <= jobs'[t].attempts
             /\ Held(u, t)' => worker'[u].attempt = jobs'[t].attempts
             /\ \A x \in Workers : Working(x, t)' /\ worker'[x].attempt = worker'[u].attempt => x = u
  <2>1. CASE t = s
    <3>1. ASSUME NEW x \in Workers, Working(x, s)', worker'[x].attempt = worker'[u].attempt
          PROVE  x = u
      <4>1. CASE x = w \/ u = w
        <5>1. worker'[w].attempt = jobs'[s].attempts /\ jobs'[s].attempts \in Nat
          BY <1>3, <1>5, <1>7
        <5>2. u # w => worker'[u].attempt < jobs'[s].attempts
          BY <1>8, <1>9, <2>1
        <5>3. x # w => worker'[x].attempt < jobs'[s].attempts
          BY <1>8, <3>1
        <5> QED BY <3>1, <4>1, <5>1, <5>2, <5>3
      <4>2. CASE x # w /\ u # w
        <5>1. Working(x, s) /\ Working(u, s) /\ worker[x].attempt = worker[u].attempt
          BY <1>5, <1>8, <1>9, <2>1, <3>1, <4>2
        <5> QED BY <5>1 DEF AttemptsInv
      <4> QED BY <4>1, <4>2
    <3> QED BY <1>8, <1>9, <2>1, <3>1
  <2>2. CASE t # s
    <3>1. \A x \in Workers : Working(x, t)' => x # w /\ worker'[x] = worker[x] /\ Working(x, t)
      BY <1>5, <2>2 DEF Working
    <3>2. /\ jobs'[t].attempts = jobs[t].attempts
          /\ \A x \in Workers : Held(x, t)' => Held(x, t)
      BY <1>4, <2>2 DEF Held
    <3> QED BY <1>9, <3>1, <3>2 DEF AttemptsInv
  <2> QED BY <2>1, <2>2
<1> QED BY <1>9 DEF AttemptsInv

LEMMA NextKeepsAttempts ==
  ASSUME IInv, AttemptsInv, [Next]_vars
  PROVE  AttemptsInv'
<1>1. TypeOK /\ jobs \in [Sessions -> Job] /\ worker \in [Workers -> WorkerState]
  BY DEF IInv, TypeOK
<1>2. UNCHANGED worker => RunsKept
  BY DEF RunsKept, SameRun
<1>3. CASE UNCHANGED vars
  BY <1>3 DEF vars, AttemptsInv, Working, Held
<1>4. ASSUME NEW s \in Sessions, ClientNext(s) \/ ExpireLease(s) PROVE AttemptsInv'
  <2>1. UNCHANGED worker
    BY <1>4 DEF ClientNext, CreateSession, SendMessage, ConfirmSession, EnqueueConfirmed,
                CancelSession, CancelJob, Disconnect, ExpireLease
  <2>2. Enqueue(s) \/ CancelBySession(s) \/ UNCHANGED jobs \/ \E some \in SUBSET Sessions : Expire(some)
    BY <1>4 DEF ClientNext, CreateSession, SendMessage, ConfirmSession, EnqueueConfirmed,
                CancelSession, CancelJob, Disconnect, ExpireLease
  <2>3. CASE \E w \in Workers : TRUE
    <3>1. LeasesKept
      BY <1>1, <2>2, <2>3, QueueKeepsLeases
    <3> QED BY <1>2, <2>1, <3>1, KeptAttempts
  <2>4. CASE ~\E w \in Workers : TRUE
    BY <2>4 DEF AttemptsInv
  <2> QED BY <2>3, <2>4
<1>5. ASSUME NEW w \in Workers, WorkerNext(w) PROVE AttemptsInv'
  <2>1. CASE \E s \in Sessions : ClaimJob(w, s)
    BY <2>1, ClaimKeepsAttempts
  <2>2. CASE WorkerCall(w) \/ CallFails(w)
    BY <1>1, <2>2, CallKeepsRuns, CallKeepsLeases, KeptAttempts
  <2>3. CASE DropExhausted(w)
    <3>1. UNCHANGED worker /\ \E some \in SUBSET Sessions : FailExhausted(some)
      BY <2>3 DEF DropExhausted
    <3>2. PICK s : s \in Sessions
      BY <3>1 DEF FailExhausted
    <3>3. LeasesKept
      BY <1>1, <3>1, <3>2, QueueKeepsLeases
    <3> QED BY <1>2, <3>1, <3>3, KeptAttempts
  <2>4. CASE Renew(w)
    <3>1. UNCHANGED worker /\ worker[w].job \in Sessions /\ ExtendLease(w, worker[w].job)
      BY <2>4 DEF Renew, IInv, WorkerKnows
    <3>2. LeasesKept
      BY <1>1, <3>1, QueueKeepsLeases
    <3> QED BY <1>2, <3>1, <3>2, KeptAttempts
  <2>5. CASE LoseLease(w)
    <3>1. PICK old \in WorkerState : old = worker[w]
      BY <1>1
    <3>2. worker' = [worker EXCEPT ![w] = [old EXCEPT !.context = "cancelled"]]
      BY <2>5, <3>1 DEF LoseLease
    <3>3. SameRun([old EXCEPT !.context = "cancelled"], worker[w])
      BY <2>5, <3>1 DEF LoseLease, SameRun, WorkerState
    <3>4. RunsKept
      BY <1>1, <3>2, <3>3, OneRunKept
    <3>5. LeasesKept
      BY <2>5 DEF LoseLease, LeasesKept, Held
    <3> QED BY <3>4, <3>5, KeptAttempts
  <2>6. CASE Crash(w)
    <3>1. RunsKept
      BY <1>1, <2>6, OneRunKept, IdleRun DEF Crash
    <3>2. LeasesKept
      BY <2>6 DEF Crash, LeasesKept, Held
    <3> QED BY <3>1, <3>2, KeptAttempts
  <2> QED BY <1>5, <2>1, <2>2, <2>3, <2>4, <2>5, <2>6 DEF WorkerNext
<1> QED BY <1>3, <1>4, <1>5 DEF Next

\* A worker that holds the lease of its job runs the job's last attempt, and no
\* attempt is run by two workers, although the lease names a process only.
THEOREM OwnersRunLastAttempts == Spec => []OwnerRunsLastAttempt
<1>1. Init => AttemptsInv
  BY DEF Init, AttemptsInv, Working, Idle
<1>2. IInv /\ AttemptsInv /\ [Next]_vars => AttemptsInv'
  BY NextKeepsAttempts
<1>3. AttemptsInv => OwnerRunsLastAttempt
  BY DEF AttemptsInv, OwnerRunsLastAttempt
<1> QED
  BY PipelineInvariant, <1>1, <1>2, <1>3, PTL DEF Spec

=============================================================================
