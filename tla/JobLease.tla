------------------------------ MODULE JobLease ------------------------------
(***************************************************************************)
(* What the generation job queue promises, without clocks: the contract    *)
(* behind the Go interface jobs.Store.  There is at most one job for a     *)
(* session (the memory store's session index, UNIQUE (session_id) in the   *)
(* database), so a job is named by its session.                            *)
(*                                                                         *)
(* "live" says that the lease has not run out on the fastest clock of any  *)
(* process.  The stores compare a lease with a time that the CALLER read   *)
(* some moment ago, so a call by the current owner may still be accepted   *)
(* after the lease has run out; a call by anybody else never is.           *)
(*                                                                         *)
(* Next to some definitions stands a variant with a plausible slip.  No    *)
(* specification uses it; put in place of the definition, it breaks the    *)
(* property that guards against the slip.                                  *)
(***************************************************************************)
EXTENDS Integers, FiniteSets, GenerationConstants

CONSTANTS Workers,      \* worker processes
          NoWorker,     \* lease_owner IS NULL
          MaxAttempts   \* max_attempts, 3 in the code

ASSUME JobLeaseAssumption ==
    /\ NoWorker \notin Workers
    /\ MaxAttempts \in Nat \ {0}

VARIABLE jobs

Absent == [status |-> "absent", attempts |-> 0, owner |-> NoWorker,
           live |-> FALSE, version |-> NoVersion]

Job == [status   : {"absent", "queued", "running", "completed", "failed", "cancelled"},
        attempts : 0..MaxAttempts,
        owner    : Workers \cup {NoWorker},
        live     : BOOLEAN,
        version  : VersionIds \cup {NoVersion}]

TerminalJob == {"completed", "failed", "cancelled"}

Held(w, s)   == jobs[s].status = "running" /\ jobs[s].owner = w
ClaimableOnlyQueued(s) == jobs[s].status = "queued"

Claimable(s) == \/ jobs[s].status = "queued"
                \/ jobs[s].status = "running" /\ ~jobs[s].live

ExhaustedOneLate(s) == Claimable(s) /\ jobs[s].attempts > MaxAttempts

Exhausted(s) == Claimable(s) /\ jobs[s].attempts >= MaxAttempts

\* The job as it is left by anything that takes the lease away.
Released(job, status) ==
    [job EXCEPT !.status = status, !.owner = NoWorker, !.live = FALSE]

-----------------------------------------------------------------------------
JobsInit == jobs = [s \in Sessions |-> Absent]

Enqueue(s) ==
    /\ jobs[s].status = "absent"
    /\ jobs' = [jobs EXCEPT ![s].status = "queued"]

ClaimCountingQueued(w, s, dropped) ==
    /\ Claimable(s) /\ ~Exhausted(s) /\ dropped = {}
    /\ jobs' = [jobs EXCEPT ![s] =
          [jobs[s] EXCEPT !.status = "running", !.owner = w, !.live = TRUE,
                          !.attempts = IF jobs[s].status = "queued" THEN @ + 1 ELSE @]]

\* A successful claim of s.  On its way to s the store may also have failed
\* some jobs whose attempts are used up.
Claim(w, s, dropped) ==
    /\ Claimable(s) /\ ~Exhausted(s)
    /\ dropped \subseteq {d \in Sessions : Exhausted(d)}
    /\ jobs' = [t \in Sessions |->
          IF t = s THEN [jobs[s] EXCEPT !.status = "running", !.owner = w, !.live = TRUE,
                                        !.attempts = @ + 1]
          ELSE IF t \in dropped THEN Released(jobs[t], "failed") ELSE jobs[t]]

\* A claim that finds no job to run but fails the exhausted ones it met.
FailExhausted(dropped) ==
    /\ dropped # {}
    /\ dropped \subseteq {d \in Sessions : Exhausted(d)}
    /\ jobs' = [t \in Sessions |->
          IF t \in dropped THEN Released(jobs[t], "failed") ELSE jobs[t]]

ExtendLease(w, s) ==
    /\ Held(w, s)
    /\ jobs' = [jobs EXCEPT ![s].live = TRUE]

ReserveAgain(w, s, v) == Held(w, s) /\ jobs' = [jobs EXCEPT ![s].version = v]

\* The first reservation wins; later ones return it unchanged.
ReservePublication(w, s, v) ==
    /\ Held(w, s)
    /\ jobs' = [jobs EXCEPT ![s].version = IF @ = NoVersion THEN v ELSE @]

Retry(w, s) ==
    /\ Held(w, s)
    /\ jobs' = [jobs EXCEPT ![s] = Released(@, "queued")]

Finish(w, s, status) ==
    /\ Held(w, s)
    /\ jobs' = [jobs EXCEPT ![s] = Released(@, status)]

CancelBySession(s) ==
    /\ jobs[s].status \in {"queued", "running"}
    /\ jobs' = [jobs EXCEPT ![s] = Released(@, "cancelled")]

\* Time passes and the leases of some running jobs run out.
Expire(late) ==
    /\ late # {}
    /\ \A s \in late : jobs[s].status = "running" /\ jobs[s].live
    /\ jobs' = [s \in Sessions |->
          IF s \in late THEN [jobs[s] EXCEPT !.live = FALSE] ELSE jobs[s]]

JobsNext ==
    \/ \E s \in Sessions : Enqueue(s) \/ CancelBySession(s)
    \/ \E w \in Workers, s \in Sessions :
          \/ \E dropped \in SUBSET Sessions : Claim(w, s, dropped)
          \/ ExtendLease(w, s)
          \/ \E v \in VersionIds : ReservePublication(w, s, v)
          \/ Retry(w, s)
          \/ \E status \in {"completed", "failed"} : Finish(w, s, status)
    \/ \E some \in SUBSET Sessions : FailExhausted(some) \/ Expire(some)

JobsSpec == JobsInit /\ [][JobsNext]_jobs

=============================================================================
