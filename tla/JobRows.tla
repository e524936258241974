------------------------------- MODULE JobRows -------------------------------
(***************************************************************************)
(* The rows of the job queue and the calls on one row, which MemoryStore   *)
(* and PostgresStore answer alike.  How a claim picks its row differs, and *)
(* is left to MemoryJobStore and PostgresJobStore.                         *)
(*                                                                         *)
(* Times are kept relative to the real time, so that they stay bounded:    *)
(*   leaseLeft = lease_until  - real time   (0 or less: it has run out)    *)
(*   wait      = available_at - real time                                  *)
(* A caller passes the time IT read.  That reading lags the real time by   *)
(* at most MaxLag: the call took a while to arrive, or the caller's clock  *)
(* is slow.  rank is the order of (created_at, id); both are chosen by the *)
(* confirming process, so any order is possible.                           *)
(*                                                                         *)
(* Next to some definitions stands a variant with a plausible slip.  No    *)
(* specification uses it; put in place of the definition, it breaks the    *)
(* property that guards against the slip.                                  *)
(***************************************************************************)
EXTENDS Integers, FiniteSets, GenerationConstants

CONSTANTS Workers, NoWorker, MaxAttempts,
          Lease,        \* lease duration (90 s in the worker), in ticks
          MaxLag        \* how far the time a call carries may lag

ASSUME JobRowsAssumption ==
    /\ NoWorker \notin Workers
    /\ MaxAttempts \in Nat \ {0}
    /\ MaxLag \in Nat
    /\ Lease \in Nat /\ Lease > MaxLag

VARIABLE rows

Lags  == 0..MaxLag
Ranks == 1..Cardinality(Sessions)

\* Delay before the next attempt: 1 s after the first, 2 s after the second.
RetryDelay(attempts) == IF attempts <= 1 THEN 1 ELSE 2

Row == [status    : {"absent", "queued", "running", "completed", "failed", "cancelled"},
        attempts  : 0..MaxAttempts,
        owner     : Workers \cup {NoWorker},
        leaseLeft : (-MaxLag)..Lease,
        wait      : (-MaxLag)..2,
        rank      : {0} \cup Ranks,
        version   : VersionIds \cup {NoVersion}]

NoRow == [status |-> "absent", attempts |-> 0, owner |-> NoWorker, leaseLeft |-> -MaxLag,
          wait |-> -MaxLag, rank |-> 0, version |-> NoVersion]

RowsInit == rows = [s \in Sessions |-> NoRow]

ClaimableOnlyQueuedAt(s, lag) == rows[s].status = "queued" /\ rows[s].wait <= -lag

\* Due for a claim that carries a time lagging by lag.
ClaimableAt(s, lag) ==
    \/ rows[s].status = "queued"  /\ rows[s].wait <= -lag
    \/ rows[s].status = "running" /\ rows[s].leaseLeft <= -lag

ExhaustedOneLate(s) == rows[s].attempts > MaxAttempts

Exhausted(s) == rows[s].attempts >= MaxAttempts

NewestOf(s, candidates) == \A t \in candidates : rows[s].rank >= rows[t].rank

OldestOf(s, candidates) == \A t \in candidates : rows[s].rank <= rows[t].rank

\* The fence of every call that a worker makes on its job.
Fenced(w, s, lag) ==
    /\ rows[s].status = "running"
    /\ rows[s].owner = w
    /\ rows[s].leaseLeft > -lag

ReleaseKeepingOwner(row, status) == [row EXCEPT !.status = status, !.leaseLeft = -MaxLag]

\* lease_owner and lease_until are cleared together.
Release(row, status) ==
    [row EXCEPT !.status = status, !.owner = NoWorker, !.leaseLeft = -MaxLag]

GrantUncounted(row, w, lag) ==
    [row EXCEPT !.status = "running", !.owner = w, !.leaseLeft = Lease - lag]

Grant(row, w, lag) ==
    [row EXCEPT !.status = "running", !.attempts = @ + 1, !.owner = w, !.leaseLeft = Lease - lag]

-----------------------------------------------------------------------------
\* A second Enqueue of the session returns the existing job.
Enqueue(s, lag) ==
    /\ rows[s].status = "absent"
    /\ \E r \in Ranks \ {rows[t].rank : t \in Sessions} :
         rows' = [rows EXCEPT ![s] = [NoRow EXCEPT !.status = "queued", !.rank = r, !.wait = -lag]]

ExtendLease(w, s, lag) ==
    /\ Fenced(w, s, lag)
    /\ rows' = [rows EXCEPT ![s].leaseLeft = Lease - lag]

ReserveAgain(w, s, v, lag) == Fenced(w, s, lag) /\ rows' = [rows EXCEPT ![s].version = v]

\* The worker passes the time it read before it claimed the job, so this lag
\* has no bound: MaxLag + 1 stands for every longer one.
ReservePublication(w, s, v, lag) ==
    /\ Fenced(w, s, lag)
    /\ rows' = [rows EXCEPT ![s].version = IF @ = NoVersion THEN v ELSE @]

Retry(w, s, lag) ==
    /\ Fenced(w, s, lag)
    /\ rows' = [rows EXCEPT ![s] =
                  [Release(@, "queued") EXCEPT !.wait = RetryDelay(rows[s].attempts) - lag]]

Finish(w, s, status, lag) ==
    /\ Fenced(w, s, lag)
    /\ rows' = [rows EXCEPT ![s] = Release(@, status)]

CancelBySession(s) ==
    /\ rows[s].status \in {"queued", "running"}
    /\ rows' = [rows EXCEPT ![s] = Release(@, "cancelled")]

\* One unit of real time passes.
Tick ==
    rows' = [s \in Sessions |->
       [rows[s] EXCEPT !.leaseLeft = IF @ > -MaxLag THEN @ - 1 ELSE @,
                       !.wait      = IF @ > -MaxLag THEN @ - 1 ELSE @]]

\* The calls on one row: every caller but a claim.
RowCall(s) ==
    \/ \E lag \in Lags : Enqueue(s, lag)
    \/ CancelBySession(s)
    \/ \E w \in Workers, lag \in Lags :
         \/ ExtendLease(w, s, lag)
         \/ Retry(w, s, lag)
         \/ \E status \in {"completed", "failed"} : Finish(w, s, status, lag)
    \/ \E w \in Workers, v \in VersionIds, lag \in Lags \cup {MaxLag + 1} :
         ReservePublication(w, s, v, lag)

-----------------------------------------------------------------------------
(* The contract that these rows implement.                                    *)
Contract == INSTANCE JobLease WITH
    jobs <- [s \in Sessions |->
               [status |-> rows[s].status, attempts |-> rows[s].attempts,
                owner |-> rows[s].owner, live |-> rows[s].leaseLeft > 0,
                version |-> rows[s].version]]

\* Whatever its callers do, a store does what the contract lets it do.
ImplementsContract == Contract!JobsSpec

TypeOK == rows \in [Sessions -> Row]

\* A lease and its owner exist exactly while the job runs: the three columns
\* are always written together, whichever call ended the attempt.
LeaseBelongsToRunningJob ==
    \A s \in Sessions :
        /\ (rows[s].owner # NoWorker) <=> (rows[s].status = "running")
        /\ rows[s].leaseLeft > -MaxLag => rows[s].status = "running"

\* A job whose attempts are used up and whose lease has run out does not stay
\* that way for ever.
ExhaustedJobIsSettled ==
    \A s \in Sessions :
        (/\ rows[s].status = "running"
         /\ rows[s].attempts = MaxAttempts
         /\ rows[s].leaseLeft <= -MaxLag) ~> rows[s].status \in Contract!TerminalJob

=============================================================================
