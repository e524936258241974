---------------------------- MODULE JobStoreProofs ----------------------------
(***************************************************************************)
(* Theorems about both job stores: the columns of a row agree with each    *)
(* other, overlapping claims hold disjoint rows, the memory store serves   *)
(* the oldest job first, and both stores implement the contract JobLease,  *)
(* for any number of sessions and workers, any lease and any lag.          *)
(***************************************************************************)
EXTENDS MemoryJobStore, PostgresJobStore, TLAPS

\* What holds of every row: its columns agree with each other.
GoodRow(row) ==
    /\ row \in Row
    /\ row.owner # NoWorker <=> row.status = "running"
    /\ row.leaseLeft > -MaxLag => row.status = "running"
    /\ row.status = "absent" => row.attempts = 0 /\ row.version = NoVersion

\* What every call of either store keeps.
RowsInv == rows \in [Sessions -> Row] /\ \A s \in Sessions : GoodRow(rows[s])

\* The job of the contract that a row stands for.
JobOf(row) == [status |-> row.status, attempts |-> row.attempts, owner |-> row.owner,
               live |-> row.leaseLeft > 0, version |-> row.version]

Jobs == [s \in Sessions |-> JobOf(rows[s])]

-----------------------------------------------------------------------------
(* Rows: what the operators that build them return.                           *)

LEMMA RowTypes ==
  ASSUME NEW row, GoodRow(row)
  PROVE  /\ row \in Row
         /\ row.attempts \in 0..MaxAttempts
         /\ row.leaseLeft \in (-MaxLag)..Lease
         /\ row.wait \in (-MaxLag)..2
         /\ row.owner \in Workers \cup {NoWorker}
         /\ row.version \in VersionIds \cup {NoVersion}
         /\ row.rank \in {0} \cup Ranks
  BY DEF GoodRow, Row

LEMMA ReleasedRow ==
  ASSUME NEW row \in Row, NEW status \in {"queued", "completed", "failed", "cancelled"}
  PROVE  /\ Release(row, status) \in Row
         /\ Release(row, status).status = status
         /\ Release(row, status).attempts = row.attempts
         /\ Release(row, status).owner = NoWorker
         /\ Release(row, status).leaseLeft = -MaxLag
         /\ Release(row, status).wait = row.wait
         /\ Release(row, status).rank = row.rank
         /\ Release(row, status).version = row.version
<1>1. -MaxLag \in (-MaxLag)..Lease
  BY JobRowsAssumption
<1>2. Release(row, status) \in Row
  BY <1>1, Zenon DEF Release, Row
<1>3. Release(row, status).status = status
  BY <1>1, Zenon DEF Release, Row
<1>4. Release(row, status).attempts = row.attempts
  BY <1>1, Zenon DEF Release, Row
<1>5. Release(row, status).owner = NoWorker
  BY <1>1, Zenon DEF Release, Row
<1>6. Release(row, status).leaseLeft = -MaxLag
  BY <1>1, Zenon DEF Release, Row
<1>7. Release(row, status).wait = row.wait
  BY <1>1, Zenon DEF Release, Row
<1>8. Release(row, status).rank = row.rank
  BY <1>1, Zenon DEF Release, Row
<1>9. Release(row, status).version = row.version
  BY <1>1, Zenon DEF Release, Row
<1> QED
  BY <1>2, <1>3, <1>4, <1>5, <1>6, <1>7, <1>8, <1>9

LEMMA GrantedRow ==
  ASSUME NEW row \in Row, NEW w \in Workers, NEW lag \in Lags, row.attempts < MaxAttempts
  PROVE  /\ Grant(row, w, lag) \in Row
         /\ Grant(row, w, lag).status = "running"
         /\ Grant(row, w, lag).attempts = row.attempts + 1
         /\ Grant(row, w, lag).owner = w
         /\ Grant(row, w, lag).leaseLeft = Lease - lag
         /\ Grant(row, w, lag).wait = row.wait
         /\ Grant(row, w, lag).rank = row.rank
         /\ Grant(row, w, lag).version = row.version
<1>1. row.attempts + 1 \in 0..MaxAttempts /\ Lease - lag \in (-MaxLag)..Lease
  BY JobRowsAssumption DEF Row, Lags
<1>2. Grant(row, w, lag) \in Row
  BY <1>1, Zenon DEF Grant, Row
<1>3. Grant(row, w, lag).status = "running"
  BY <1>1, Zenon DEF Grant, Row
<1>4. Grant(row, w, lag).attempts = row.attempts + 1
  BY <1>1, Zenon DEF Grant, Row
<1>5. Grant(row, w, lag).owner = w
  BY <1>1, Zenon DEF Grant, Row
<1>6. Grant(row, w, lag).leaseLeft = Lease - lag
  BY <1>1, Zenon DEF Grant, Row
<1>7. Grant(row, w, lag).wait = row.wait
  BY <1>1, Zenon DEF Grant, Row
<1>8. Grant(row, w, lag).rank = row.rank
  BY <1>1, Zenon DEF Grant, Row
<1>9. Grant(row, w, lag).version = row.version
  BY <1>1, Zenon DEF Grant, Row
<1> QED
  BY <1>2, <1>3, <1>4, <1>5, <1>6, <1>7, <1>8, <1>9

LEMMA NoRowGood == GoodRow(NoRow)
  BY JobRowsAssumption, GenerationConstantsAssumption DEF NoRow, Row, GoodRow

LEMMA ReleasedGood ==
  ASSUME NEW row, GoodRow(row), NEW status \in {"queued", "completed", "failed", "cancelled"}
  PROVE  GoodRow(Release(row, status))
<1>1. row \in Row
  BY DEF GoodRow
<1> QED
  BY <1>1, ReleasedRow, JobRowsAssumption DEF GoodRow

LEMMA GrantedGood ==
  ASSUME NEW row, GoodRow(row), NEW w \in Workers, NEW lag \in Lags, row.attempts < MaxAttempts
  PROVE  GoodRow(Grant(row, w, lag))
<1>1. row \in Row
  BY DEF GoodRow
<1> QED
  BY <1>1, GrantedRow, JobRowsAssumption DEF GoodRow

\* The invariant is the type invariant and the agreement of the columns.
LEMMA RowsInvTells == RowsInv => TypeOK /\ LeaseBelongsToRunningJob
  BY DEF RowsInv, GoodRow, TypeOK, LeaseBelongsToRunningJob

\* A call that replaces rows by good rows keeps the invariant.
LEMMA RowReplaced ==
  ASSUME RowsInv, NEW s \in Sessions, NEW row, GoodRow(row),
         rows' = [rows EXCEPT ![s] = row]
  PROVE  RowsInv'
<1>1. row \in Row
  BY DEF GoodRow
<1>2. rows' \in [Sessions -> Row]
  BY <1>1 DEF RowsInv
<1>3. \A t \in Sessions : rows'[t] = IF t = s THEN row ELSE rows[t]
  BY DEF RowsInv
<1> QED
  BY <1>2, <1>3 DEF RowsInv, GoodRow

-----------------------------------------------------------------------------
(* The calls on one row.                                                      *)

LEMMA InitGood == RowsInit => RowsInv
<1>1. NoRow \in Row
  BY NoRowGood DEF GoodRow
<1> QED
  BY <1>1, NoRowGood DEF RowsInit, RowsInv

\* There is one job with given fields.
Only(status, attempts, owner, live, version) ==
    [status : {status}, attempts : {attempts}, owner : {owner}, live : {live},
     version : {version}]

LEMMA SameJob ==
  ASSUME NEW status, NEW attempts, NEW owner, NEW live, NEW version
  PROVE  \A one, two \in Only(status, attempts, owner, live, version) : one = two
  BY DEF Only

\* A call that replaces one row replaces the job that the row stands for.
LEMMA JobReplaced ==
  ASSUME RowsInv, NEW s \in Sessions, NEW row, rows' = [rows EXCEPT ![s] = row]
  PROVE  Jobs' = [Jobs EXCEPT ![s] = JobOf(row)]
<1>1. \A t \in Sessions : rows'[t] = IF t = s THEN row ELSE rows[t]
  BY DEF RowsInv
<1>2. \A t \in Sessions : Jobs'[t] = IF t = s THEN JobOf(row) ELSE Jobs[t]
  BY <1>1 DEF Jobs, JobOf
<1>3. Jobs' = [t \in Sessions |-> IF t = s THEN JobOf(row) ELSE Jobs[t]]
  BY <1>2 DEF Jobs
<1> QED
  BY <1>3 DEF Jobs

LEMMA JobReleased ==
  ASSUME NEW row \in Row, NEW status \in {"queued", "completed", "failed", "cancelled"}
  PROVE  JobOf(Release(row, status)) = Contract!Released(JobOf(row), status)
<1>1. (-MaxLag > 0) = FALSE
  BY JobRowsAssumption
<1>2. JobOf(Release(row, status)) \in Only(status, row.attempts, NoWorker, FALSE, row.version)
  BY <1>1, ReleasedRow, Zenon DEF JobOf, Only
<1>3. Contract!Released(JobOf(row), status)
         \in Only(status, row.attempts, NoWorker, FALSE, row.version)
  BY Zenon DEF JobOf, Contract!Released, Only
<1> QED
  BY <1>2, <1>3, SameJob, Zenon

LEMMA EnqueueCall ==
  ASSUME RowsInv, NEW s \in Sessions, NEW lag \in Lags, Enqueue(s, lag)
  PROVE  RowsInv' /\ Contract!Enqueue(s)
<1>1. PICK r \in Ranks :
        rows' = [rows EXCEPT ![s] = [NoRow EXCEPT !.status = "queued", !.rank = r, !.wait = -lag]]
  BY DEF Enqueue
<1> DEFINE row == [NoRow EXCEPT !.status = "queued", !.rank = r, !.wait = -lag]
<1>2. row \in [status : {"queued"}, attempts : {0}, owner : {NoWorker}, leaseLeft : {-MaxLag},
               wait : {-lag}, rank : {r}, version : {NoVersion}]
  BY Zenon DEF NoRow
<1>3. rows' = [rows EXCEPT ![s] = row]
  BY <1>1
<1> HIDE DEF row
<1>4. GoodRow(row)
  BY <1>2, JobRowsAssumption DEF GoodRow, Row, Lags
<1>5. JobOf(row) \in Only("queued", 0, NoWorker, FALSE, NoVersion)
  <2>1. (row.leaseLeft > 0) = FALSE
    BY <1>2, JobRowsAssumption
  <2> QED
    BY <1>2, <2>1, Zenon DEF JobOf, Only
<1>6. rows[s].status = "absent" /\ rows[s].attempts = 0 /\ rows[s].owner = NoWorker
      /\ (rows[s].leaseLeft > 0) = FALSE /\ rows[s].version = NoVersion
  <2>1. GoodRow(rows[s]) /\ rows[s].status = "absent"
    BY DEF RowsInv, Enqueue
  <2>2. rows[s].leaseLeft \in (-MaxLag)..Lease /\ ~(rows[s].leaseLeft > -MaxLag)
    BY <2>1, RowTypes DEF GoodRow
  <2> QED
    BY <2>1, <2>2, JobRowsAssumption DEF GoodRow
<1>7. JobOf(row) = [JobOf(rows[s]) EXCEPT !.status = "queued"]
  <2>1. [JobOf(rows[s]) EXCEPT !.status = "queued"]
           \in Only("queued", 0, NoWorker, FALSE, NoVersion)
    BY <1>6, Zenon DEF JobOf, Only
  <2> QED
    BY <1>5, <2>1, SameJob, Zenon
<1>8. Jobs[s] = JobOf(rows[s])
  BY DEF Jobs
<1>9. Jobs' = [Jobs EXCEPT ![s] = [Jobs[s] EXCEPT !.status = "queued"]]
  BY <1>3, <1>7, <1>8, JobReplaced
<1>10. Jobs[s].status = "absent"
  BY <1>6, <1>8 DEF JobOf
<1> QED
  BY <1>3, <1>4, <1>9, <1>10, RowReplaced DEF Contract!Enqueue, Jobs, JobOf

\* What a fenced call needs of the contract: the caller holds the job.
LEMMA FencedHolds ==
  ASSUME RowsInv, NEW w \in Workers, NEW s \in Sessions, NEW lag, Fenced(w, s, lag)
  PROVE  /\ Contract!Held(w, s)
         /\ Jobs[s] = JobOf(rows[s])
         /\ GoodRow(rows[s])
         /\ rows[s] \in Row
         /\ rows[s].status = "running"
         /\ rows[s].owner = w
  BY DEF Fenced, RowsInv, GoodRow, Jobs, JobOf, Contract!Held

LEMMA ExtendLeaseCall ==
  ASSUME RowsInv, NEW w \in Workers, NEW s \in Sessions, NEW lag \in Lags,
         ExtendLease(w, s, lag)
  PROVE  RowsInv' /\ Contract!ExtendLease(w, s)
<1> DEFINE row == [rows[s] EXCEPT !.leaseLeft = Lease - lag]
<1>1. rows' = [rows EXCEPT ![s] = row] /\ Fenced(w, s, lag)
  BY DEF ExtendLease
<1>2. Lease - lag \in (-MaxLag)..Lease /\ (Lease - lag > 0) = TRUE
  BY JobRowsAssumption DEF Lags
<1>3. row \in Row /\ row.status = rows[s].status /\ row.attempts = rows[s].attempts
      /\ row.owner = rows[s].owner /\ row.leaseLeft = Lease - lag
      /\ row.version = rows[s].version
  BY <1>1, <1>2, FencedHolds DEF Row
<1> HIDE DEF row
<1>4. GoodRow(row)
  BY <1>1, <1>2, <1>3, FencedHolds DEF GoodRow
<1>5. JobOf(row) = [JobOf(rows[s]) EXCEPT !.live = TRUE]
  <2>1. JobOf(row) \in Only(rows[s].status, rows[s].attempts, rows[s].owner, TRUE, rows[s].version)
    BY <1>2, <1>3, Zenon DEF JobOf, Only
  <2>2. [JobOf(rows[s]) EXCEPT !.live = TRUE]
           \in Only(rows[s].status, rows[s].attempts, rows[s].owner, TRUE, rows[s].version)
    BY Zenon DEF JobOf, Only
  <2> QED
    BY <2>1, <2>2, SameJob, Zenon
<1>6. Jobs' = [Jobs EXCEPT ![s] = [Jobs[s] EXCEPT !.live = TRUE]]
  <2>1. Jobs[s] = JobOf(rows[s])
    BY DEF Jobs
  <2> QED
    BY <1>1, <1>5, <2>1, JobReplaced
<1> QED
  BY <1>1, <1>4, <1>6, FencedHolds, RowReplaced DEF Contract!ExtendLease, Jobs, JobOf

LEMMA ReserveCall ==
  ASSUME RowsInv, NEW w \in Workers, NEW s \in Sessions, NEW v \in VersionIds, NEW lag,
         ReservePublication(w, s, v, lag)
  PROVE  RowsInv' /\ Contract!ReservePublication(w, s, v)
<1> DEFINE kept == IF rows[s].version = NoVersion THEN v ELSE rows[s].version
           row  == [rows[s] EXCEPT !.version = kept]
<1>1. rows' = [rows EXCEPT ![s] = row] /\ Fenced(w, s, lag)
  BY DEF ReservePublication
<1>2. kept \in VersionIds \cup {NoVersion}
  BY <1>1, FencedHolds, RowTypes
<1> HIDE DEF kept
<1>3. row \in Row /\ row.status = rows[s].status /\ row.attempts = rows[s].attempts
      /\ row.owner = rows[s].owner /\ row.leaseLeft = rows[s].leaseLeft
      /\ row.version = kept
  BY <1>1, <1>2, FencedHolds DEF Row
<1> HIDE DEF row
<1>4. GoodRow(row)
  BY <1>1, <1>3, FencedHolds DEF GoodRow
<1>5. JobOf(row) = [JobOf(rows[s]) EXCEPT !.version = kept]
  <2>1. JobOf(row) \in Only(rows[s].status, rows[s].attempts, rows[s].owner, rows[s].leaseLeft > 0, kept)
    BY <1>3, Zenon DEF JobOf, Only
  <2>2. [JobOf(rows[s]) EXCEPT !.version = kept]
           \in Only(rows[s].status, rows[s].attempts, rows[s].owner, rows[s].leaseLeft > 0, kept)
    BY Zenon DEF JobOf, Only
  <2> QED
    BY <2>1, <2>2, SameJob, Zenon
<1>6. Jobs' = [Jobs EXCEPT ![s] = [Jobs[s] EXCEPT !.version = kept]]
  <2>1. Jobs[s] = JobOf(rows[s])
    BY DEF Jobs
  <2> QED
    BY <1>1, <1>5, <2>1, JobReplaced
<1>7. kept = IF Jobs[s].version = NoVersion THEN v ELSE Jobs[s].version
  BY DEF kept, JobOf, Jobs
<1> QED
  BY <1>1, <1>4, <1>6, <1>7, FencedHolds, RowReplaced
  DEF Contract!ReservePublication, Jobs, JobOf

\* A row that is released to a status.
LEMMA ReleaseCall ==
  ASSUME RowsInv, NEW s \in Sessions, NEW status \in {"queued", "completed", "failed", "cancelled"},
         rows' = [rows EXCEPT ![s] = Release(@, status)]
  PROVE  RowsInv' /\ Jobs' = [Jobs EXCEPT ![s] = Contract!Released(@, status)]
<1>1. GoodRow(rows[s]) /\ rows[s] \in Row /\ Jobs[s] = JobOf(rows[s])
  BY DEF RowsInv, Jobs
<1>2. GoodRow(Release(rows[s], status))
  BY <1>1, ReleasedGood
<1>3. JobOf(Release(rows[s], status)) = Contract!Released(Jobs[s], status)
  BY <1>1, JobReleased
<1> QED
  BY <1>2, <1>3, RowReplaced, JobReplaced

LEMMA FinishCall ==
  ASSUME RowsInv, NEW w \in Workers, NEW s \in Sessions, NEW lag,
         NEW status \in {"completed", "failed"}, Finish(w, s, status, lag)
  PROVE  RowsInv' /\ Contract!Finish(w, s, status)
<1>1. Contract!Held(w, s)
  BY FencedHolds DEF Finish
<1>2. RowsInv' /\ Jobs' = [Jobs EXCEPT ![s] = Contract!Released(@, status)]
  BY ReleaseCall DEF Finish
<1> QED
  BY <1>1, <1>2 DEF Contract!Finish, Jobs, JobOf

LEMMA CancelCall ==
  ASSUME RowsInv, NEW s \in Sessions, CancelBySession(s)
  PROVE  RowsInv' /\ Contract!CancelBySession(s)
<1>1. Jobs[s].status \in {"queued", "running"}
  BY DEF CancelBySession, Jobs, JobOf
<1>2. RowsInv' /\ Jobs' = [Jobs EXCEPT ![s] = Contract!Released(@, "cancelled")]
  BY ReleaseCall DEF CancelBySession
<1> QED
  BY <1>1, <1>2 DEF Contract!CancelBySession, Jobs, JobOf

LEMMA RetryCall ==
  ASSUME RowsInv, NEW w \in Workers, NEW s \in Sessions, NEW lag \in Lags, Retry(w, s, lag)
  PROVE  RowsInv' /\ Contract!Retry(w, s)
<1> DEFINE free == Release(rows[s], "queued")
           wait == RetryDelay(rows[s].attempts) - lag
           row  == [free EXCEPT !.wait = wait]
<1>1. rows' = [rows EXCEPT ![s] = row] /\ Fenced(w, s, lag)
  BY DEF Retry
<1>2. wait \in (-MaxLag)..2
  BY JobRowsAssumption DEF RetryDelay, Lags
<1>3. GoodRow(rows[s]) /\ rows[s] \in Row /\ Jobs[s] = JobOf(rows[s]) /\ Contract!Held(w, s)
  BY <1>1, FencedHolds
<1>4. GoodRow(free) /\ free \in Row
  BY <1>3, ReleasedGood DEF GoodRow
<1>5. JobOf(free) = Contract!Released(Jobs[s], "queued")
  BY <1>3, JobReleased
<1> HIDE DEF wait, free
<1>6. row \in Row /\ row.status = free.status /\ row.attempts = free.attempts
      /\ row.owner = free.owner /\ row.leaseLeft = free.leaseLeft /\ row.version = free.version
  BY <1>2, <1>4 DEF Row
<1> HIDE DEF row
<1>7. GoodRow(row)
  BY <1>4, <1>6 DEF GoodRow
<1>8. JobOf(row) = JobOf(free)
  BY <1>6, Zenon DEF JobOf
<1>9. Jobs' = [Jobs EXCEPT ![s] = Contract!Released(Jobs[s], "queued")]
  BY <1>1, <1>5, <1>8, JobReplaced
<1>10. RowsInv'
  BY <1>1, <1>7, RowReplaced
<1> QED
  BY <1>3, <1>9, <1>10 DEF Contract!Retry, Jobs, JobOf

\* Every call on one row keeps the invariant and is a step of the contract.
LEMMA RowCallStep ==
  ASSUME RowsInv, NEW s \in Sessions, RowCall(s)
  PROVE  RowsInv' /\ Contract!JobsNext
<1>1. ASSUME NEW lag \in Lags, Enqueue(s, lag) PROVE RowsInv' /\ Contract!JobsNext
  BY <1>1, EnqueueCall, Zenon DEF Contract!JobsNext
<1>2. CASE CancelBySession(s)
  BY <1>2, CancelCall, Zenon DEF Contract!JobsNext
<1>3. ASSUME NEW w \in Workers, NEW lag \in Lags, ExtendLease(w, s, lag)
      PROVE  RowsInv' /\ Contract!JobsNext
  BY <1>3, ExtendLeaseCall, Zenon DEF Contract!JobsNext
<1>4. ASSUME NEW w \in Workers, NEW lag \in Lags, Retry(w, s, lag)
      PROVE  RowsInv' /\ Contract!JobsNext
  BY <1>4, RetryCall, Zenon DEF Contract!JobsNext
<1>5. ASSUME NEW w \in Workers, NEW lag \in Lags, NEW status \in {"completed", "failed"},
             Finish(w, s, status, lag)
      PROVE  RowsInv' /\ Contract!JobsNext
  BY <1>5, FinishCall, Zenon DEF Contract!JobsNext
<1>6. ASSUME NEW w \in Workers, NEW v \in VersionIds, NEW lag, ReservePublication(w, s, v, lag)
      PROVE  RowsInv' /\ Contract!JobsNext
  BY <1>6, ReserveCall, Zenon DEF Contract!JobsNext
<1> QED
  BY <1>1, <1>2, <1>3, <1>4, <1>5, <1>6, Zenon DEF RowCall

\* Time keeps the invariant, and lets leases run out.
LEMMA TickStep ==
  ASSUME RowsInv, Tick
  PROVE  RowsInv' /\ (Contract!JobsNext \/ Jobs' = Jobs)
<1> DEFINE Older(row) ==
             [row EXCEPT !.leaseLeft = IF @ > -MaxLag THEN @ - 1 ELSE @,
                         !.wait      = IF @ > -MaxLag THEN @ - 1 ELSE @]
<1>0. PICK late \in SUBSET Sessions : \A s \in Sessions : s \in late <=> rows[s].leaseLeft = 1
  <2>1. {s \in Sessions : rows[s].leaseLeft = 1} \in SUBSET Sessions
    OBVIOUS
  <2> QED
    BY <2>1
<1>1. rows' = [s \in Sessions |-> Older(rows[s])]
  BY DEF Tick
<1>2. ASSUME NEW s \in Sessions
      PROVE  /\ GoodRow(Older(rows[s])) /\ Older(rows[s]) \in Row
             /\ Older(rows[s]).status = rows[s].status
             /\ Older(rows[s]).attempts = rows[s].attempts
             /\ Older(rows[s]).owner = rows[s].owner
             /\ Older(rows[s]).version = rows[s].version
             /\ Older(rows[s]).leaseLeft =
                  IF rows[s].leaseLeft > -MaxLag THEN rows[s].leaseLeft - 1 ELSE rows[s].leaseLeft
  <2>1. GoodRow(rows[s]) /\ rows[s] \in Row
    BY DEF RowsInv
  <2> DEFINE left == IF rows[s].leaseLeft > -MaxLag THEN rows[s].leaseLeft - 1 ELSE rows[s].leaseLeft
             wait == IF rows[s].wait > -MaxLag THEN rows[s].wait - 1 ELSE rows[s].wait
             row  == [rows[s] EXCEPT !.leaseLeft = left, !.wait = wait]
  <2>2. Older(rows[s]) = row
    BY Zenon
  <2>3. /\ left \in (-MaxLag)..Lease /\ wait \in (-MaxLag)..2
        /\ left > -MaxLag => rows[s].leaseLeft > -MaxLag
    BY <2>1, RowTypes, JobRowsAssumption
  <2> HIDE DEF wait
  <2>4. row \in Row /\ row.status = rows[s].status /\ row.attempts = rows[s].attempts
        /\ row.owner = rows[s].owner /\ row.leaseLeft = left /\ row.version = rows[s].version
    BY <2>1, <2>3, Zenon DEF Row
  <2> HIDE DEF row, left
  <2>5. GoodRow(row)
    BY <2>1, <2>3, <2>4 DEF GoodRow
  <2> QED
    BY <2>2, <2>4, <2>5 DEF left
<1> HIDE DEF Older
<1>3. RowsInv'
  BY <1>1, <1>2 DEF RowsInv
<1>4. ASSUME NEW s \in late
      PROVE  /\ rows[s].status = "running" /\ (rows[s].leaseLeft > 0) = TRUE
             /\ JobOf(rows'[s]) = [JobOf(rows[s]) EXCEPT !.live = FALSE]
  <2>1. GoodRow(rows[s]) /\ rows[s].leaseLeft = 1
    BY <1>0 DEF RowsInv
  <2>2. rows[s].status = "running" /\ (rows[s].leaseLeft > 0) = TRUE
    BY <2>1, JobRowsAssumption DEF GoodRow
  <2>3. rows'[s].leaseLeft = 0
    BY <1>1, <1>2, <2>1, JobRowsAssumption
  <2>4. (rows'[s].leaseLeft > 0) = FALSE
    BY <2>3
  <2>5. JobOf(rows'[s]) \in
          Only(rows[s].status, rows[s].attempts, rows[s].owner, FALSE, rows[s].version)
    <3>1. rows'[s] = Older(rows[s])
      BY <1>1
    <3> QED
      BY <1>2, <2>4, <3>1, Zenon DEF JobOf, Only
  <2>6. [JobOf(rows[s]) EXCEPT !.live = FALSE] \in
          Only(rows[s].status, rows[s].attempts, rows[s].owner, FALSE, rows[s].version)
    BY Zenon DEF JobOf, Only
  <2>7. JobOf(rows'[s]) = [JobOf(rows[s]) EXCEPT !.live = FALSE]
    BY <2>5, <2>6, SameJob, Zenon
  <2> QED
    BY <2>2, <2>7, Zenon
<1>5. ASSUME NEW s \in Sessions \ late
      PROVE  JobOf(rows'[s]) = JobOf(rows[s])
  <2>1. rows[s].leaseLeft \in (-MaxLag)..Lease /\ rows[s].leaseLeft # 1
    BY <1>0, RowTypes DEF RowsInv
  <2>2. rows'[s] = Older(rows[s])
    BY <1>1
  <2>3. rows'[s].leaseLeft > 0 <=> rows[s].leaseLeft > 0
    BY <1>2, <2>1, <2>2, JobRowsAssumption
  <2>4. CASE rows[s].leaseLeft > 0
    <3>1. (rows[s].leaseLeft > 0) = TRUE /\ (rows'[s].leaseLeft > 0) = TRUE
      BY <2>3, <2>4
    <3> QED
      BY <1>2, <2>2, <3>1, Zenon DEF JobOf
  <2>5. CASE ~(rows[s].leaseLeft > 0)
    <3>1. (rows[s].leaseLeft > 0) = FALSE /\ (rows'[s].leaseLeft > 0) = FALSE
      BY <2>3, <2>5
    <3> QED
      BY <1>2, <2>2, <3>1, Zenon DEF JobOf
  <2> QED
    BY <2>4, <2>5
<1>6. Jobs' = [s \in Sessions |-> IF s \in late THEN [Jobs[s] EXCEPT !.live = FALSE] ELSE Jobs[s]]
  <2>1. Jobs' = [s \in Sessions |-> JobOf(rows'[s])]
    BY DEF Jobs, JobOf
  <2>2. \A s \in Sessions : Jobs[s] = JobOf(rows[s])
    BY DEF Jobs
  <2> QED
    BY <1>4, <1>5, <2>1, <2>2, Zenon
<1>7. CASE late = {}
  <2>1. Jobs' = [s \in Sessions |-> Jobs[s]]
    BY <1>6, <1>7
  <2>2. Jobs = [s \in Sessions |-> Jobs[s]]
    BY DEF Jobs
  <2> QED
    BY <1>3, <2>1, <2>2, Zenon
<1>8. CASE late # {}
  <2>1. \A s \in late : Jobs[s].status = "running" /\ Jobs[s].live
    BY <1>4, Zenon DEF Jobs, JobOf
  <2>3. Contract!Expire(late)
    BY <1>6, <1>8, <2>1, Zenon DEF Contract!Expire, Jobs, JobOf
  <2>4. \E some \in SUBSET Sessions : Contract!FailExhausted(some) \/ Contract!Expire(some)
    BY <2>3, Zenon
  <2>5. Contract!JobsNext
    BY <2>4, Zenon DEF Contract!JobsNext
  <2> QED
    BY <1>3, <2>5
<1> QED
  BY <1>3, <1>7, <1>8

-----------------------------------------------------------------------------
(* Claims.                                                                    *)

\* The rows that a claim leaves: one granted (or none), some marked failed.
Claimed(row, s, w, lag, dropped) ==
    row = [t \in Sessions |->
             IF t = s THEN Grant(rows[t], w, lag)
             ELSE IF t \in dropped THEN Release(rows[t], "failed") ELSE rows[t]]

\* A row whose attempts are used up and that is due counts as exhausted in the
\* contract as well.
LEMMA DueIsExhausted ==
  ASSUME RowsInv, NEW t \in Sessions, NEW lag \in Lags, ClaimableAt(t, lag)
  PROVE  /\ Contract!Claimable(t)
         /\ Contract!Exhausted(t) <=> rows[t].attempts >= MaxAttempts
<1>1. Jobs[t] = JobOf(rows[t])
  BY DEF Jobs
<1>2. rows[t].leaseLeft \in (-MaxLag)..Lease
  BY RowTypes DEF RowsInv
<1>3. rows[t].status = "queued" \/ (rows[t].status = "running" /\ ~(rows[t].leaseLeft > 0))
  BY <1>2, JobRowsAssumption DEF ClaimableAt, Lags
<1>4. Contract!Claimable(t)
  BY <1>3 DEF Contract!Claimable
<1> QED
  BY <1>4 DEF Contract!Exhausted

\* A claim that grants s and marks exhausted rows failed.
LEMMA GrantStep ==
  ASSUME RowsInv, NEW s \in Sessions, NEW w \in Workers, NEW lag \in Lags,
         NEW dropped \in SUBSET Sessions,
         Contract!Claimable(s), rows[s].attempts < MaxAttempts,
         \A t \in dropped : Contract!Exhausted(t),
         Claimed(rows', s, w, lag, dropped)
  PROVE  RowsInv' /\ Contract!Claim(w, s, dropped)
<1>1. \A t \in Sessions : GoodRow(rows[t]) /\ rows[t] \in Row
  BY DEF RowsInv
<1>2. \A t \in Sessions :
        rows'[t] = IF t = s THEN Grant(rows[t], w, lag)
                   ELSE IF t \in dropped THEN Release(rows[t], "failed") ELSE rows[t]
  BY DEF Claimed
<1>3. GoodRow(Grant(rows[s], w, lag))
  BY <1>1, GrantedGood
<1>4. \A t \in Sessions : GoodRow(Release(rows[t], "failed"))
  BY <1>1, ReleasedGood
<1>5. \A t \in Sessions : GoodRow(rows'[t])
  BY <1>1, <1>2, <1>3, <1>4
<1>6. RowsInv'
  BY <1>2, <1>5 DEF Claimed, RowsInv, GoodRow
<1>7. ~Contract!Exhausted(s)
  BY <1>1, RowTypes, JobRowsAssumption DEF Contract!Exhausted
<1>8. Jobs' = [t \in Sessions |->
         IF t = s THEN [Jobs[s] EXCEPT !.status = "running", !.owner = w, !.live = TRUE,
                                       !.attempts = @ + 1]
         ELSE IF t \in dropped THEN Contract!Released(Jobs[t], "failed") ELSE Jobs[t]]
  <2>1. Jobs' = [t \in Sessions |-> JobOf(rows'[t])]
    BY DEF Jobs, JobOf
  <2>2. \A t \in Sessions : Jobs[t] = JobOf(rows[t])
    BY DEF Jobs
  <2>3. \A t \in Sessions : JobOf(Release(rows[t], "failed")) = Contract!Released(Jobs[t], "failed")
    BY <1>1, <2>2, JobReleased
  <2>4. JobOf(Grant(rows[s], w, lag)) =
          [Jobs[s] EXCEPT !.status = "running", !.owner = w, !.live = TRUE, !.attempts = @ + 1]
    <3> DEFINE one == Grant(rows[s], w, lag)
               two == [JobOf(rows[s]) EXCEPT !.status = "running", !.owner = w, !.live = TRUE,
                                             !.attempts = @ + 1]
    <3>1. (one.leaseLeft > 0) = TRUE
      BY <1>1, GrantedRow, JobRowsAssumption DEF Lags
    <3>0. /\ one.status = "running" /\ one.attempts = rows[s].attempts + 1 /\ one.owner = w
          /\ one.version = rows[s].version
      BY <1>1, GrantedRow
    <3>2. JobOf(one) \in Only("running", rows[s].attempts + 1, w, TRUE, rows[s].version)
      BY <3>0, <3>1, Zenon DEF JobOf, Only
    <3>3. two \in Only("running", rows[s].attempts + 1, w, TRUE, rows[s].version)
      BY Zenon DEF JobOf, Only
    <3> HIDE DEF one, two
    <3>4. JobOf(one) = two
      BY <3>2, <3>3, SameJob, Zenon
    <3> QED
      BY <2>2, <3>4, Zenon DEF one, two
  <2> QED
    BY <1>2, <2>1, <2>2, <2>3, <2>4, Zenon
<1> QED
  BY <1>6, <1>7, <1>8, Zenon DEF Contract!Claim, Jobs, JobOf

\* A claim that grants nothing and marks exhausted rows failed.
LEMMA FailStep ==
  ASSUME RowsInv, NEW dropped \in SUBSET Sessions,
         \A t \in dropped : Contract!Exhausted(t),
         rows' = [t \in Sessions |->
                    IF t \in dropped THEN Release(rows[t], "failed") ELSE rows[t]]
  PROVE  RowsInv' /\ (Contract!JobsNext \/ Jobs' = Jobs)
<1>1. \A t \in Sessions : GoodRow(rows[t]) /\ rows[t] \in Row
  BY DEF RowsInv
<1>2. \A t \in Sessions :
        rows'[t] = IF t \in dropped THEN Release(rows[t], "failed") ELSE rows[t]
  OBVIOUS
<1>3. \A t \in Sessions : GoodRow(Release(rows[t], "failed"))
  BY <1>1, ReleasedGood
<1>4. \A t \in Sessions : GoodRow(rows'[t])
  BY <1>1, <1>2, <1>3
<1>5. RowsInv'
  BY <1>4 DEF RowsInv, GoodRow
<1>6. Jobs' = [t \in Sessions |->
         IF t \in dropped THEN Contract!Released(Jobs[t], "failed") ELSE Jobs[t]]
  <2>1. Jobs' = [t \in Sessions |-> JobOf(rows'[t])]
    BY DEF Jobs, JobOf
  <2>2. \A t \in Sessions : Jobs[t] = JobOf(rows[t])
    BY DEF Jobs
  <2>3. \A t \in Sessions : JobOf(Release(rows[t], "failed")) = Contract!Released(Jobs[t], "failed")
    BY <1>1, <2>2, JobReleased
  <2> QED
    BY <1>2, <2>1, <2>2, <2>3, Zenon
<1>7. CASE dropped = {}
  <2>1. Jobs' = [t \in Sessions |-> Jobs[t]]
    BY <1>6, <1>7
  <2>2. Jobs = [t \in Sessions |-> Jobs[t]]
    BY DEF Jobs
  <2> QED
    BY <1>5, <2>1, <2>2, Zenon
<1>8. CASE dropped # {}
  <2>1. Contract!FailExhausted(dropped)
    BY <1>6, <1>8, Zenon DEF Contract!FailExhausted, Jobs, JobOf
  <2>2. \E some \in SUBSET Sessions : Contract!FailExhausted(some) \/ Contract!Expire(some)
    BY <2>1, Zenon
  <2>3. Contract!JobsNext
    BY <2>2, Zenon DEF Contract!JobsNext
  <2> QED
    BY <1>5, <2>3
<1> QED
  BY <1>7, <1>8

-----------------------------------------------------------------------------
(* The memory store.                                                          *)

\* A claim of the memory store in one of its two forms.
LEMMA MemoryClaimForms ==
  ASSUME RowsInv, NEW w \in Workers, NEW lag \in Lags, MemoryClaim(w, lag)
  PROVE  \/ \E s \in Sessions, dropped \in SUBSET Sessions :
              /\ ClaimableAt(s, lag) /\ rows[s].attempts < MaxAttempts
              /\ \A t \in Sessions : ClaimableAt(t, lag) /\ ~Exhausted(t) => rows[s].rank <= rows[t].rank
              /\ \A t \in dropped : ClaimableAt(t, lag) /\ Exhausted(t)
              /\ Claimed(rows', s, w, lag, dropped)
         \/ \E dropped \in SUBSET Sessions :
              /\ \A t \in dropped : ClaimableAt(t, lag) /\ Exhausted(t)
              /\ rows' = [t \in Sessions |->
                            IF t \in dropped THEN Release(rows[t], "failed") ELSE rows[t]]
<1> DEFINE candidates == {s \in Sessions : ClaimableAt(s, lag)}
           exhausted  == {s \in candidates : Exhausted(s)}
           Fail(some) == [s \in Sessions |->
                            IF s \in some THEN Release(rows[s], "failed") ELSE rows[s]]
<1>1. CASE \E s \in candidates \ exhausted :
             /\ OldestOf(s, candidates \ exhausted)
             /\ rows' = [Fail({t \in exhausted : rows[t].rank < rows[s].rank})
                           EXCEPT ![s] = Grant(@, w, lag)]
  <2>1. PICK s \in candidates \ exhausted :
             /\ OldestOf(s, candidates \ exhausted)
             /\ rows' = [Fail({t \in exhausted : rows[t].rank < rows[s].rank})
                           EXCEPT ![s] = Grant(@, w, lag)]
    BY <1>1
  <2> DEFINE older == {t \in exhausted : rows[t].rank < rows[s].rank}
  <2>2. s \in Sessions /\ ClaimableAt(s, lag) /\ ~Exhausted(s) /\ s \notin older
    BY <2>1
  <2>3. rows[s].attempts < MaxAttempts
    BY <2>2, RowTypes, JobRowsAssumption DEF Exhausted, RowsInv
  <2>4. \A t \in Sessions : ClaimableAt(t, lag) /\ ~Exhausted(t) => rows[s].rank <= rows[t].rank
    BY <2>1 DEF OldestOf
  <2>5. \A t \in older : ClaimableAt(t, lag) /\ Exhausted(t)
    OBVIOUS
  <2>6. older \in SUBSET Sessions
    OBVIOUS
  <2>7. rows' = [Fail(older) EXCEPT ![s] = Grant(@, w, lag)]
    BY <2>1
  <2> HIDE DEF older
  <2>8. Fail(older)[s] = rows[s]
    BY <2>2
  <2>9. rows' = [t \in Sessions |-> IF t = s THEN Grant(rows[s], w, lag) ELSE Fail(older)[t]]
    BY <2>2, <2>7, <2>8
  <2>10. Claimed(rows', s, w, lag, older)
    BY <2>9, Zenon DEF Claimed
  <2> QED
    BY <2>2, <2>3, <2>4, <2>5, <2>6, <2>10
<1>2. CASE rows' = Fail(exhausted)
  <2>1. exhausted \in SUBSET Sessions /\ \A t \in exhausted : ClaimableAt(t, lag) /\ Exhausted(t)
    OBVIOUS
  <2> QED
    BY <1>2, <2>1
<1> QED
  BY <1>1, <1>2 DEF MemoryClaim

LEMMA MemoryStep ==
  ASSUME RowsInv, [MemoryNext]_rows
  PROVE  RowsInv' /\ [Contract!JobsNext]_Jobs
<1>1. ASSUME NEW s \in Sessions, RowCall(s) PROVE RowsInv' /\ [Contract!JobsNext]_Jobs
  BY <1>1, RowCallStep
<1>2. ASSUME NEW w \in Workers, NEW lag \in Lags, MemoryClaim(w, lag)
      PROVE  RowsInv' /\ [Contract!JobsNext]_Jobs
  <2>1. ASSUME NEW s \in Sessions, NEW dropped \in SUBSET Sessions,
               ClaimableAt(s, lag), rows[s].attempts < MaxAttempts,
               \A t \in dropped : ClaimableAt(t, lag) /\ Exhausted(t),
               Claimed(rows', s, w, lag, dropped)
        PROVE  RowsInv' /\ Contract!JobsNext
    <3>1. \A t \in dropped : Contract!Exhausted(t)
      BY <2>1, DueIsExhausted DEF Exhausted
    <3>2. Contract!Claimable(s)
      BY <2>1, DueIsExhausted
    <3>3. RowsInv' /\ Contract!Claim(w, s, dropped)
      BY <2>1, <3>1, <3>2, GrantStep
    <3> QED
      BY <3>3, Zenon DEF Contract!JobsNext
  <2>2. ASSUME NEW dropped \in SUBSET Sessions,
               \A t \in dropped : ClaimableAt(t, lag) /\ Exhausted(t),
               rows' = [t \in Sessions |->
                          IF t \in dropped THEN Release(rows[t], "failed") ELSE rows[t]]
        PROVE  RowsInv' /\ (Contract!JobsNext \/ Jobs' = Jobs)
    <3>1. \A t \in dropped : Contract!Exhausted(t)
      BY <2>2, DueIsExhausted DEF Exhausted
    <3> QED
      BY <2>2, <3>1, FailStep
  <2> QED
    BY <1>2, <2>1, <2>2, MemoryClaimForms, Zenon
<1>3. CASE Tick
  BY <1>3, TickStep
<1>4. CASE UNCHANGED rows
  BY <1>4 DEF RowsInv, GoodRow, Jobs, JobOf
<1> QED
  BY <1>1, <1>2, <1>3, <1>4 DEF MemoryNext

\* The rows of the memory store keep their types: attempts never pass the maximum
\* and a lease never lies behind by more than the clocks may.
THEOREM MemoryTyped == MemorySpec => []TypeOK
<1>1. RowsInv /\ [MemoryNext]_rows => RowsInv'
  BY MemoryStep
<1> QED
  BY InitGood, <1>1, RowsInvTells, PTL DEF MemorySpec

\* The columns of a row agree with each other, whatever the memory store is
\* asked to do: a lease and its owner exist exactly while the job runs.
THEOREM MemoryRowsAgree == MemorySpec => []LeaseBelongsToRunningJob
<1>1. RowsInv /\ [MemoryNext]_rows => RowsInv'
  BY MemoryStep
<1> QED
  BY InitGood, <1>1, RowsInvTells, PTL DEF MemorySpec

\* An empty table stands for the empty queue.
LEMMA InitIsContractInit == RowsInit => Contract!JobsInit
<1> SUFFICES ASSUME RowsInit PROVE Contract!JobsInit
  OBVIOUS
<1>1. (NoRow.leaseLeft > 0) = FALSE
  BY JobRowsAssumption DEF NoRow
<1>2. JobOf(NoRow) = Contract!Absent
  BY <1>1, Zenon DEF JobOf, NoRow, Contract!Absent
<1>3. Jobs = [s \in Sessions |-> JobOf(NoRow)]
  BY DEF RowsInit, Jobs
<1> QED
  BY <1>2, <1>3, Zenon DEF Contract!JobsInit, Jobs, JobOf

\* The memory store implements the contract that the pipeline is modelled and
\* proved on.
THEOREM MemoryImplementsContract == MemorySpec => ImplementsContract
<1>1. RowsInv /\ [MemoryNext]_rows => RowsInv' /\ [Contract!JobsNext]_Jobs
  BY MemoryStep
<1>2. [Contract!JobsNext]_Jobs <=> [Contract!JobsNext]_([s \in Sessions |->
               [status |-> rows[s].status, attempts |-> rows[s].attempts,
                owner |-> rows[s].owner, live |-> rows[s].leaseLeft > 0,
                version |-> rows[s].version]])
  BY Zenon DEF Jobs, JobOf
<1> QED
  BY InitGood, InitIsContractInit, <1>1, <1>2, PTL
  DEF MemorySpec, ImplementsContract, Contract!JobsSpec

\* What OldestFirst says of one step.
Overtakes(s, t) ==
    /\ rows'[s].attempts > rows[s].attempts
    /\ rows[t].rank < rows[s].rank
    /\ rows[t].status \in {"queued", "running"}
    /\ rows[t].attempts < MaxAttempts

Excused(t) == \/ rows[t].status = "queued"  /\ rows[t].wait > -MaxLag
              \/ rows[t].status = "running" /\ rows[t].leaseLeft > -MaxLag

\* Only a claim counts an attempt.
LEMMA RowCallsDoNotCount ==
  ASSUME RowsInv, NEW s \in Sessions, RowCall(s), NEW t \in Sessions
  PROVE  ~(rows'[t].attempts > rows[t].attempts)
<1>0. GoodRow(rows[t]) /\ rows[t] \in Row /\ rows[s] \in Row /\ rows[t].attempts \in Nat
  BY RowTypes, JobRowsAssumption DEF RowsInv
<1> DEFINE Uncounted == rows'[t].attempts \in {0, rows[t].attempts}
<1>1. ASSUME NEW lag \in Lags, Enqueue(s, lag) PROVE Uncounted
  <2>1. PICK r \in Ranks :
          rows' = [rows EXCEPT ![s] = [NoRow EXCEPT !.status = "queued", !.rank = r, !.wait = -lag]]
    BY <1>1 DEF Enqueue
  <2>2. [NoRow EXCEPT !.status = "queued", !.rank = r, !.wait = -lag].attempts = 0
    BY Zenon DEF NoRow
  <2>3. CASE t = s
    BY <2>1, <2>2, <2>3, Zenon DEF RowsInv
  <2>4. CASE t # s
    BY <2>1, <2>4, Zenon DEF RowsInv
  <2> QED
    BY <2>3, <2>4
<1>2. ASSUME NEW status \in {"queued", "completed", "failed", "cancelled"},
             rows' = [rows EXCEPT ![s] = Release(@, status)]
      PROVE  rows'[t].attempts = rows[t].attempts
  <2>1. rows'[t] = IF t = s THEN Release(rows[s], status) ELSE rows[t]
    BY <1>2 DEF RowsInv
  <2> QED
    BY <1>0, <2>1, ReleasedRow
<1>3. ASSUME NEW w \in Workers, NEW lag \in Lags, ExtendLease(w, s, lag)
      PROVE  Uncounted
  BY <1>0, <1>3 DEF ExtendLease, RowsInv, Row
<1>4. ASSUME NEW w \in Workers, NEW lag \in Lags, Retry(w, s, lag)
      PROVE  Uncounted
  <2> DEFINE free == Release(rows[s], "queued")
             wait == RetryDelay(rows[s].attempts) - lag
  <2>1. rows' = [rows EXCEPT ![s] = [free EXCEPT !.wait = wait]]
    BY <1>4 DEF Retry
  <2>2. free \in Row /\ free.attempts = rows[s].attempts
    BY <1>0, ReleasedRow
  <2> HIDE DEF free, wait
  <2> QED
    BY <2>1, <2>2 DEF RowsInv, Row
<1>5. ASSUME NEW w \in Workers, NEW v \in VersionIds, NEW lag, ReservePublication(w, s, v, lag)
      PROVE  Uncounted
  BY <1>0, <1>5 DEF ReservePublication, RowsInv, Row
<1>6. ASSUME CancelBySession(s) PROVE Uncounted
  BY <1>0, <1>2, <1>6 DEF CancelBySession
<1>7. ASSUME NEW w \in Workers, NEW lag \in Lags, NEW status \in {"completed", "failed"},
             Finish(w, s, status, lag)
      PROVE  Uncounted
  BY <1>0, <1>2, <1>7 DEF Finish
<1> HIDE DEF Uncounted
<1>8. Uncounted
  BY <1>1, <1>3, <1>4, <1>5, <1>6, <1>7 DEF RowCall
<1> QED
  BY <1>0, <1>8 DEF Uncounted

\* No job with an attempt left is overtaken by a younger one.
THEOREM MemoryServesOldestFirst == MemorySpec => OldestFirst
<1>1. ASSUME RowsInv, [MemoryNext]_rows, NEW s \in Sessions, NEW t \in Sessions, Overtakes(s, t)
      PROVE  Excused(t)
  <2>0. /\ rows[s] \in Row /\ rows[s].attempts \in Nat /\ rows[t].attempts \in Nat
        /\ rows[t].wait \in (-MaxLag)..2 /\ rows[t].leaseLeft \in (-MaxLag)..Lease
        /\ rows[t].rank \in Nat /\ rows[s].rank \in Nat
    BY <1>1, RowTypes, JobRowsAssumption DEF RowsInv, Ranks
  <2>1. ASSUME NEW u \in Sessions, RowCall(u) PROVE FALSE
    BY <1>1, <2>1, RowCallsDoNotCount DEF Overtakes
  <2>2. ASSUME NEW w \in Workers, NEW lag \in Lags, MemoryClaim(w, lag)
        PROVE  Excused(t)
    <3>1. ASSUME NEW g \in Sessions, NEW dropped \in SUBSET Sessions,
                 \A r \in Sessions : ClaimableAt(r, lag) /\ ~Exhausted(r) => rows[g].rank <= rows[r].rank,
                 Claimed(rows', g, w, lag, dropped)
          PROVE  Excused(t)
      <4>1. rows'[s] = IF s = g THEN Grant(rows[s], w, lag)
                       ELSE IF s \in dropped THEN Release(rows[s], "failed") ELSE rows[s]
        BY <3>1 DEF Claimed
      <4>2. Release(rows[s], "failed").attempts = rows[s].attempts
        BY <2>0, ReleasedRow
      <4>3. s = g
        BY <1>1, <2>0, <4>1, <4>2 DEF Overtakes
      <4>4. ~ClaimableAt(t, lag)
        BY <1>1, <2>0, <3>1, <4>3, JobRowsAssumption DEF Overtakes, Exhausted
      <4> QED
        BY <1>1, <2>0, <4>4, JobRowsAssumption DEF Overtakes, Excused, ClaimableAt, Lags
    <3>2. ASSUME NEW dropped \in SUBSET Sessions,
                 rows' = [r \in Sessions |->
                            IF r \in dropped THEN Release(rows[r], "failed") ELSE rows[r]]
          PROVE  FALSE
      <4>1. Release(rows[s], "failed").attempts = rows[s].attempts
        BY <2>0, ReleasedRow
      <4>2. rows'[s] = IF s \in dropped THEN Release(rows[s], "failed") ELSE rows[s]
        BY <3>2
      <4>3. rows'[s].attempts = rows[s].attempts
        BY <4>1, <4>2
      <4> QED
        BY <1>1, <2>0, <4>3 DEF Overtakes
    <3> QED
      BY <1>1, <2>2, <3>1, <3>2, MemoryClaimForms, Zenon
  <2>3. CASE Tick
    <3>1. rows'[s].attempts = rows[s].attempts
      BY <2>0, <2>3, Zenon DEF Tick, Row
    <3> QED
      BY <1>1, <2>0, <3>1 DEF Overtakes
  <2>4. CASE UNCHANGED rows
    BY <1>1, <2>0, <2>4 DEF Overtakes
  <2> QED
    BY <1>1, <2>1, <2>2, <2>3, <2>4 DEF MemoryNext
<1>2. RowsInv /\ [MemoryNext]_rows =>
        [\A s, t \in Sessions : Overtakes(s, t) => Excused(t)]_rows
  BY <1>1
<1>3. RowsInv /\ [MemoryNext]_rows => RowsInv'
  BY MemoryStep
<1> QED
  BY InitGood, <1>2, <1>3, PTL DEF MemorySpec, OldestFirst, Overtakes, Excused

-----------------------------------------------------------------------------
(* The database store.                                                        *)

PgInv == RowsInv /\ PgTypeOK /\ ClaimsAreDisjoint

LEMMA PgInitGood == PgInit => PgInv
<1>1. RowsInit => RowsInv /\ TypeOK
  BY InitGood, RowsInvTells
<1>2. 0 \in Lags
  BY JobRowsAssumption DEF Lags
<1> QED
  BY <1>1, <1>2 DEF PgInit, PgInv, PgTypeOK, ClaimsAreDisjoint, Closed, LockedBy

\* A step that leaves the rows alone does nothing in the contract.
LEMMA RowsUntouched ==
  ASSUME RowsInv, UNCHANGED rows
  PROVE  RowsInv' /\ Jobs' = Jobs
  BY DEF RowsInv, GoodRow, Jobs, JobOf

LEMMA BeginClaimStep ==
  ASSUME PgInv, NEW w \in Workers, NEW lag \in Lags, BeginClaim(w, lag)
  PROVE  PgInv' /\ Jobs' = Jobs
<1>1. RowsInv' /\ Jobs' = Jobs
  BY RowsUntouched DEF PgInv, BeginClaim
<1>2. PgTypeOK'
  BY <1>1, RowsInvTells DEF PgInv, PgTypeOK, BeginClaim, TypeOK
<1>3. ClaimsAreDisjoint'
  BY DEF PgInv, PgTypeOK, BeginClaim, ClaimsAreDisjoint, LockedBy
<1> QED
  BY <1>1, <1>2, <1>3 DEF PgInv

\* A transaction that ends without a grant leaves the rows as they were.
LEMMA RollbackStep ==
  ASSUME PgInv, NEW w \in Workers, tx' = [tx EXCEPT ![w] = Closed], UNCHANGED rows
  PROVE  PgInv' /\ Jobs' = Jobs
<1>1. RowsInv' /\ Jobs' = Jobs
  BY RowsUntouched DEF PgInv
<1>2. 0 \in Lags
  BY JobRowsAssumption DEF Lags
<1>3. PgTypeOK'
  BY <1>2 DEF PgInv, PgTypeOK, TypeOK, Closed
<1>4. ClaimsAreDisjoint'
  BY DEF PgInv, PgTypeOK, ClaimsAreDisjoint, LockedBy, Closed
<1> QED
  BY <1>1, <1>3, <1>4 DEF PgInv

\* A row that a claim has marked failed is exhausted in the contract.
LEMMA MarkedIsExhausted ==
  ASSUME PgInv, NEW w \in Workers, NEW t \in LockedBy(w)
  PROVE  t \in Sessions /\ Contract!Exhausted(t)
<1>1. t \in Sessions
  BY DEF PgInv, PgTypeOK, LockedBy
<1>2. /\ rows[t].attempts = MaxAttempts
      /\ rows[t].status = "queued" \/ (rows[t].status = "running" /\ rows[t].leaseLeft <= 0)
  BY DEF PgInv, ClaimsAreDisjoint
<1>4. rows[t].leaseLeft \in (-MaxLag)..Lease
  BY <1>1, RowTypes DEF PgInv, RowsInv
<1>5. rows[t].status = "queued" \/ (rows[t].status = "running" /\ ~(rows[t].leaseLeft > 0))
  BY <1>2, <1>4, JobRowsAssumption
<1>6. Contract!Claimable(t)
  BY <1>1, <1>5 DEF Contract!Claimable
<1> QED
  BY <1>1, <1>2, <1>6, JobRowsAssumption DEF Contract!Exhausted

LEMMA ClaimStatementStep ==
  ASSUME PgInv, NEW w \in Workers, ClaimStatement(w)
  PROVE  PgInv' /\ [Contract!JobsNext]_Jobs
<1> DEFINE candidates == {s \in Sessions : ClaimableAt(s, tx[w].lag) /\ ~Locked(s)}
<1>0. tx[w].lag \in Lags /\ tx[w].failed \in SUBSET Sessions
  BY DEF PgInv, PgTypeOK
<1>1. ASSUME NEW s \in candidates, Exhausted(s),
             tx' = [tx EXCEPT ![w].failed = @ \cup {s}], UNCHANGED rows
      PROVE  PgInv' /\ [Contract!JobsNext]_Jobs
  <2>1. RowsInv' /\ Jobs' = Jobs
    BY <1>1, RowsUntouched DEF PgInv
  <2>2. PgTypeOK'
    BY <1>0, <1>1 DEF PgInv, PgTypeOK, TypeOK
  <2>3. /\ rows[s].attempts = MaxAttempts
        /\ rows[s].status = "queued" \/ (rows[s].status = "running" /\ rows[s].leaseLeft <= 0)
    <3>1. rows[s].attempts \in 0..MaxAttempts /\ rows[s].leaseLeft \in (-MaxLag)..Lease
      BY RowTypes DEF PgInv, RowsInv
    <3> QED
      BY <1>0, <1>1, <3>1, JobRowsAssumption DEF Exhausted, ClaimableAt, Lags
  <2>4. \A v \in Workers : LockedBy(v)' = IF v = w THEN LockedBy(v) \cup {s} ELSE LockedBy(v)
    BY <1>1 DEF PgInv, PgTypeOK, LockedBy
  <2>5. \A v \in Workers : s \notin LockedBy(v)
    BY DEF Locked
  <2>6. ClaimsAreDisjoint'
    BY <1>1, <2>3, <2>4, <2>5 DEF PgInv, ClaimsAreDisjoint
  <2> QED
    BY <2>1, <2>2, <2>6 DEF PgInv
<1>2. ASSUME NEW s \in candidates, ~Exhausted(s),
             rows' = [t \in Sessions |->
                        IF t = s THEN Grant(rows[s], w, tx[w].lag)
                        ELSE IF t \in LockedBy(w) THEN Release(rows[t], "failed") ELSE rows[t]],
             tx' = [tx EXCEPT ![w] = Closed]
      PROVE  PgInv' /\ [Contract!JobsNext]_Jobs
  <2>1. LockedBy(w) \in SUBSET Sessions /\ \A t \in LockedBy(w) : Contract!Exhausted(t)
    BY <1>0, MarkedIsExhausted DEF LockedBy
  <2>2. Contract!Claimable(s)
    BY <1>0, DueIsExhausted DEF PgInv
  <2>3. rows[s].attempts < MaxAttempts
    BY <1>2, RowTypes, JobRowsAssumption DEF PgInv, RowsInv, Exhausted
  <2>4. Claimed(rows', s, w, tx[w].lag, LockedBy(w))
    BY <1>2, Zenon DEF Claimed
  <2>5. PICK dropped \in SUBSET Sessions, lag \in Lags : dropped = LockedBy(w) /\ lag = tx[w].lag
    BY <1>0, <2>1
  <2>6. RowsInv' /\ Contract!Claim(w, s, dropped)
    BY <2>1, <2>2, <2>3, <2>4, <2>5, GrantStep DEF PgInv
  <2>7. Contract!JobsNext
    BY <2>6, Zenon DEF Contract!JobsNext
  <2>8. 0 \in Lags
    BY JobRowsAssumption DEF Lags
  <2>9. PgTypeOK'
    BY <1>2, <2>6, <2>8, RowsInvTells DEF PgInv, PgTypeOK, Closed, RowsInv, TypeOK
  <2>10. \A v \in Workers : LockedBy(v)' = IF v = w THEN {} ELSE LockedBy(v)
    BY <1>2 DEF PgInv, PgTypeOK, LockedBy, Closed
  <2>11. \A v \in Workers \ {w} : \A t \in LockedBy(v) : t \in Sessions /\ rows'[t] = rows[t]
    <3>1. \A v \in Workers : s \notin LockedBy(v) /\ LockedBy(v) \subseteq Sessions
      BY DEF Locked, PgInv, PgTypeOK, LockedBy
    <3>2. \A v \in Workers \ {w} : LockedBy(v) \cap LockedBy(w) = {}
      BY DEF PgInv, ClaimsAreDisjoint
    <3> QED
      BY <1>2, <3>1, <3>2
  <2>12. ClaimsAreDisjoint'
    BY <2>10, <2>11 DEF PgInv, ClaimsAreDisjoint
  <2> QED
    BY <2>6, <2>7, <2>9, <2>12 DEF PgInv
<1>3. CASE tx' = [tx EXCEPT ![w] = Closed] /\ UNCHANGED rows
  BY <1>3, RollbackStep
<1> QED
  BY <1>1, <1>2, <1>3 DEF ClaimStatement

LEMMA UnlockedCallStep ==
  ASSUME PgInv, NEW s \in Sessions, UnlockedCall(s)
  PROVE  PgInv' /\ Contract!JobsNext
<1>1. RowsInv' /\ Contract!JobsNext
  BY RowCallStep DEF PgInv, UnlockedCall
<1>2. PgTypeOK'
  BY <1>1, RowsInvTells DEF PgInv, PgTypeOK, UnlockedCall, RowsInv, TypeOK
<1>3. ASSUME NEW t \in Sessions, t # s PROVE rows'[t] = rows[t]
  <2> DEFINE Kept == rows'[t] = rows[t]
  <2>1. ASSUME NEW row, rows' = [rows EXCEPT ![s] = row] PROVE Kept
    BY <1>3, <2>1 DEF PgInv, RowsInv
  <2>2. \E row : rows' = [rows EXCEPT ![s] = row]
    BY Zenon DEF UnlockedCall, RowCall, Enqueue, CancelBySession, ExtendLease, Retry, Finish,
                 ReservePublication
  <2> QED
    BY <2>1, <2>2
<1>4. \A v \in Workers : LockedBy(v)' = LockedBy(v) /\ s \notin LockedBy(v)
                        /\ LockedBy(v) \subseteq Sessions
  BY DEF UnlockedCall, Locked, LockedBy, PgInv, PgTypeOK
<1>5. ClaimsAreDisjoint'
  BY <1>3, <1>4 DEF PgInv, ClaimsAreDisjoint
<1> QED
  BY <1>1, <1>2, <1>5 DEF PgInv

LEMMA PgTickStep ==
  ASSUME PgInv, PgTick
  PROVE  PgInv' /\ [Contract!JobsNext]_Jobs
<1>1. RowsInv' /\ [Contract!JobsNext]_Jobs
  BY TickStep DEF PgInv, PgTick
<1>2. \A w \in Workers : tx'[w] = IF tx[w].open THEN [tx[w] EXCEPT !.lag = @ + 1] ELSE tx[w]
  BY DEF PgTick
<1>3. \A w \in Workers : tx'[w] \in [open : BOOLEAN, lag : Lags, failed : SUBSET Sessions]
                        /\ tx'[w].failed = tx[w].failed
  BY <1>2, JobRowsAssumption DEF PgInv, PgTypeOK, PgTick, Lags
<1>4. PgTypeOK'
  BY <1>1, <1>3, RowsInvTells DEF PgTypeOK, PgTick, RowsInv, TypeOK
<1>5. ASSUME NEW t \in Sessions
      PROVE  /\ rows'[t].status = rows[t].status /\ rows'[t].attempts = rows[t].attempts
             /\ rows[t].leaseLeft <= 0 => rows'[t].leaseLeft <= 0
  <2>1. rows[t] \in Row /\ rows[t].leaseLeft \in (-MaxLag)..Lease
    BY RowTypes DEF PgInv, RowsInv, GoodRow
  <2>2. rows'[t].status = rows[t].status /\ rows'[t].attempts = rows[t].attempts
    BY <2>1, Zenon DEF PgTick, Tick, Row
  <2>3. rows'[t].leaseLeft = IF rows[t].leaseLeft > -MaxLag THEN rows[t].leaseLeft - 1
                             ELSE rows[t].leaseLeft
    BY <2>1, Zenon DEF PgTick, Tick, Row
  <2> QED
    BY <2>1, <2>2, <2>3, JobRowsAssumption
<1>6. \A w \in Workers : LockedBy(w)' = LockedBy(w) /\ LockedBy(w) \subseteq Sessions
  BY <1>3 DEF LockedBy, PgInv, PgTypeOK
<1>7. ClaimsAreDisjoint'
  BY <1>5, <1>6 DEF PgInv, ClaimsAreDisjoint
<1> QED
  BY <1>1, <1>4, <1>7 DEF PgInv

LEMMA PgStep ==
  ASSUME PgInv, [Next]_vars
  PROVE  PgInv' /\ [Contract!JobsNext]_Jobs
<1>1. ASSUME NEW w \in Workers, NEW lag \in Lags, BeginClaim(w, lag)
      PROVE  PgInv' /\ [Contract!JobsNext]_Jobs
  BY <1>1, BeginClaimStep
<1>2. ASSUME NEW w \in Workers, ClaimStatement(w) PROVE PgInv' /\ [Contract!JobsNext]_Jobs
  BY <1>2, ClaimStatementStep
<1>3. ASSUME NEW w \in Workers, LoseConnection(w) PROVE PgInv' /\ [Contract!JobsNext]_Jobs
  BY <1>3, RollbackStep DEF LoseConnection
<1>4. ASSUME NEW s \in Sessions, UnlockedCall(s) PROVE PgInv' /\ [Contract!JobsNext]_Jobs
  BY <1>4, UnlockedCallStep
<1>5. CASE PgTick
  BY <1>5, PgTickStep
<1>6. CASE UNCHANGED vars
  BY <1>6, RowsUntouched
  DEF vars, PgInv, PgTypeOK, TypeOK, ClaimsAreDisjoint, LockedBy
<1> QED
  BY <1>1, <1>2, <1>3, <1>4, <1>5, <1>6 DEF Next

LEMMA PgInvariant == Spec => []PgInv
<1>1. PgInv /\ [Next]_vars => PgInv'
  BY PgStep
<1> QED
  BY PgInitGood, <1>1, PTL DEF Spec

\* The table and the open claims keep their types, also the rows that a claim has
\* updated and not committed.
THEOREM PgTyped == Spec => []PgTypeOK
<1>1. PgInv => PgTypeOK
  BY DEF PgInv
<1> QED
  BY PgInvariant, <1>1, PTL

\* Overlapping claims never hold the same row, and a row that one of them has
\* marked failed stays exhausted until it commits.
THEOREM PgClaimsDisjoint == Spec => []ClaimsAreDisjoint
<1>1. PgInv => ClaimsAreDisjoint
  BY DEF PgInv
<1> QED
  BY PgInvariant, <1>1, PTL

\* In the database, too, a lease and its owner exist exactly while the job runs,
\* although claims commit late and other calls come between.
THEOREM PgRowsAgree == Spec => []LeaseBelongsToRunningJob
<1>1. PgInv => LeaseBelongsToRunningJob
  BY RowsInvTells DEF PgInv
<1> QED
  BY PgInvariant, <1>1, PTL

\* The database store implements the same contract, although its claims
\* overlap, skip locked rows and may be rolled back.
THEOREM PgImplementsContract == Spec => ImplementsContract
<1>1. PgInv /\ [Next]_vars => PgInv' /\ [Contract!JobsNext]_Jobs
  BY PgStep
<1>2. [Contract!JobsNext]_Jobs <=> [Contract!JobsNext]_([s \in Sessions |->
               [status |-> rows[s].status, attempts |-> rows[s].attempts,
                owner |-> rows[s].owner, live |-> rows[s].leaseLeft > 0,
                version |-> rows[s].version]])
  BY Zenon DEF Jobs, JobOf
<1>3. PgInit => Contract!JobsInit
  BY InitIsContractInit DEF PgInit
<1> QED
  BY PgInitGood, <1>1, <1>2, <1>3, PTL DEF Spec, ImplementsContract, Contract!JobsSpec

================================================================================
