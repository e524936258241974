--------------------------- MODULE PostgresJobStore ---------------------------
(***************************************************************************)
(* PostgresStore.  A claim is a transaction of several statements: each    *)
(* one locks the oldest candidate that no other transaction has locked     *)
(* (FOR UPDATE SKIP LOCKED); an exhausted candidate is marked failed and   *)
(* the loop goes on, any other candidate is granted and the transaction    *)
(* commits.  With no candidate left the transaction is rolled back, and    *)
(* with it the failed marks.                                               *)
(***************************************************************************)
EXTENDS JobRows

VARIABLE tx     \* tx[w]: the claim transaction of worker w

vars == <<rows, tx>>

\* lag: how far the time read before the transaction lags by now;
\* failed: the rows this transaction has locked and marked failed.
Closed == [open |-> FALSE, lag |-> 0, failed |-> {}]

PgInit == RowsInit /\ tx = [w \in Workers |-> Closed]

LockedBy(w) == tx[w].failed
LockIgnored(s) == FALSE
Locked(s)   == \E w \in Workers : s \in LockedBy(w)

BeginClaim(w, lag) ==
    /\ ~tx[w].open
    /\ tx' = [tx EXCEPT ![w] = [open |-> TRUE, lag |-> lag, failed |-> {}]]
    /\ UNCHANGED rows

\* One execution of claimJobQuery and what the loop does with its answer.
ClaimStatement(w) ==
    LET candidates == {s \in Sessions : ClaimableAt(s, tx[w].lag) /\ ~Locked(s)}
    IN  /\ tx[w].open
        /\ \/ \E s \in candidates :
                /\ OldestOf(s, candidates)
                /\ \/ /\ Exhausted(s)
                      /\ tx' = [tx EXCEPT ![w].failed = @ \cup {s}]
                      /\ UNCHANGED rows
                   \/ /\ ~Exhausted(s)
                      /\ rows' = [t \in Sessions |->
                            IF t = s THEN Grant(rows[s], w, tx[w].lag)
                            ELSE IF t \in LockedBy(w) THEN Release(rows[t], "failed") ELSE rows[t]]
                      /\ tx' = [tx EXCEPT ![w] = Closed]
           \/ /\ candidates = {}
              /\ tx' = [tx EXCEPT ![w] = Closed]
              /\ UNCHANGED rows

\* The connection or the process is lost: the database rolls back.
LoseConnection(w) ==
    /\ tx[w].open
    /\ tx' = [tx EXCEPT ![w] = Closed]
    /\ UNCHANGED rows

\* A statement on a locked row waits until the lock is gone.
UnlockedCall(s) == ~Locked(s) /\ RowCall(s) /\ UNCHANGED tx

\* A transaction does not stay open longer than MaxLag.
PgTick ==
    /\ \A w \in Workers : tx[w].open => tx[w].lag < MaxLag
    /\ Tick
    /\ tx' = [w \in Workers |-> IF tx[w].open THEN [tx[w] EXCEPT !.lag = @ + 1] ELSE tx[w]]

Next == \/ \E w \in Workers : \/ \E lag \in Lags : BeginClaim(w, lag)
                              \/ ClaimStatement(w)
                              \/ LoseConnection(w)
        \/ \E s \in Sessions : UnlockedCall(s)
        \/ PgTick

\* Every worker polls for ever, its statements are answered, and time passes.
Spec == /\ PgInit /\ [][Next]_vars
        /\ WF_vars(PgTick)
        /\ \A w \in Workers : WF_vars(BeginClaim(w, 0)) /\ WF_vars(ClaimStatement(w))

-----------------------------------------------------------------------------
PgTypeOK ==
    /\ TypeOK
    /\ tx \in [Workers -> [open : BOOLEAN, lag : Lags, failed : SUBSET Sessions]]

\* Two claims never hold the same row, and what a claim has marked failed is
\* still exhausted and out of its lease when the claim commits.
ClaimsAreDisjoint ==
    /\ \A w1, w2 \in Workers : w1 # w2 => LockedBy(w1) \cap LockedBy(w2) = {}
    /\ \A w \in Workers : \A s \in LockedBy(w) :
          /\ rows[s].attempts = MaxAttempts
          /\ rows[s].status = "queued" \/ (rows[s].status = "running" /\ rows[s].leaseLeft <= 0)

=============================================================================
