---------------------------- MODULE MemoryJobStore ----------------------------
(***************************************************************************)
(* MemoryStore: one mutex, so every call is one step, the claim included.  *)
(***************************************************************************)
EXTENDS JobRows

\* The oldest candidate with an attempt left gets the lease; the exhausted
\* candidates before it (all of them when there is no such candidate) fail.
MemoryClaim(w, lag) ==
    LET candidates == {s \in Sessions : ClaimableAt(s, lag)}
        exhausted  == {s \in candidates : Exhausted(s)}
        Fail(some) == [s \in Sessions |->
                         IF s \in some THEN Release(rows[s], "failed") ELSE rows[s]]
    IN  \/ \E s \in candidates \ exhausted :
             /\ OldestOf(s, candidates \ exhausted)
             /\ rows' = [Fail({t \in exhausted : rows[t].rank < rows[s].rank})
                           EXCEPT ![s] = Grant(@, w, lag)]
        \/ /\ candidates = exhausted
           /\ rows' = Fail(exhausted)

MemoryNext == \/ \E s \in Sessions : RowCall(s)
              \/ \E w \in Workers, lag \in Lags : MemoryClaim(w, lag)
              \/ Tick

\* Every worker polls the queue for ever, and time passes.
MemorySpec == /\ RowsInit /\ [][MemoryNext]_rows
              /\ WF_rows(Tick)
              /\ \A w \in Workers : WF_rows(MemoryClaim(w, 0))

-----------------------------------------------------------------------------
\* No job with an attempt left is overtaken: whoever is given a lease, every
\* older job was then running under a lease, waiting for its retry, exhausted
\* or settled, whatever lag the claim's clock reading had.
OldestFirst ==
    [][\A s, t \in Sessions :
         (/\ rows'[s].attempts > rows[s].attempts
          /\ rows[t].rank < rows[s].rank
          /\ rows[t].status \in {"queued", "running"}
          /\ rows[t].attempts < MaxAttempts)
         => \/ rows[t].status = "queued"  /\ rows[t].wait > -MaxLag
            \/ rows[t].status = "running" /\ rows[t].leaseLeft > -MaxLag]_rows

=============================================================================
