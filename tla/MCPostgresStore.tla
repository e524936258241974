---------------------------- MODULE MCPostgresStore ----------------------------
(***************************************************************************)
(* What overlapping callers share, in one run of four parts: the job       *)
(* queue's table (PostgresJobStore), a session's tables                    *)
(* (PostgresSessions), the versions of one card that concurrent jobs       *)
(* iterate on (CardIterations), and the keys that the requests of a        *)
(* process authenticate with (SigningKeys). A behaviour keeps to the part  *)
(* it starts with; the properties are safety properties, so no part is     *)
(* given fairness. The configuration reuses the model values of the        *)
(* sessions and workers, so that the symmetry set of MCPostgresJobStore    *)
(* serves the other parts too.                                             *)
(***************************************************************************)
EXTENDS MCPostgresJobStore, PostgresSessions, CardIterations, SigningKeys

CONSTANT FirstKey   \* the first deployment signs with it

VARIABLE part

StoreInit ==
  /\ part \in {"jobs", "sessions", "iterations", "keys"}
  /\ PgInit /\ SessionsInit /\ IterationsInit /\ KeysInit
  /\ signer = FirstKey

\* Bound: iterations and disruptions, taken together: three iterations with no
\* disruption, two with one, or one with two.
MaxLoad == 3
IterationsBound ==
  Cardinality({i \in Iterations : base'[i] # i}) + disruptions' <= MaxLoad

\* The iterations of a card come to an end; no other part does.
IterationsEnded ==
  /\ \A i \in Iterations, a \in Attempts : run[i][a].pc \notin Running
  /\ UNCHANGED iterationVars

StoreNext ==
  \/ part = "jobs" /\ Next /\ UNCHANGED <<sessionRows, iterationVars, keyVars, part>>
  \/ part = "sessions" /\ SessionsNext /\ UNCHANGED <<vars, iterationVars, keyVars, part>>
  \/ /\ part = "iterations"
     /\ (IterationsNext /\ IterationsBound) \/ IterationsEnded
     /\ UNCHANGED <<vars, sessionRows, keyVars, part>>
  \/ part = "keys" /\ KeysNext /\ UNCHANGED <<vars, sessionRows, iterationVars, part>>

StoreSpec == StoreInit /\ [][StoreNext]_<<vars, sessionRows, iterationVars, keyVars, part>>

================================================================================
