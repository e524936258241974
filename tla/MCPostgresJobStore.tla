-------------------------- MODULE MCPostgresJobStore --------------------------
(* The same instance as MCMemoryJobStore, with claims that overlap.          *)
EXTENDS PostgresJobStore, TLC

Symmetry == Permutations(Sessions) \cup Permutations(Workers) \cup Permutations(VersionIds)

=============================================================================
