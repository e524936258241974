-------------------------- MODULE MCGenerationWorker --------------------------
EXTENDS GenerationWorker, TLC

Symmetry == Permutations(Sessions) \cup Permutations(Workers)
            \cup Permutations(VersionIds) \cup Permutations(Contents)

=============================================================================
