-------------------------- MODULE GenerationConstants --------------------------
(* The identifiers that the job queue, the sessions and the catalog share.    *)

CONSTANTS Sessions,     \* generation sessions
          VersionIds,   \* card version identifiers that a worker can draw
          NoVersion     \* no version: version_id IS NULL, VersionID == ""

ASSUME GenerationConstantsAssumption == NoVersion \notin VersionIds

=============================================================================
