--------------------------- MODULE CardIterations ---------------------------
(***************************************************************************)
(* Concurrent iterations of one card. An iteration is a generation session *)
(* that starts from a published version of the card and publishes another  *)
(* version of it. Its job runs in attempts of the worker (RunOnce), and    *)
(* attempts overlap when a lease is lost: neither the object store nor the *)
(* version catalog knows of leases. An attempt loads and verifies the base,*)
(* looks for a version published by an earlier attempt, computes the next  *)
(* display version, asks the model, uploads the archive under its hash and *)
(* inserts the catalog row that names it.                                  *)
(*                                                                         *)
(* The catalog and the object store are those of a deployment (PostgreSQL  *)
(* and S3): an insert that does nothing on a conflict and a second         *)
(* statement that finds out why. A version's identity is the iteration's,  *)
(* since its reservation is write-once (JobLease). A display version is    *)
(* its last component, the only one that moves: 0 stands for 1.0.0 and     *)
(* MaxPatch for the largest uint64. An archive is the record of what the   *)
(* properties tell apart; equal records have equal hashes.                 *)
(***************************************************************************)
EXTENDS Integers, FiniteSets

CONSTANTS
  Iterations,         \* the sessions that iterate on the card
  First,              \* the card's first version
  Capabilities,       \* what a card may be allowed to call
  Granted,            \* what every confirmed session is allowed
  FirstCapabilities,  \* what the first version's manifest declares; a release
                      \* that granted something else may have published it
  Runtime,            \* "native" or "web": what the card runs on
  ArtifactKeys,               \* the signing keys deployments use in turn
  NoArtifactKey,
  MaxPatch,           \* the largest last component of a display version
  JobAttempts,        \* attempts of a job
  ModelAttempts,      \* model calls of one attempt (maxModelAttempts)
  MaxDisruptions      \* bound: faults, lost leases and redeployments

ASSUME IterationAssumption ==
  /\ First \notin Iterations
  /\ FirstCapabilities \subseteq Capabilities
  /\ Granted \subseteq Capabilities
  /\ Runtime \in {"native", "web"}
  /\ NoArtifactKey \notin ArtifactKeys
  /\ MaxPatch \in Nat
  /\ JobAttempts \in Nat
  /\ ModelAttempts \in Nat
  /\ MaxDisruptions \in Nat

VARIABLES
  objects,      \* the archives in the object store; a key is an archive's hash
  versions,     \* the rows of card_versions, each the archive it names
  base,         \* the version an iteration starts from
  run,          \* run[i][a]: attempt a of iteration i
  signer,       \* the key of the current deployment
  disruptions

iterationVars == <<objects, versions, base, run, signer, disruptions>>

Versions == Iterations \union {First}
Attempts == 1..JobAttempts
Patch == 0..MaxPatch

\* What a signed archive holds: the identity, the display version and the
\* capabilities of its manifest, what its content calls, and the key.
Archive == [version : Versions, patch : Patch, content : SUBSET Capabilities,
            capabilities : SUBSET Capabilities, key : ArtifactKeys]

Finished == {"done", "failed", "overtaken"}
Running == {"load", "find", "number", "call", "upload", "insert", "examine",
            "renumber", "finish"}

AttemptState == [pc : {"waiting", "gone"} \union Running \union Finished,
                 key : ArtifactKeys \union {NoArtifactKey}, capabilities : SUBSET Capabilities,
                 patch : Patch, content : SUBSET Capabilities,
                 calls : 0..ModelAttempts, refused : SUBSET Patch]

NotBegun == [pc |-> "waiting", key |-> NoArtifactKey, capabilities |-> {}, patch |-> 0,
             content |-> {}, calls |-> 0, refused |-> {}]

FirstArchive(key) ==
  [version |-> First, patch |-> 0, content |-> FirstCapabilities,
   capabilities |-> FirstCapabilities, key |-> key]

IterationsInit ==
  /\ signer \in ArtifactKeys
  /\ objects = {FirstArchive(signer)}
  /\ versions = {FirstArchive(signer)}
  /\ base = [i \in Iterations |-> i]
  /\ run = [i \in Iterations |-> [a \in Attempts |-> NotBegun]]
  /\ disruptions = 0

Confirmed(i) == base[i] # i
Published == {row.version : row \in versions}
Patches == {row.patch : row \in versions}

Disrupt == disruptions < MaxDisruptions /\ disruptions' = disruptions + 1
Undisrupted == UNCHANGED <<disruptions, signer>>

Goes(i, a, state) == run' = [run EXCEPT ![i][a] = state]
InPhase(i, a, pc) == run[i][a].pc = pc

\* An attempt that is over keeps nothing, nor does one that has its version.
Over(pc) == [NotBegun EXCEPT !.pc = pc]

------------------------------------------------------------------------------
(* The user confirms an iteration of a version that the catalog has.        *)

ConfirmIteration(i) ==
  /\ ~Confirmed(i)
  /\ \E v \in Published : base' = [base EXCEPT ![i] = v]
  /\ UNCHANGED <<objects, versions, run>>
  /\ Undisrupted

\* A worker claims the job: the first time, or again after an attempt that
\* ended without finishing the job, or one that is still going and has lost
\* its lease. The worker's process has the deployment's key.
BeginAttempt(i, a) ==
  /\ Confirmed(i)
  /\ InPhase(i, a, "waiting")
  /\ \/ a = 1 /\ UNCHANGED disruptions
     \/ a > 1 /\ InPhase(i, a - 1, "gone") /\ UNCHANGED disruptions
     \/ a > 1 /\ run[i][a - 1].pc \in Running /\ Disrupt
  /\ Goes(i, a, [run[i][a] EXCEPT !.pc = "load", !.key = signer])
  /\ UNCHANGED <<objects, versions, base, signer>>

\* The archive that the base's row names, read from the object store.
LoadVersionArtifact(i) ==
  {archive \in versions \intersect objects : archive.version = base[i]}

\* It is verified: its identity, its files, and its manifest's signature by a
\* key this process trusts, which is its own only.
ParseBaseArtifact(i, a, archive) ==
  archive.version = base[i] /\ archive.key = run[i][a].key

LoadBase(i, a) ==
  /\ InPhase(i, a, "load")
  /\ \E archive \in LoadVersionArtifact(i) :
       Goes(i, a, IF ParseBaseArtifact(i, a, archive)
                  THEN [run[i][a] EXCEPT !.pc = "find",
                                         !.capabilities = archive.capabilities]
                  ELSE Over("failed"))
  /\ UNCHANGED <<objects, versions, base>>
  /\ Undisrupted

\* A version under the reserved identity is the work of an earlier attempt.
FindPublished(i, a) ==
  /\ InPhase(i, a, "find")
  /\ Goes(i, a, IF i \in Published THEN Over("finish")
                                     ELSE [run[i][a] EXCEPT !.pc = "number"])
  /\ UNCHANGED <<objects, versions, base>>
  /\ Undisrupted

\* NextDisplayVersion: one more than the highest that is listed, unless that
\* is the largest there is.
Highest(patch) == patch \in Patches /\ \A other \in Patches : other <= patch

Numbered(state, pc, highest) ==
  IF highest = MaxPatch
  THEN Over("failed")
  ELSE [state EXCEPT !.pc = pc, !.patch = highest + 1]

NumberVersion(i, a) ==
  /\ InPhase(i, a, "number")
  /\ \E highest \in Patches :
       Highest(highest) /\ Goes(i, a, Numbered(run[i][a], "call", highest))
  /\ UNCHANGED <<objects, versions, base>>
  /\ Undisrupted

\* The requirement is turned down before the model is asked: it is forbidden,
\* or it would change the runtime that an iteration keeps.
DeclineRequirement(i, a) ==
  /\ InPhase(i, a, "call")
  /\ run[i][a].calls = 0
  /\ Goes(i, a, Over("failed"))
  /\ UNCHANGED <<objects, versions, base>>
  /\ Undisrupted

\* What an accepted answer may call. The validator holds a native card to the
\* granted capabilities; a web card is built, and held to nothing here.
NativeContents == SUBSET Granted
WebContents == SUBSET Capabilities

\* One model call. A refused answer and a retryable failure of the provider
\* spend the same budget; any other failure, or the last, ends the job.
CallModel(i, a) ==
  /\ InPhase(i, a, "call")
  /\ run[i][a].calls < ModelAttempts
  /\ \/ \E content \in IF Runtime = "native" THEN NativeContents ELSE WebContents :
          Goes(i, a, [run[i][a] EXCEPT !.pc = "upload", !.content = content,
                                       !.calls = 0])
     \/ /\ run[i][a].calls + 1 < ModelAttempts
        /\ Goes(i, a, [run[i][a] EXCEPT !.calls = @ + 1])
     \/ Goes(i, a, Over("failed"))
  /\ UNCHANGED <<objects, versions, base>>
  /\ Undisrupted

\* Mutant: the manifest takes the capabilities that the session was granted.
BuiltAsConfirmed(i, a) ==
  [version |-> i, patch |-> run[i][a].patch, content |-> run[i][a].content,
   capabilities |-> Granted, key |-> run[i][a].key]

\* The archive an attempt builds and signs: the manifest inherits the base's
\* capabilities, whatever the session was granted.
Built(i, a) ==
  [version |-> i, patch |-> run[i][a].patch, content |-> run[i][a].content,
   capabilities |-> run[i][a].capabilities, key |-> run[i][a].key]

\* PutIfAbsent; an equal object is left as it is.
UploadArchive(i, a) ==
  /\ InPhase(i, a, "upload")
  /\ objects' = objects \union {Built(i, a)}
  /\ Goes(i, a, [run[i][a] EXCEPT !.pc = "insert"])
  /\ UNCHANGED <<versions, base>>
  /\ Undisrupted

\* Mutant: a card may have a display version more than once.
InsertableNumberTwice(archive) == archive.version \notin Published

\* INSERT ... ON CONFLICT DO NOTHING: version_id is the key, and a card has
\* each display version once.
Insertable(archive) ==
  archive.version \notin Published /\ archive.patch \notin Patches

InsertVersion(i, a) ==
  /\ InPhase(i, a, "insert")
  /\ IF Insertable(Built(i, a))
     THEN /\ versions' = versions \union {Built(i, a)}
          /\ Goes(i, a, Over("finish"))
     ELSE /\ Goes(i, a, [run[i][a] EXCEPT !.pc = "examine"])
          /\ UNCHANGED versions
  /\ UNCHANGED <<objects, base>>
  /\ Undisrupted

\* The second statement: the same version again, another one in its place, or
\* (not found) the display version is taken, which the worker accepts once.
ExamineConflict(i, a) ==
  /\ InPhase(i, a, "examine")
  /\ IF i \in Published
     THEN Goes(i, a, IF Built(i, a) \in versions
                     THEN Over("finish")
                     ELSE Over("failed"))
     ELSE Goes(i, a, [run[i][a] EXCEPT
                        !.pc = IF run[i][a].refused = {} THEN "renumber" ELSE "overtaken",
                        !.refused = @ \union {run[i][a].patch}])
  /\ UNCHANGED <<objects, versions, base>>
  /\ Undisrupted

\* Mutant: the archive built under the first number is not uploaded again.
RenumberWithoutUpload(i, a) ==
  /\ InPhase(i, a, "renumber")
  /\ \E highest \in Patches :
       Highest(highest) /\ Goes(i, a, Numbered(run[i][a], "insert", highest))
  /\ UNCHANGED <<objects, versions, base>>
  /\ Undisrupted

\* Mutant: the number that was refused is tried again.
RenumberUnchanged(i, a) ==
  /\ InPhase(i, a, "renumber")
  /\ Goes(i, a, [run[i][a] EXCEPT !.pc = "upload"])
  /\ UNCHANGED <<objects, versions, base>>
  /\ Undisrupted

\* The one recomputation; the content is published again under a new number.
Renumber(i, a) ==
  /\ InPhase(i, a, "renumber")
  /\ \E highest \in Patches :
       Highest(highest) /\ Goes(i, a, Numbered(run[i][a], "upload", highest))
  /\ UNCHANGED <<objects, versions, base>>
  /\ Undisrupted

\* MarkReady and Complete.
FinishAttempt(i, a) ==
  /\ InPhase(i, a, "finish")
  /\ Goes(i, a, Over("done"))
  /\ UNCHANGED <<objects, versions, base>>
  /\ Undisrupted

------------------------------------------------------------------------------
(* What goes wrong.                                                         *)

\* The session refuses a change (its user cancelled it, or another attempt
\* ended it): the job fails.
RefuseSession(i, a) ==
  /\ Disrupt
  /\ \/ run[i][a].pc \in {"load", "finish"}
     \/ InPhase(i, a, "upload") /\ run[i][a].refused = {}
  /\ Goes(i, a, Over("failed"))
  /\ UNCHANGED <<objects, versions, base, signer>>

\* A store answers with an error, or its answer is lost after the effect. The
\* job is retried for an error that passes, while attempts are left.
StoreCalls == {"load", "find", "number", "upload", "insert", "examine", "renumber"}

FailStoreCall(i, a) ==
  /\ Disrupt
  /\ run[i][a].pc \in StoreCalls
  /\ \/ /\ InPhase(i, a, "upload")
        /\ objects' = objects \union {Built(i, a)}
        /\ UNCHANGED versions
     \/ /\ InPhase(i, a, "insert")
        /\ Insertable(Built(i, a))
        /\ versions' = versions \union {Built(i, a)}
        /\ UNCHANGED objects
     \/ UNCHANGED <<objects, versions>>
  /\ \/ a < JobAttempts /\ Goes(i, a, Over("gone"))
     \/ Goes(i, a, Over("failed"))
  /\ UNCHANGED <<base, signer>>

\* The process dies, or the heartbeat ends the attempt.
StopAttempt(i, a) ==
  /\ Disrupt
  /\ run[i][a].pc \in Running
  /\ Goes(i, a, Over("gone"))
  /\ UNCHANGED <<objects, versions, base, signer>>

\* A deployment with another key. Workers of the old one go on meanwhile.
RotateKey ==
  /\ Disrupt
  /\ \E key \in ArtifactKeys \ {signer} : signer' = key
  /\ UNCHANGED <<objects, versions, base, run>>

AttemptStep(i, a) ==
  \/ BeginAttempt(i, a) \/ LoadBase(i, a) \/ FindPublished(i, a)
  \/ NumberVersion(i, a) \/ DeclineRequirement(i, a) \/ CallModel(i, a)
  \/ UploadArchive(i, a)
  \/ InsertVersion(i, a) \/ ExamineConflict(i, a) \/ Renumber(i, a)
  \/ FinishAttempt(i, a)
  \/ RefuseSession(i, a) \/ FailStoreCall(i, a) \/ StopAttempt(i, a)

IterationsNext ==
  \/ \E i \in Iterations : ConfirmIteration(i)
  \/ \E i \in Iterations, a \in Attempts : AttemptStep(i, a)
  \/ RotateKey

IterationsSpec == IterationsInit /\ [][IterationsNext]_iterationVars

------------------------------------------------------------------------------
(* Properties.                                                              *)

\* Types.
IterationsTypeOK ==
  /\ objects \subseteq Archive
  /\ versions \subseteq Archive
  /\ base \in [Iterations -> Versions]
  /\ run \in [Iterations -> [Attempts -> AttemptState]]
  /\ signer \in ArtifactKeys
  /\ disruptions \in Nat

\* Every row names an archive the store has, whatever crashed or was retried
\* between the upload and the insert: no listed version fails to download
\* (Publish, publisher.go).
ObjectsBehindRows == versions \subseteq objects

\* The card's versions are numbered without a gap and without a repetition,
\* although iterations compute the next number concurrently, compute it twice
\* and give up in between (NextDisplayVersion, publisher.go).
VersionsGapFree ==
  /\ \A row, other \in versions :
       (row.patch = other.patch \/ row.version = other.version) => row = other
  /\ \A patch \in Patches : 0..patch \subseteq Patches

\* No chain of iterations gains a capability, whatever sessions are granted by
\* now (worker.go, the definition built from the base's).
CapabilitiesNeverWiden ==
  \A row \in versions : row.capabilities = FirstCapabilities

\* An iteration is only turned away for its display version when two others
\* were published since the attempt first computed it: one is survived by
\* computing it again (worker.go, ErrDisplayVersionConflict).
OvertakenTwice ==
  \A i \in Iterations, a \in Attempts :
    InPhase(i, a, "overtaken") =>
      \E row, other \in versions :
        /\ row.patch < other.patch
        /\ {row.version, other.version} \subseteq Iterations \ {i}
        /\ {row.patch, other.patch} = run[i][a].refused
==============================================================================
